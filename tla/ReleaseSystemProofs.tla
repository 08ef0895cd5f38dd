------------------------ MODULE ReleaseSystemProofs -------------------------
(***************************************************************************)
(* Proofs about ReleaseSystem, for any releases, targets and clients: first *)
(* what holds for any number of worker loops, then what the designed single *)
(* loop adds, up to the refinement of ReleaseLifecycle.                     *)
(***************************************************************************)
EXTENDS ReleaseInvariant, TLAPS

\* The status aggregated from the logs is one a record and, folded, one a
\* release may have.
LEMMA OutcomeType ==
  ASSUME NEW r \in Release
  PROVE  /\ Outcome(r) \in Executed
         /\ Summary(Outcome(r)) \in {"success", "failed"}
BY DEF Outcome, Summary, Executed

\* Updating one entry of a table of tables keeps it well typed.
LEMMA NestedUpdate ==
  ASSUME NEW S, NEW T, NEW V, NEW f \in [S -> [T -> V]], NEW x, NEW y, NEW v \in V
  PROVE  [f EXCEPT ![x][y] = v] \in [S -> [T -> V]]
<1>1. ASSUME NEW s \in S
      PROVE  [f[s] EXCEPT ![y] = v] \in [T -> V]
  OBVIOUS
<1> QED
  BY <1>1

\* The same, when the new entry is kept if the old one is "none".
LEMMA NestedResult ==
  ASSUME NEW S, NEW T, NEW V, NEW f \in [S -> [T -> V]], NEW x, NEW y, NEW v \in V
  PROVE  [f EXCEPT ![x][y] = IF @ = "none" THEN @ ELSE v] \in [S -> [T -> V]]
<1>1. ASSUME NEW s \in S
      PROVE  [f[s] EXCEPT ![y] = IF @ = "none" THEN @ ELSE v] \in [T -> V]
  OBVIOUS
<1> QED
  BY <1>1

-----------------------------------------------------------------------------
(* Type correctness: what the worker does, what the handlers do, and what  *)
(* each does to the variables of the other.                                *)

\* The worker's transactions keep the tables well typed.
LEMMA WorkerStoreType ==
  ASSUME StoreTypeOK, WorkerTypeOK, NEW w \in Worker, WorkerStep(w)
  PROVE  StoreTypeOK'
<1> USE StoreAssumption DEF StoreTypeOK, WorkerTypeOK, tables, storeVars,
          ReleaseStatus, RecordStatus, LogStatus, LeaseStatus
<1>1. CASE Recover(w)
  BY <1>1 DEF Recover, RecoverExpiredDeploys
<1>2. CASE AnnounceRecovered(w)
  BY <1>2 DEF AnnounceRecovered, CreateReleaseEvent
<1>3. CASE Claim(w)
  BY <1>3 DEF Claim, ClaimDeploy
<1>4. CASE ClaimNothing(w)
  BY <1>4 DEF ClaimNothing
<1>5. CASE StartDeploy(w)
  BY <1>5 DEF StartDeploy, CreateReleaseEvent
<1>6. CASE StartTarget(w)
  <2>1. PICK ref \in Ref : MarkTargetRunning(current[w], ref)
    BY <1>6 DEF StartTarget
  <2>2. logs' \in [Release -> [Ref -> LogStatus]]
    BY <2>1, NestedUpdate DEF MarkTargetRunning
  <2> QED
    BY <1>6, <2>1, <2>2 DEF StartTarget, MarkTargetRunning
<1>7. CASE TargetNotQueued(w)
  BY <1>7 DEF TargetNotQueued
<1>8. CASE NoMoreTargets(w)
  BY <1>8 DEF NoMoreTargets
<1>9. CASE Execute(w)
  BY <1>9 DEF Execute
<1>10. CASE FinishTarget(w)
  <2>1. PICK ref \in Ref : MarkTargetFinished(current[w], ref, outcome[w])
    BY <1>10 DEF FinishTarget
  <2> DEFINE result == outcome[w]
  <2>2. result \in LogStatus
    OBVIOUS
  <2>3. logs' = [logs EXCEPT ![current[w]][ref] = IF @ = "none" THEN @ ELSE result]
    BY <2>1 DEF MarkTargetFinished
  <2> HIDE DEF result
  <2>4. logs' \in [Release -> [Ref -> LogStatus]]
    BY <2>2, <2>3, NestedResult, ZenonT(60)
  <2> QED
    BY <1>10, <2>1, <2>4 DEF FinishTarget, MarkTargetFinished
<1>11. CASE ReportTarget(w)
  BY <1>11 DEF ReportTarget, CreateReleaseEvent
<1>12. CASE SkipRest(w)
  BY <1>12, ZenonT(60) DEF SkipRest, MarkQueuedTargetsSkipped
<1>13. CASE Finish(w)
  <2> DEFINE r == current[w]
  <2>1. r \in Release \cup {NoRelease}
    OBVIOUS
  <2>2. record' \in [Release -> RecordStatus] /\ release' \in [Release -> ReleaseStatus]
    <3>1. CASE r \in Release
      BY <1>13, <3>1, OutcomeType DEF Finish, FinishDeploy, Executed
    <3>2. CASE r = NoRelease
      BY <1>13, <3>2, ZenonT(60) DEF Finish, FinishDeploy
    <3> QED
      BY <2>1, <3>1, <3>2
  <2>3. state' \in [Target -> [Ref -> Release \cup {NoRelease}]]
    <3>1. state' = [state EXCEPT ![TargetOf[r]] =
                      [ref \in Ref |-> IF ref \in DeployedRefs(r) THEN r ELSE @[ref]]]
      BY <1>13 DEF Finish, FinishDeploy
    <3>2. ASSUME NEW t \in Target
          PROVE  [ref \in Ref |-> IF ref \in DeployedRefs(r) THEN r ELSE state[t][ref]]
                   \in [Ref -> Release \cup {NoRelease}]
      BY <2>1
    <3> QED
      BY <3>1, <3>2, ZenonT(60)
  <2> QED
    BY <1>13, <2>2, <2>3 DEF Finish, FinishDeploy
<1>14. CASE Report(w)
  BY <1>14 DEF Report, CreateReleaseEvent
<1>15. CASE StopOnLostHeartbeat(w)
  BY <1>15 DEF StopOnLostHeartbeat
<1>16. CASE Abandon(w)
  BY <1>16 DEF Abandon
<1>17. CASE Heartbeat(w)
  BY <1>17 DEF Heartbeat, HeartbeatDeploy
<1>18. CASE LoseHeartbeat(w)
  BY <1>18 DEF LoseHeartbeat
<1> QED
  BY <1>1, <1>2, <1>3, <1>4, <1>5, <1>6, <1>7, <1>8, <1>9, <1>10, <1>11, <1>12, <1>13, <1>14, <1>15, <1>16, <1>17, <1>18 DEF WorkerStep, Progress

\* The loop and its heartbeat keep the worker's own variables well typed.
LEMMA WorkerOwnType ==
  ASSUME StoreTypeOK, WorkerTypeOK, NEW w \in Worker, WorkerStep(w)
  PROVE  WorkerTypeOK'
<1> USE StoreAssumption DEF StoreTypeOK, WorkerTypeOK, WorkerPc, workerVars, Goto
<1>1. CASE Recover(w)
  BY <1>1 DEF Recover, Expired
<1>2. CASE AnnounceRecovered(w)
  BY <1>2 DEF AnnounceRecovered
<1>3. CASE Claim(w)
  BY <1>3 DEF Claim, Snapshot
<1>4. CASE ClaimNothing(w)
  BY <1>4 DEF ClaimNothing, Return
<1>5. CASE StartDeploy(w)
  BY <1>5 DEF StartDeploy
<1>6. CASE StartTarget(w)
  BY <1>6 DEF StartTarget
<1>7. CASE TargetNotQueued(w)
  BY <1>7 DEF TargetNotQueued, Return
<1>8. CASE NoMoreTargets(w)
  BY <1>8 DEF NoMoreTargets
<1>9. CASE Execute(w)
  <2> DEFINE r == current[w]
  <2>1. PICK ref \in Ref : \/ applied' = applied
                            \/ applied' = [applied EXCEPT ![TargetOf[r]][ref] = r]
    BY <1>9 DEF Execute
  <2>2. r \in Release \cup {NoRelease}
    OBVIOUS
  <2> HIDE DEF r
  <2>3. applied \in [Target -> [Ref -> Release \cup {NoRelease}]]
    OBVIOUS
  <2>4. [applied EXCEPT ![TargetOf[r]][ref] = r] \in [Target -> [Ref -> Release \cup {NoRelease}]]
    BY <2>2, <2>3, NestedUpdate
  <2>5. applied' \in [Target -> [Ref -> Release \cup {NoRelease}]]
    BY <2>1, <2>3, <2>4
  <2> QED
    BY <1>9, <2>5 DEF Execute
<1>10. CASE FinishTarget(w)
  BY <1>10 DEF FinishTarget
<1>11. CASE ReportTarget(w)
  BY <1>11 DEF ReportTarget
<1>12. CASE SkipRest(w)
  BY <1>12 DEF SkipRest
<1>13. CASE Finish(w)
  BY <1>13 DEF Finish
<1>14. CASE Report(w)
  BY <1>14 DEF Report, Return
<1>15. CASE StopOnLostHeartbeat(w)
  BY <1>15 DEF StopOnLostHeartbeat, Return
<1>16. CASE Abandon(w)
  BY <1>16 DEF Abandon, Return
<1>17. CASE Heartbeat(w)
  BY <1>17 DEF Heartbeat
<1>18. CASE LoseHeartbeat(w)
  BY <1>18 DEF LoseHeartbeat
<1> QED
  BY <1>1, <1>2, <1>3, <1>4, <1>5, <1>6, <1>7, <1>8, <1>9,
     <1>10, <1>11, <1>12, <1>13, <1>14, <1>15, <1>16, <1>17, <1>18
     DEF WorkerStep, Progress

\* The API's transactions keep the tables well typed.
LEMMA ServiceStoreType ==
  ASSUME StoreTypeOK, ServiceTypeOK, NEW c \in Client, Handle(c)
  PROVE  StoreTypeOK'
<1> USE StoreAssumption DEF StoreTypeOK, ServiceTypeOK, tables, storeVars,
          ReleaseStatus, RecordStatus, LogStatus, LeaseStatus
<1>1. CASE \E r \in Release : CreateBegin(c, r)
  BY <1>1 DEF CreateBegin, Begin
<1>2. CASE CreateInsert(c)
  BY <1>2 DEF CreateInsert, CreateReleaseRequest, AdvanceToEvent
<1>3. CASE \E r \in Release, a \in Actor : ConfirmBegin(c, r, a)
  BY <1>3 DEF ConfirmBegin, Begin
<1>4. CASE ConfirmPreflight(c)
  BY <1>4 DEF ConfirmPreflight, Advance
<1>5. CASE ConfirmAuthorize(c)
  BY <1>5 DEF ConfirmAuthorize, Advance
<1>6. CASE ConfirmQueue(c)
  <2>1. PICK refs \in Memberships[TargetOf[subject[c]]] : ConfirmAndQueueRelease(subject[c], refs)
    BY <1>6 DEF ConfirmQueue
  <2>2. logs' \in [Release -> [Ref -> LogStatus]]
    BY <2>1 DEF ConfirmAndQueueRelease
  <2>3. now + 1 \in Nat
    OBVIOUS
  <2>4. now' \in Nat
    BY <2>1, <2>3 DEF ConfirmAndQueueRelease
  <2>5. createdAt' \in [Release -> Nat]
    BY <2>1, <2>3 DEF ConfirmAndQueueRelease
  <2> QED
    BY <1>6, <2>1, <2>2, <2>4, <2>5 DEF ConfirmQueue, ConfirmAndQueueRelease
<1>7. CASE \E r \in Release, a \in Actor : RejectBegin(c, r, a)
  BY <1>7 DEF RejectBegin, Begin
<1>8. CASE RejectUpdate(c)
  BY <1>8 DEF RejectUpdate, RejectRelease, AdvanceToEvent
<1>9. CASE \E r \in Release, a \in Actor : CancelBegin(c, r, a)
  BY <1>9 DEF CancelBegin, Begin
<1>10. CASE CancelUpdate(c)
  BY <1>10 DEF CancelUpdate, CancelRelease, Advance
<1>11. CASE CancelReadBack(c)
  BY <1>11 DEF CancelReadBack, AdvanceToEvent, Answer
<1>12. CASE WriteEvent(c)
  BY <1>12 DEF WriteEvent, CreateReleaseEvent, Answer
<1>13. CASE GiveUp(c)
  BY <1>13 DEF GiveUp, Answer
<1> QED
  BY <1>1, <1>2, <1>3, <1>4, <1>5, <1>6, <1>7, <1>8, <1>9, <1>10, <1>11, <1>12, <1>13
     DEF Handle

\* Modes and standings are all that bears on a Confirm.
LEMMA FactsType ==
  ASSUME NEW P, NEW S \in [User -> Standing], NEW r, NEW a
  PROVE  /\ ModeIn(P, r) \in ConfirmMode
         /\ FactsIn(P, S, r, a) \in SUBSET (ConfirmMode \cup Standing)
BY DEF FactsIn, ModeIn, ConfirmMode

\* The handlers keep their own variables well typed.
LEMMA ServiceOwnType ==
  ASSUME ServiceTypeOK, NEW c \in Client, Handle(c)
  PROVE  ServiceTypeOK'
<1> USE ServiceAssumption DEF ServiceTypeOK, HandlerStep, EventType, accounts
<1>1. CASE \E r \in Release : CreateBegin(c, r)
  BY <1>1, FactsType DEF CreateBegin, Begin
<1>2. CASE CreateInsert(c)
  BY <1>2 DEF CreateInsert, AdvanceToEvent
<1>3. CASE \E r \in Release, a \in Actor : ConfirmBegin(c, r, a)
  BY <1>3, FactsType DEF ConfirmBegin, Begin
<1>4. CASE ConfirmPreflight(c)
  BY <1>4, FactsType DEF ConfirmPreflight, Advance
<1>5. CASE ConfirmAuthorize(c)
  BY <1>5 DEF ConfirmAuthorize, Advance
<1>6. CASE ConfirmQueue(c)
  BY <1>6 DEF ConfirmQueue, AdvanceToEvent
<1>7. CASE \E r \in Release, a \in Actor : RejectBegin(c, r, a)
  BY <1>7, FactsType DEF RejectBegin, Begin
<1>8. CASE RejectUpdate(c)
  BY <1>8 DEF RejectUpdate, AdvanceToEvent
<1>9. CASE \E r \in Release, a \in Actor : CancelBegin(c, r, a)
  BY <1>9, FactsType DEF CancelBegin, Begin
<1>10. CASE CancelUpdate(c)
  BY <1>10 DEF CancelUpdate, Advance
<1>11. CASE CancelReadBack(c)
  BY <1>11 DEF CancelReadBack, AdvanceToEvent, Answer
<1>12. CASE WriteEvent(c)
  BY <1>12 DEF WriteEvent, Answer
<1>13. CASE GiveUp(c)
  BY <1>13 DEF GiveUp, Answer
<1> QED
  BY <1>1, <1>2, <1>3, <1>4, <1>5, <1>6, <1>7, <1>8, <1>9, <1>10, <1>11, <1>12, <1>13
     DEF Handle

\* The clock touches the lease only, and a patch no table but the freeze.
LEMMA EnvironmentType ==
  ASSUME StoreTypeOK,
         \/ \E r \in Release : LeaseExpires(r)
         \/ Patch
  PROVE  StoreTypeOK'
BY DEF StoreTypeOK, LeaseExpires, Patch, PatchEnvironment, PatchUser, tables, storeVars, LeaseStatus

\* A patch keeps the accounts, and what the calls on their way meet, well typed.
LEMMA PatchType ==
  ASSUME ServiceTypeOK, Patch
  PROVE  ServiceTypeOK'
<1> USE ServiceAssumption DEF ServiceTypeOK
<1>1. ASSUME NEW P, NEW S \in [User -> Standing], Witnessed(P, S)
      PROVE  met' \in [Client -> SUBSET (ConfirmMode \cup Standing)]
  BY <1>1, FactsType DEF Witnessed
<1>2. ASSUME NEW e \in Environment, PatchEnvironment(e)
      PROVE  ServiceTypeOK'
  <2>1. met' \in [Client -> SUBSET (ConfirmMode \cup Standing)]
    BY <1>1, <1>2 DEF PatchEnvironment
  <2>2. production' \subseteq Environment
    BY <1>2 DEF PatchEnvironment
  <2> QED
    BY <1>2, <2>1, <2>2 DEF PatchEnvironment
<1>3. ASSUME NEW u \in User, PatchUser(u)
      PROVE  ServiceTypeOK'
  <2>1. standing' \in [User -> Standing]
    BY <1>3 DEF PatchUser
  <2>2. met' \in [Client -> SUBSET (ConfirmMode \cup Standing)]
    BY <1>1, <1>3, <2>1 DEF PatchUser
  <2> QED
    BY <1>3, <2>1, <2>2 DEF PatchUser, storeVars
<1> QED
  BY <1>2, <1>3 DEF Patch

\* A step of anybody keeps every variable well typed.
LEMMA TypeStep ==
  ASSUME TypeOK, [Next]_vars
  PROVE  TypeOK'
<1>1. ASSUME NEW w \in Worker, WorkerStep(w), UNCHANGED serviceVars
      PROVE  TypeOK'
  <2>1. StoreTypeOK' /\ WorkerTypeOK'
    BY <1>1, WorkerStoreType, WorkerOwnType DEF TypeOK
  <2>2. ServiceTypeOK'
    BY <1>1 DEF TypeOK, ServiceTypeOK, serviceVars
  <2> QED
    BY <2>1, <2>2 DEF TypeOK
<1>2. ASSUME NEW c \in Client, Handle(c), UNCHANGED workerVars
      PROVE  TypeOK'
  <2>1. StoreTypeOK' /\ ServiceTypeOK'
    BY <1>2, ServiceStoreType, ServiceOwnType DEF TypeOK
  <2>2. WorkerTypeOK'
    BY <1>2 DEF TypeOK, WorkerTypeOK, workerVars
  <2> QED
    BY <2>1, <2>2 DEF TypeOK
<1>3. ASSUME \/ (\E r \in Release : LeaseExpires(r)) /\ UNCHANGED serviceVars
             \/ Patch,
             UNCHANGED workerVars
      PROVE  TypeOK'
  <2>1. StoreTypeOK'
    BY <1>3, EnvironmentType DEF TypeOK
  <2>2. ServiceTypeOK'
    BY <1>3, PatchType DEF TypeOK, ServiceTypeOK, serviceVars
  <2> QED
    BY <1>3, <2>1, <2>2 DEF TypeOK, WorkerTypeOK, workerVars
<1>4. CASE UNCHANGED vars
  BY <1>4 DEF TypeOK, StoreTypeOK, WorkerTypeOK, ServiceTypeOK,
              vars, storeVars, workerVars, serviceVars
<1> QED
  BY <1>1, <1>2, <1>3, <1>4 DEF Next

\* Every variable of the pipeline has a value of its type, whatever releases,
\* targets, workers and requests there are.
THEOREM TypeCorrect == Spec => []TypeOK
<1>1. Init => TypeOK
  BY StoreAssumption, ServiceAssumption
     DEF Init, TypeOK, StoreInit, WorkerInit, ServiceInit, StoreTypeOK, WorkerTypeOK,
         ServiceTypeOK, ReleaseStatus, RecordStatus, LogStatus, LeaseStatus, WorkerPc, HandlerStep
<1> QED
  BY <1>1, TypeStep, PTL DEF Spec

-----------------------------------------------------------------------------
(* What a step does to the tables.                                         *)

\* An API transaction leaves the deploy of a release alone, or queues it with
\* at least one target, or cancels it before it is claimed.
LEMMA ApiStep ==
  ASSUME TypeOK, StatusCoupling, NEW c \in Client, Handle(c), NEW r \in Release
  PROVE  /\ state' = state
         /\ \/ record'[r] = record[r] /\ logs'[r] = logs[r]
            \/ /\ record[r] = "none"
               /\ record'[r] = "queued"
               /\ \E ref \in Ref : logs'[r][ref] # "none"
               /\ \A ref \in Ref : logs'[r][ref] \in {"none", "queued"}
            \/ record[r] = "queued" /\ record'[r] = "cancelled" /\ logs'[r] = logs[r]
<1> USE DEF TypeOK, StoreTypeOK, tables, storeVars
<1>1. CASE ConfirmQueue(c)
  <2>1. PICK refs \in Memberships[TargetOf[subject[c]]] : ConfirmAndQueueRelease(subject[c], refs)
    BY <1>1 DEF ConfirmQueue
  <2>2. CASE r = subject[c]
    <3>1. refs \subseteq Ref /\ refs # {}
      <4>1. TargetOf[r] \in Target
        BY StoreAssumption
      <4>2. Memberships[TargetOf[r]] \in SUBSET SUBSET Ref
        BY <4>1, StoreAssumption
      <4> QED
        BY <2>1, <2>2, <4>2 DEF ConfirmAndQueueRelease
    <3>2. record[r] = "none"
      BY <2>1, <2>2 DEF ConfirmAndQueueRelease, QueueGuard, StatusCoupling, Summary, RecordStatus
    <3> QED
      BY <2>1, <2>2, <3>1, <3>2 DEF ConfirmAndQueueRelease
  <2> QED
    BY <2>1, <2>2 DEF ConfirmAndQueueRelease
<1>2. CASE CancelUpdate(c)
  BY <1>2 DEF CancelUpdate, CancelRelease
<1>3. ASSUME ~ConfirmQueue(c), ~CancelUpdate(c)
      PROVE  UNCHANGED <<state, record, logs>>
  BY <1>3 DEF Handle, CreateBegin, CreateInsert, CreateReleaseRequest, ConfirmBegin,
       ConfirmPreflight, ConfirmAuthorize, RejectBegin, RejectUpdate, RejectRelease, CancelBegin,
       CancelReadBack, WriteEvent, GiveUp, Begin
<1> QED
  BY <1>1, <1>2, <1>3

\* Of the worker's steps only three change a status of a release or a record.
LEMMA QuietWorkerStep ==
  ASSUME NEW w \in Worker, WorkerStep(w), ~Recover(w), ~Claim(w), ~Finish(w)
  PROVE  UNCHANGED <<release, record, state>>
BY DEF WorkerStep, Progress, AnnounceRecovered, ClaimNothing, StartDeploy, StartTarget,
     TargetNotQueued, NoMoreTargets, Execute, FinishTarget, ReportTarget, SkipRest, Report,
     StopOnLostHeartbeat, Abandon, Heartbeat, LoseHeartbeat, MarkTargetRunning,
     MarkTargetFinished, MarkQueuedTargetsSkipped, HeartbeatDeploy, tables, storeVars

\* The clock and the patches change no status.
LEMMA QuietEnvironmentStep ==
  ASSUME \/ \E r \in Release : LeaseExpires(r)
         \/ Patch
  PROVE  UNCHANGED <<release, record, logs, state>>
BY DEF LeaseExpires, Patch, PatchEnvironment, PatchUser, tables, storeVars

-----------------------------------------------------------------------------
(* The status of a release is the summary of its record.                   *)

\* Every step keeps a release the summary of its record.
LEMMA CouplingStep ==
  ASSUME TypeOK, StatusCoupling, [Next]_vars
  PROVE  StatusCoupling'
<1> USE DEF TypeOK, StoreTypeOK
<1>1. ASSUME NEW w \in Worker, WorkerStep(w)
      PROVE  StatusCoupling'
  <2>1. CASE Recover(w)
    BY <2>1 DEF Recover, RecoverExpiredDeploys, Expired, StatusCoupling, Summary
  <2>2. CASE Claim(w)
    BY <2>2 DEF Claim, ClaimDeploy, StatusCoupling, Summary
  <2>3. CASE Finish(w)
    BY <2>3, OutcomeType DEF Finish, FinishDeploy, StatusCoupling, Executed
  <2> QED
    BY <1>1, <2>1, <2>2, <2>3, QuietWorkerStep DEF StatusCoupling
<1>2. ASSUME NEW c \in Client, Handle(c)
      PROVE  StatusCoupling'
  <2>1. CASE CreateInsert(c)
    BY <2>1 DEF CreateInsert, CreateReleaseRequest, StatusCoupling, Summary, RecordStatus
  <2>2. CASE ConfirmQueue(c)
    BY <2>2 DEF ConfirmQueue, ConfirmAndQueueRelease, StatusCoupling, Summary
  <2>3. CASE RejectUpdate(c)
    BY <2>3 DEF RejectUpdate, RejectRelease, StatusCoupling, Summary, RecordStatus
  <2>4. CASE CancelUpdate(c)
    BY <2>4 DEF CancelUpdate, CancelRelease, StatusCoupling, Summary, RecordStatus
  <2>5. ASSUME ~CreateInsert(c), ~ConfirmQueue(c), ~RejectUpdate(c), ~CancelUpdate(c)
        PROVE  UNCHANGED <<release, record>>
    BY <1>2, <2>5 DEF Handle, CreateBegin, ConfirmBegin, ConfirmPreflight, ConfirmAuthorize,
         RejectBegin, CancelBegin, CancelReadBack, WriteEvent, GiveUp, Begin, tables, storeVars
  <2> QED
    BY <2>1, <2>2, <2>3, <2>4, <2>5 DEF StatusCoupling
<1>3. ASSUME \/ \E r \in Release : LeaseExpires(r)
             \/ Patch
      PROVE  StatusCoupling'
  BY <1>3, QuietEnvironmentStep DEF StatusCoupling
<1>4. CASE UNCHANGED vars
  BY <1>4 DEF StatusCoupling, vars, storeVars
<1> QED
  BY <1>1, <1>2, <1>3, <1>4 DEF Next

\* StatusCoupling holds whoever cancels, confirms, claims or recovers, and
\* however their transactions interleave.
THEOREM CouplingHolds == Spec => []StatusCoupling
<1>1. Init => StatusCoupling
  BY DEF Init, StoreInit, StatusCoupling
<1> QED
  BY <1>1, TypeCorrect, CouplingStep, PTL DEF Spec

-----------------------------------------------------------------------------
(* Two running records never hold the same target.                         *)

\* A step that makes no record running and reopens no log of a running one
\* keeps the targets exclusive.
LEMMA ExclusiveKept ==
  ASSUME TargetExclusive,
         \A r \in Release : record'[r] = "running" => record[r] = "running",
         \A r \in Release, ref \in Ref :
           record'[r] = "running" /\ logs'[r][ref] \in {"queued", "running"}
             => logs[r][ref] \in {"queued", "running"}
  PROVE  TargetExclusive'
BY DEF TargetExclusive

\* No step lets two running records hold one target: a claim looks for holders,
\* and nothing else makes a record running or reopens a log.
LEMMA ExclusiveStep ==
  ASSUME TypeOK, StatusCoupling, TargetExclusive, [Next]_vars
  PROVE  TargetExclusive'
<1> USE DEF TypeOK, StoreTypeOK, WorkerTypeOK
<1>1. ASSUME NEW w \in Worker, WorkerStep(w)
      PROVE  TargetExclusive'
  <2>1. CASE Recover(w)
    <3>1. \A r \in Release : record'[r] = "running" => record[r] = "running" /\ logs'[r] = logs[r]
      BY <2>1 DEF Recover, RecoverExpiredDeploys, Expired
    <3> QED
      BY <3>1, ExclusiveKept
  <2>2. CASE Claim(w)
    <3>1. PICK r \in Release : ClaimDeploy(r)
      BY <2>2 DEF Claim
    <3>2. \A q \in Release, ref \in Ref :
            record[q] = "running" /\ logs[q][ref] \in {"queued", "running"}
              => logs[r][ref] = "none"
      BY <3>1 DEF ClaimDeploy, NextToClaim, Claimable, Snapshot, Holds
    <3>3. logs' = logs /\ record' = [record EXCEPT ![r] = "running"]
      BY <3>1 DEF ClaimDeploy
    <3> QED
      BY <3>2, <3>3 DEF TargetExclusive
  <2>3. CASE Finish(w)
    <3>1. \A r \in Release : record'[r] = "running" => record[r] = "running"
      BY <2>3, OutcomeType DEF Finish, FinishDeploy, Executed
    <3>2. logs' = logs
      BY <2>3 DEF Finish, FinishDeploy
    <3> QED
      BY <3>1, <3>2, ExclusiveKept
  <2>4. CASE StartTarget(w)
    <3>1. record' = record /\ \E ref \in Ref : MarkTargetRunning(current[w], ref)
      BY <2>4 DEF StartTarget, MarkTargetRunning
    <3>2. \A r \in Release, ref \in Ref :
            logs'[r][ref] # logs[r][ref] => logs[r][ref] = "queued"
      BY <3>1 DEF MarkTargetRunning
    <3> QED
      BY <3>1, <3>2, ExclusiveKept
  <2>5. CASE FinishTarget(w)
    <3>1. record' = record /\ \E ref \in Ref : MarkTargetFinished(current[w], ref, outcome[w])
      BY <2>5 DEF FinishTarget, MarkTargetFinished
    <3>2. outcome[w] \notin {"queued", "running"}
      OBVIOUS
    <3>3. \A r \in Release, ref \in Ref :
            logs'[r][ref] # logs[r][ref] => logs'[r][ref] = outcome[w]
      BY <3>1 DEF MarkTargetFinished
    <3> QED
      BY <3>1, <3>2, <3>3, ExclusiveKept
  <2>6. CASE SkipRest(w)
    BY <2>6, ExclusiveKept DEF SkipRest, MarkQueuedTargetsSkipped
  <2>7. ASSUME ~Recover(w), ~Claim(w), ~Finish(w), ~StartTarget(w), ~FinishTarget(w), ~SkipRest(w)
        PROVE  UNCHANGED <<record, logs>>
    BY <1>1, <2>7 DEF WorkerStep, Progress, AnnounceRecovered, ClaimNothing, StartDeploy,
         TargetNotQueued, NoMoreTargets, Execute, ReportTarget, Report, StopOnLostHeartbeat,
         Abandon, Heartbeat, LoseHeartbeat, HeartbeatDeploy, tables, storeVars
  <2> QED
    BY <2>1, <2>2, <2>3, <2>4, <2>5, <2>6, <2>7 DEF TargetExclusive
<1>2. ASSUME NEW c \in Client, Handle(c)
      PROVE  TargetExclusive'
  <2>1. \A r \in Release : record'[r] = "running" => record[r] = "running" /\ logs'[r] = logs[r]
    BY <1>2, ApiStep
  <2> QED
    BY <2>1, ExclusiveKept
<1>3. ASSUME \/ \E r \in Release : LeaseExpires(r)
             \/ Patch
      PROVE  TargetExclusive'
  BY <1>3, QuietEnvironmentStep DEF TargetExclusive
<1>4. CASE UNCHANGED vars
  BY <1>4 DEF TargetExclusive, vars, storeVars
<1> QED
  BY <1>1, <1>2, <1>3, <1>4 DEF Next

\* Whatever a group contains when each release is confirmed, and however
\* often deploys are abandoned and recovered, a target is never held by two
\* running records.
THEOREM TargetsAreExclusive == Spec => []TargetExclusive
<1>1. Init => TargetExclusive
  BY DEF Init, StoreInit, TargetExclusive
<1> QED
  BY <1>1, TypeCorrect, CouplingHolds, ExclusiveStep, PTL DEF Spec

-----------------------------------------------------------------------------
(* The loops and their deploys.                                            *)

\* A loop that returns leaves the invariant of the others alone.
LEMMA ReturnKeepsDeploys ==
  ASSUME WorkerTypeOK, DeployInv, NEW w \in Worker, Return(w), UNCHANGED <<record, logs>>
  PROVE  DeployInv'
<1>1. \A v \in Worker : pc'[v] \in Executing =>
        /\ pc[v] = pc'[v]
        /\ current'[v] = current[v]
        /\ todo'[v] = todo[v]
        /\ outcome'[v] = outcome[v]
  BY DEF WorkerTypeOK, Return, Goto, Executing
<1> QED
  BY <1>1 DEF DeployInv, ExecutesClaimed, ClaimedOnce, QueuedIsUntouched, TodoCoversLogs,
       AtTarget, ExecutedIsSettled, Snapshot

\* A step inside a loop that touches no record and no log.
LEMMA LocalStepKeepsDeploys ==
  ASSUME WorkerTypeOK, DeployInv, NEW w \in Worker, UNCHANGED <<record, logs, current, todo>>,
         \/ AnnounceRecovered(w)
         \/ StartDeploy(w)
         \/ NoMoreTargets(w)
         \/ Execute(w)
         \/ ReportTarget(w)
         \/ Heartbeat(w)
         \/ LoseHeartbeat(w)
  PROVE  DeployInv'
<1>1. \A v \in Worker : pc'[v] \in Executing => pc[v] \in Executing
  BY DEF WorkerTypeOK, Executing, AnnounceRecovered, StartDeploy, NoMoreTargets, Execute,
       ReportTarget, Heartbeat, LoseHeartbeat, Goto, workerVars
<1>2. ExecutesClaimed' /\ ClaimedOnce' /\ QueuedIsUntouched' /\ ExecutedIsSettled'
  BY <1>1 DEF DeployInv, ExecutesClaimed, ClaimedOnce, QueuedIsUntouched, ExecutedIsSettled, Snapshot
<1>3. ASSUME NEW v \in Worker, pc'[v] \in Executing
      PROVE  /\ pc[v] \in {"execute", "executed"} => pc'[v] \in {"execute", "executed"}
             /\ pc'[v] = "finish" => todo[v] = {} \/ pc[v] = "finish"
             /\ pc'[v] = "executed" =>
                  \/ outcome'[v] \in {"success", "failed"}
                  \/ pc[v] = "executed" /\ outcome'[v] = outcome[v]
  <2> USE DEF WorkerTypeOK, Goto
  <2>1. CASE Execute(w)
    <3>1. PICK result \in {"success", "failed"} : outcome' = [outcome EXCEPT ![w] = result]
      BY <2>1 DEF Execute
    <3>2. pc[w] = "execute" /\ pc' = [pc EXCEPT ![w] = "executed"]
      BY <2>1 DEF Execute
    <3> QED
      BY <3>1, <3>2, <1>3
  <2>2. CASE AnnounceRecovered(w) \/ StartDeploy(w) \/ NoMoreTargets(w) \/ ReportTarget(w)
    BY <2>2, <1>3 DEF AnnounceRecovered, StartDeploy, NoMoreTargets, ReportTarget
  <2>3. CASE Heartbeat(w) \/ LoseHeartbeat(w)
    BY <2>3, <1>3 DEF Heartbeat, LoseHeartbeat, workerVars
  <2> QED
    BY <2>1, <2>2, <2>3
<1>4. TodoCoversLogs'
  BY <1>1, <1>3 DEF DeployInv, TodoCoversLogs, AtTarget
<1> QED
  BY <1>2, <1>4 DEF DeployInv

\* Recovery settles every deploy it fails.
LEMMA RecoverKeepsDeploys ==
  ASSUME TypeOK, DeployInv, NEW w \in Worker, Recover(w)
  PROVE  DeployInv'
<1> USE DEF TypeOK, StoreTypeOK, WorkerTypeOK
<1>1. \A v \in Worker : pc'[v] \in Executing => pc[v] = pc'[v]
  BY DEF Recover, Goto, Executing
<1>2. UNCHANGED <<current, todo, outcome>>
  BY DEF Recover
<1>3. ASSUME NEW r \in Release
      PROVE  /\ r \notin Expired => record'[r] = record[r] /\ logs'[r] = logs[r]
             /\ r \in Expired => record[r] = "running" /\ record'[r] = "failed"
  BY DEF Recover, RecoverExpiredDeploys, Expired
<1>4. ASSUME NEW r \in Release, NEW ref \in Ref
      PROVE  /\ logs'[r][ref] = "none" <=> logs[r][ref] = "none"
             /\ logs'[r][ref] \in {"queued", "running"} => logs'[r][ref] = logs[r][ref]
             /\ r \in Expired => logs'[r][ref] \notin {"queued", "running"}
  BY DEF Recover, RecoverExpiredDeploys, Abandoned
<1>5. ExecutesClaimed' /\ ClaimedOnce'
  BY <1>1, <1>2, <1>3 DEF DeployInv, ExecutesClaimed, ClaimedOnce
<1>6. QueuedIsUntouched'
  <2>1. ASSUME NEW r \in Release, record'[r] # "none"
        PROVE  \E ref \in Ref : logs'[r][ref] # "none"
    <3>1. PICK ref \in Ref : logs[r][ref] # "none"
      BY <1>3, <2>1 DEF DeployInv, QueuedIsUntouched
    <3> QED
      BY <1>4, <3>1
  <2>2. ASSUME NEW r \in Release, record'[r] = "queued"
        PROVE  \A ref \in Ref : logs'[r][ref] \in {"none", "queued"}
    BY <1>3, <2>2 DEF DeployInv, QueuedIsUntouched
  <2> QED
    BY <2>1, <2>2 DEF QueuedIsUntouched
<1>7. TodoCoversLogs'
  BY <1>1, <1>2, <1>4 DEF DeployInv, ExecutesClaimed, TodoCoversLogs, AtTarget
<1>8. ASSUME NEW r \in Release, record'[r] \in Executed
      PROVE  Snapshot(r)' # {} /\ \A ref \in Ref : logs'[r][ref] \notin {"queued", "running"}
  <2>1. \E ref \in Ref : logs[r][ref] # "none"
    BY <1>3, <1>8 DEF DeployInv, QueuedIsUntouched, Executed
  <2>2. Snapshot(r)' # {}
    BY <1>4, <2>1 DEF Snapshot
  <2>3. \A ref \in Ref : logs'[r][ref] \notin {"queued", "running"}
    BY <1>3, <1>4, <1>8 DEF DeployInv, ExecutedIsSettled
  <2> QED
    BY <2>2, <2>3
<1>9. ExecutedIsSettled'
  BY <1>8 DEF ExecutedIsSettled
<1> QED
  BY <1>5, <1>6, <1>7, <1>9 DEF DeployInv

\* A claim takes a deploy no loop has, with all its targets to do.
LEMMA ClaimKeepsDeploys ==
  ASSUME TypeOK, DeployInv, NEW w \in Worker, Claim(w)
  PROVE  DeployInv'
<1> USE DEF TypeOK, StoreTypeOK, WorkerTypeOK
<1>1. PICK r \in Release : /\ ClaimDeploy(r)
                           /\ current' = [current EXCEPT ![w] = r]
                           /\ todo' = [todo EXCEPT ![w] = Snapshot(r)]
  BY DEF Claim
<1>2. /\ record[r] = "queued"
      /\ record' = [record EXCEPT ![r] = "running"]
      /\ logs' = logs
  BY <1>1 DEF ClaimDeploy, NextToClaim, Claimable
<1>3. pc' = [pc EXCEPT ![w] = "start"] /\ outcome' = outcome
  BY DEF Claim, Goto
<1>4. \A v \in Worker : pc[v] \in Executing => current[v] # r
  BY <1>2 DEF DeployInv, ExecutesClaimed
<1>5. ExecutesClaimed' /\ ClaimedOnce'
  BY <1>1, <1>2, <1>3, <1>4 DEF DeployInv, ExecutesClaimed, ClaimedOnce, Executing
<1>6. QueuedIsUntouched' /\ ExecutedIsSettled'
  BY <1>2 DEF DeployInv, QueuedIsUntouched, ExecutedIsSettled, Executed, Snapshot
<1>7. TodoCoversLogs'
  <2>1. ASSUME NEW v \in Worker, v # w
        PROVE  /\ pc'[v] = pc[v] /\ current'[v] = current[v]
               /\ todo'[v] = todo[v] /\ outcome'[v] = outcome[v]
    BY <1>1, <1>3, <2>1
  <2>2. /\ pc'[w] = "start" /\ current'[w] = r /\ todo'[w] = Snapshot(r)
        /\ \A ref \in Ref : logs[r][ref] \in {"none", "queued"}
    BY <1>1, <1>2, <1>3 DEF DeployInv, QueuedIsUntouched
  <2>3. ASSUME NEW v \in Worker, pc'[v] \in Executing
        PROVE  /\ \A ref \in Ref :
                    /\ logs'[current'[v]][ref] = "queued" => ref \in todo'[v]
                    /\ logs'[current'[v]][ref] = "running" =>
                         pc'[v] \in {"execute", "executed"} /\ AtTarget(v, ref)'
               /\ pc'[v] = "finish" => todo'[v] = {}
               /\ pc'[v] = "executed" => outcome'[v] \in {"success", "failed"}
    <3>1. CASE v = w
      <4>1. pc'[v] \notin {"finish", "execute", "executed"}
        BY <2>2, <3>1
      <4>2. ASSUME NEW ref \in Ref
            PROVE  logs'[current'[v]][ref] # "running"
        BY <1>2, <2>2, <3>1
      <4>3. ASSUME NEW ref \in Ref, logs'[current'[v]][ref] = "queued"
            PROVE  ref \in todo'[v]
        BY <1>2, <2>2, <3>1, <4>3 DEF Snapshot
      <4> QED
        BY <4>1, <4>2, <4>3
    <3>2. CASE v # w
      <4>1. /\ pc'[v] = pc[v] /\ current'[v] = current[v]
            /\ todo'[v] = todo[v] /\ outcome'[v] = outcome[v]
        BY <2>1, <3>2
      <4>2. /\ \A ref \in Ref :
                 /\ logs[current[v]][ref] = "queued" => ref \in todo[v]
                 /\ logs[current[v]][ref] = "running" =>
                      pc[v] \in {"execute", "executed"} /\ AtTarget(v, ref)
            /\ pc[v] = "finish" => todo[v] = {}
            /\ pc[v] = "executed" => outcome[v] \in {"success", "failed"}
        BY <2>3, <4>1 DEF DeployInv, TodoCoversLogs
      <4>3. \A ref \in Ref : AtTarget(v, ref)' = AtTarget(v, ref)
        BY <4>1 DEF AtTarget
      <4> QED
        BY <1>2, <4>1, <4>2, <4>3
    <3> QED
      BY <3>1, <3>2
  <2> QED
    BY ONLY <2>3 DEF TodoCoversLogs
<1> QED
  BY <1>5, <1>6, <1>7 DEF DeployInv

\* The conjuncts of the invariant that a step on the logs of one executed
\* deploy keeps, when it opens no log and forgets none.
LEMMA LogStepKeepsDeploys ==
  ASSUME TypeOK, DeployInv, NEW w \in Worker, pc[w] \in Executing,
         UNCHANGED <<record, current>>,
         \A v \in Worker : v # w => pc'[v] = pc[v] /\ todo'[v] = todo[v] /\ outcome'[v] = outcome[v],
         \A r \in Release : r # current[w] => logs'[r] = logs[r],
         \A ref \in Ref : logs'[current[w]][ref] = "none" <=> logs[current[w]][ref] = "none",
         record[current[w]] \in Executed =>
           \A ref \in Ref : logs'[current[w]][ref] \notin {"queued", "running"}
  PROVE  /\ ExecutesClaimed' /\ ClaimedOnce' /\ QueuedIsUntouched' /\ ExecutedIsSettled'
         /\ \A v \in Worker : v # w /\ pc'[v] \in Executing =>
              /\ \A ref \in Ref :
                   /\ logs'[current'[v]][ref] = "queued" => ref \in todo'[v]
                   /\ logs'[current'[v]][ref] = "running" =>
                        pc'[v] \in {"execute", "executed"} /\ AtTarget(v, ref)'
              /\ pc'[v] = "finish" => todo'[v] = {}
              /\ pc'[v] = "executed" => outcome'[v] \in {"success", "failed"}
<1>1. current[w] \in Release /\ record[current[w]] \in {"running", "failed"}
  BY DEF DeployInv, ExecutesClaimed
<1>2. \A v \in Worker : pc'[v] \in Executing => pc[v] \in Executing
  OBVIOUS
<1>3. ExecutesClaimed' /\ ClaimedOnce'
  BY <1>2 DEF DeployInv, ExecutesClaimed, ClaimedOnce
<1>4. QueuedIsUntouched'
  <2>1. \A r \in Release : \A ref \in Ref : logs'[r][ref] = "none" <=> logs[r][ref] = "none"
    OBVIOUS
  <2>2. \A r \in Release : record[r] = "queued" => logs'[r] = logs[r]
    BY <1>1
  <2> QED
    BY <2>1, <2>2 DEF DeployInv, QueuedIsUntouched
<1>5. ExecutedIsSettled'
  <2>1. ASSUME NEW r \in Release, record[r] \in Executed
        PROVE  Snapshot(r)' # {} /\ \A ref \in Ref : logs'[r][ref] \notin {"queued", "running"}
    BY <2>1 DEF DeployInv, ExecutedIsSettled, Snapshot
  <2> QED
    BY <2>1 DEF ExecutedIsSettled
<1>6. ASSUME NEW v \in Worker, v # w, pc'[v] \in Executing
      PROVE  /\ \A ref \in Ref :
                  /\ logs'[current'[v]][ref] = "queued" => ref \in todo'[v]
                  /\ logs'[current'[v]][ref] = "running" =>
                       pc'[v] \in {"execute", "executed"} /\ AtTarget(v, ref)'
             /\ pc'[v] = "finish" => todo'[v] = {}
             /\ pc'[v] = "executed" => outcome'[v] \in {"success", "failed"}
  <2>1. logs'[current'[v]] = logs[current[v]]
    BY <1>6 DEF DeployInv, ClaimedOnce, ExecutesClaimed
  <2> QED
    BY <1>6, <2>1 DEF DeployInv, TodoCoversLogs, AtTarget
<1> QED
  BY <1>3, <1>4, <1>5, <1>6

\* The three steps of a loop that write target logs.
LEMMA TargetStepKeepsDeploys ==
  ASSUME TypeOK, DeployInv, NEW w \in Worker,
         StartTarget(w) \/ FinishTarget(w) \/ SkipRest(w)
  PROVE  DeployInv'
<1> USE DEF TypeOK, StoreTypeOK, WorkerTypeOK
<1> DEFINE r == current[w]
<1>1. pc[w] \in Executing
  BY DEF StartTarget, FinishTarget, SkipRest, Executing
<1>2. r \in Release
  BY <1>1 DEF DeployInv, ExecutesClaimed
<1>3. /\ UNCHANGED <<record, current>>
      /\ \A v \in Worker : v # w => pc'[v] = pc[v] /\ todo'[v] = todo[v] /\ outcome'[v] = outcome[v]
  BY DEF StartTarget, FinishTarget, SkipRest, MarkTargetRunning, MarkTargetFinished,
         MarkQueuedTargetsSkipped, Goto
<1>4. CASE StartTarget(w)
  <2>1. PICK ref \in Ref : AtTarget(w, ref) /\ logs[r][ref] = "queued"
                           /\ logs' = [logs EXCEPT ![r][ref] = "running"]
    BY <1>4 DEF StartTarget, MarkTargetRunning
  <2>2. pc[w] = "next" /\ pc'[w] = "execute" /\ todo' = todo
    BY <1>4 DEF StartTarget, Goto
  <2>3. \A other \in Ref : logs'[r][other] = IF other = ref THEN "running" ELSE logs[r][other]
    BY <1>2, <2>1
  <2>4. \A q \in Release : q # r => logs'[q] = logs[q]
    BY <2>1
  <2>5. record[r] \notin Executed
    BY <1>2, <2>1 DEF DeployInv, ExecutedIsSettled
  <2>6. \A other \in Ref : logs'[r][other] = "none" <=> logs[r][other] = "none"
    BY <2>1, <2>3
  <2>7. \A other \in Ref :
          /\ logs'[r][other] = "queued" => other \in todo'[w]
          /\ logs'[r][other] = "running" => AtTarget(w, other)'
    BY <1>1, <2>1, <2>2, <2>3 DEF DeployInv, TodoCoversLogs, AtTarget
  <2> HIDE DEF TypeOK, StoreTypeOK, WorkerTypeOK
  <2> QED
    BY <1>1, <1>3, <2>2, <2>4, <2>5, <2>6, <2>7, LogStepKeepsDeploys DEF DeployInv, TodoCoversLogs
<1>5. CASE FinishTarget(w)
  <2> DEFINE result == outcome[w]
  <2>1. PICK ref \in Ref : /\ AtTarget(w, ref)
                           /\ logs' = [logs EXCEPT ![r][ref] = IF @ = "none" THEN @ ELSE result]
                           /\ todo' = [todo EXCEPT ![w] = @ \ {ref}]
    BY <1>5 DEF FinishTarget, MarkTargetFinished
  <2>2. pc[w] = "executed" /\ pc'[w] = "logged"
    BY <1>5 DEF FinishTarget, Goto
  <2>3. result \in {"success", "failed"}
    BY <1>1, <2>2 DEF DeployInv, TodoCoversLogs
  <2>4. \A other \in Ref : logs'[r][other] =
          IF other = ref /\ logs[r][other] # "none" THEN result ELSE logs[r][other]
    BY <1>2, <2>1
  <2>5. \A q \in Release : q # r => logs'[q] = logs[q]
    BY <2>1
  <2>6. \A other \in Ref : logs'[r][other] = "none" <=> logs[r][other] = "none"
    BY <2>3, <2>4
  <2>7. record[r] \in Executed =>
          \A other \in Ref : logs'[r][other] \notin {"queued", "running"}
    BY <1>2, <2>3, <2>4 DEF DeployInv, ExecutedIsSettled
  <2>8. \A other \in Ref : logs[r][other] = "running" => other = ref
    <3>1. ASSUME NEW other \in Ref, AtTarget(w, other)
          PROVE  other = ref
      <4>1. other \in Nat /\ ref \in Nat /\ other <= ref /\ ref <= other
        BY <2>1, <3>1, StoreAssumption DEF AtTarget
      <4> QED
        BY <4>1
    <3> QED
      BY <1>1, <3>1 DEF DeployInv, TodoCoversLogs
  <2>9. \A other \in Ref :
          /\ logs'[r][other] = "queued" => other \in todo'[w]
          /\ logs'[r][other] # "running"
    <3>1. todo'[w] = todo[w] \ {ref}
      BY <2>1
    <3>2. \A other \in Ref : logs[r][other] = "queued" => other \in todo[w]
      BY <1>1 DEF DeployInv, TodoCoversLogs
    <3> QED
      BY <2>3, <2>4, <2>8, <3>1, <3>2
  <2> HIDE DEF TypeOK, StoreTypeOK, WorkerTypeOK
  <2> QED
    BY <1>1, <1>3, <2>2, <2>5, <2>6, <2>7, <2>9, LogStepKeepsDeploys DEF DeployInv, TodoCoversLogs
<1>6. CASE SkipRest(w)
  <2>1. /\ pc'[w] = "finish"
        /\ todo'[w] = {}
    BY <1>6 DEF SkipRest, Goto
  <2>2. /\ \A q \in Release : q # r => logs'[q] = logs[q]
        /\ \A ref \in Ref : logs'[r][ref] =
             IF logs[r][ref] \in {"queued", "running"} THEN "skipped" ELSE logs[r][ref]
    BY <1>2, <1>6 DEF SkipRest, MarkQueuedTargetsSkipped, Skippable
  <2>3. \A ref \in Ref : /\ logs'[r][ref] = "none" <=> logs[r][ref] = "none"
                         /\ logs'[r][ref] \notin {"queued", "running"}
    BY <2>2
  <2> HIDE DEF TypeOK, StoreTypeOK, WorkerTypeOK
  <2> QED
    BY <1>1, <1>3, <2>1, <2>2, <2>3, LogStepKeepsDeploys DEF DeployInv, TodoCoversLogs
<1> QED
  BY <1>4, <1>5, <1>6

\* A deploy is finished when all its targets are, and the loop lets it go.
LEMMA FinishKeepsDeploys ==
  ASSUME TypeOK, DeployInv, NEW w \in Worker, Finish(w)
  PROVE  DeployInv'
<1> USE DEF TypeOK, StoreTypeOK, WorkerTypeOK
<1> DEFINE r == current[w]
<1>1. pc[w] = "finish" /\ pc' = [pc EXCEPT ![w] = "report"]
  BY DEF Finish, Goto
<1>2. r \in Release /\ record[r] \in {"running", "failed"}
  BY <1>1 DEF DeployInv, ExecutesClaimed, Executing
<1>3. /\ UNCHANGED <<logs, current, todo, outcome>>
      /\ record' = [record EXCEPT ![r] = Outcome(r)]
  BY DEF Finish, FinishDeploy
<1>4. Outcome(r) \in Executed
  BY <1>2, OutcomeType
<1>5. \A v \in Worker : pc'[v] \in Executing => v # w /\ pc[v] = pc'[v]
  BY <1>1 DEF Executing
<1>6. ExecutesClaimed' /\ ClaimedOnce'
  <2>1. \A v \in Worker : pc'[v] \in Executing => current[v] # r
    BY <1>1, <1>5 DEF DeployInv, ClaimedOnce, Executing
  <2> QED
    BY <1>3, <1>5, <2>1 DEF DeployInv, ExecutesClaimed, ClaimedOnce
<1>7. QueuedIsUntouched'
  BY <1>2, <1>3, <1>4 DEF DeployInv, QueuedIsUntouched, Executed
<1>8. TodoCoversLogs'
  BY <1>3, <1>5 DEF DeployInv, TodoCoversLogs, AtTarget
<1>9. ExecutedIsSettled'
  <2>1. \A ref \in Ref : logs[r][ref] \notin {"queued", "running"}
    BY <1>1 DEF DeployInv, TodoCoversLogs, Executing
  <2>2. Snapshot(r) # {}
    BY <1>2, SMTT(40) DEF DeployInv, QueuedIsUntouched, Snapshot
  <2> QED
    BY <1>3, <2>1, <2>2 DEF DeployInv, ExecutedIsSettled, Snapshot
<1> QED
  BY <1>6, <1>7, <1>8, <1>9 DEF DeployInv

\* The API never touches a deploy that a loop executes.
LEMMA ApiKeepsDeploys ==
  ASSUME TypeOK, StatusCoupling, DeployInv, NEW c \in Client, Handle(c), UNCHANGED workerVars
  PROVE  DeployInv'
<1>1. UNCHANGED <<pc, current, todo, outcome>>
  BY DEF workerVars
<1>2. \A r \in Release : record[r] \in {"running"} \cup Executed =>
        record'[r] = record[r] /\ logs'[r] = logs[r]
  BY ApiStep DEF Executed
<1>3. \A r \in Release : record'[r] \in Executed => record[r] \in Executed
  BY ApiStep DEF Executed
<1>4. ExecutesClaimed' /\ ClaimedOnce' /\ TodoCoversLogs'
  BY <1>1, <1>2 DEF DeployInv, ExecutesClaimed, ClaimedOnce, TodoCoversLogs, AtTarget, Executed
<1>5. QueuedIsUntouched'
  BY ApiStep DEF DeployInv, QueuedIsUntouched
<1>6. ExecutedIsSettled'
  BY <1>2, <1>3 DEF DeployInv, ExecutedIsSettled, Snapshot
<1> QED
  BY <1>4, <1>5, <1>6 DEF DeployInv

\* A step that touches neither the deploys nor the loops.
LEMMA QuietKeepsDeploys ==
  ASSUME DeployInv, UNCHANGED <<record, logs, workerVars>>
  PROVE  DeployInv'
BY DEF DeployInv, ExecutesClaimed, ClaimedOnce, QueuedIsUntouched, TodoCoversLogs, AtTarget,
     ExecutedIsSettled, Snapshot, workerVars

\* Every step keeps the loops' view of their deploys and the tables together.
LEMMA DeployStep ==
  ASSUME TypeOK, StatusCoupling, DeployInv, [Next]_vars
  PROVE  DeployInv'
<1>1. ASSUME NEW w \in Worker, WorkerStep(w)
      PROVE  DeployInv'
  <2>1. CASE Recover(w)
    BY <2>1, RecoverKeepsDeploys
  <2>2. CASE Claim(w)
    BY <2>2, ClaimKeepsDeploys
  <2>3. CASE StartTarget(w) \/ FinishTarget(w) \/ SkipRest(w)
    BY <2>3, TargetStepKeepsDeploys
  <2>4. CASE Finish(w)
    BY <2>4, FinishKeepsDeploys
  <2>5. CASE ClaimNothing(w) \/ TargetNotQueued(w) \/ Report(w) \/ StopOnLostHeartbeat(w) \/ Abandon(w)
    <3>1. Return(w) /\ UNCHANGED <<record, logs>>
      BY <2>5 DEF ClaimNothing, TargetNotQueued, Report, StopOnLostHeartbeat, Abandon,
           tables, storeVars
    <3> QED
      BY <3>1, ReturnKeepsDeploys DEF TypeOK
  <2>6. CASE \/ AnnounceRecovered(w) \/ StartDeploy(w) \/ NoMoreTargets(w) \/ Execute(w)
             \/ ReportTarget(w) \/ Heartbeat(w) \/ LoseHeartbeat(w)
    <3>1. UNCHANGED <<record, logs, current, todo>>
      BY <2>6 DEF AnnounceRecovered, StartDeploy, NoMoreTargets, Execute, ReportTarget,
           Heartbeat, LoseHeartbeat, HeartbeatDeploy, tables, storeVars, workerVars
    <3> QED
      BY <2>6, <3>1, LocalStepKeepsDeploys DEF TypeOK
  <2> QED
    BY <1>1, <2>1, <2>2, <2>3, <2>4, <2>5, <2>6 DEF WorkerStep, Progress
<1>2. ASSUME NEW c \in Client, Handle(c), UNCHANGED workerVars
      PROVE  DeployInv'
  BY <1>2, ApiKeepsDeploys
<1>3. ASSUME \/ \E r \in Release : LeaseExpires(r)
             \/ Patch,
             UNCHANGED workerVars
      PROVE  DeployInv'
  BY <1>3, QuietEnvironmentStep, QuietKeepsDeploys
<1>4. CASE UNCHANGED vars
  BY <1>4, QuietKeepsDeploys DEF vars, storeVars
<1> QED
  BY <1>1, <1>2, <1>3, <1>4 DEF Next

\* What a loop has in hand is running, or failed by a recovery; it is in no other
\* loop's hands; its unfinished targets are all still to do.
THEOREM DeploysHold == Spec => []DeployInv
<1>1. Init => DeployInv
  BY DEF Init, StoreInit, WorkerInit, DeployInv, ExecutesClaimed, ClaimedOnce,
       QueuedIsUntouched, TodoCoversLogs, ExecutedIsSettled, Executing, Executed
<1> QED
  BY <1>1, TypeCorrect, CouplingHolds, DeployStep, PTL DEF Spec

\* Finished, failed fast or recovered, an executed record has a result for
\* each of its targets.
THEOREM ExecutedAreSettled == Spec => []ExecutedIsSettled
<1>1. DeployInv => ExecutedIsSettled
  BY DEF DeployInv
<1> QED
  BY <1>1, DeploysHold, PTL

-----------------------------------------------------------------------------
(* What a result means, and what deployment_states rests on.               *)

\* The aggregate is right about logs that are all settled.
LEMMA OutcomeMeaning ==
  ASSUME logs \in [Release -> [Ref -> LogStatus]], NEW r \in Release,
         \A ref \in Ref : logs[r][ref] \notin {"queued", "running"}
  PROVE  /\ Outcome(r) = "success" => \A ref \in Snapshot(r) : logs[r][ref] = "success"
         /\ Outcome(r) = "partial" => /\ \E ref \in Snapshot(r) : logs[r][ref] = "success"
                                      /\ \E ref \in Snapshot(r) : logs[r][ref] # "success"
         /\ (\E ref \in Ref : logs[r][ref] = "success") => Outcome(r) \in {"success", "partial"}
BY DEF Outcome, Snapshot, LogStatus

\* What this section proves: the two invariants about results.
ResultInv == SuccessMeansAll /\ StateBacked

\* A step that finishes no deploy and leaves the logs of the successful ones
\* alone keeps their meaning.
LEMMA ResultKept ==
  ASSUME TypeOK, ResultInv, state' = state,
         \A r \in Release :
           /\ record'[r] \in {"success", "partial"} <=> record[r] \in {"success", "partial"}
           /\ record[r] \in {"success", "partial"} =>
                record'[r] = record[r] /\ logs'[r] = logs[r]
  PROVE  ResultInv'
<1>1. SuccessMeansAll'
  BY DEF ResultInv, SuccessMeansAll, Snapshot
<1>2. StateBacked'
  BY DEF ResultInv, StateBacked, TypeOK, StoreTypeOK
<1> QED
  BY <1>1, <1>2 DEF ResultInv

\* Finishing a deploy whose logs are settled gives it the result they mean,
\* and records exactly its successful targets.
LEMMA ResultFinish ==
  ASSUME TypeOK, DeployInv, ResultInv, NEW w \in Worker, Finish(w)
  PROVE  ResultInv'
<1> USE DEF TypeOK, StoreTypeOK
<1> DEFINE r == current[w]
<1>1. r \in Release /\ record[r] \in {"running", "failed"}
  BY DEF Finish, DeployInv, ExecutesClaimed, Executing
<1>2. \A ref \in Ref : logs[r][ref] \notin {"queued", "running"}
  BY DEF Finish, DeployInv, TodoCoversLogs, Executing
<1>3. /\ logs' = logs
      /\ record' = [record EXCEPT ![r] = Outcome(r)]
      /\ state' = [state EXCEPT ![TargetOf[r]] =
                     [ref \in Ref |-> IF ref \in DeployedRefs(r) THEN r ELSE @[ref]]]
  BY DEF Finish, FinishDeploy
<1>4. SuccessMeansAll'
  BY <1>1, <1>2, <1>3, OutcomeMeaning DEF ResultInv, SuccessMeansAll, Snapshot
<1>5. ASSUME NEW t \in Target, NEW ref \in Ref, state'[t][ref] # NoRelease
      PROVE  /\ TargetOf[state'[t][ref]] = t
             /\ logs'[state'[t][ref]][ref] = "success"
             /\ record'[state'[t][ref]] \in {"success", "partial"}
  <2>1. TargetOf[r] \in Target
    BY <1>1, StoreAssumption
  <2>2. CASE t = TargetOf[r] /\ ref \in DeployedRefs(r)
    <3>1. state'[t][ref] = r
      BY <1>3, <2>1, <2>2
    <3>2. logs[r][ref] = "success"
      BY <2>2 DEF DeployedRefs
    <3>3. Outcome(r) \in {"success", "partial"}
      BY <1>1, <1>2, <3>2, OutcomeMeaning
    <3> QED
      BY <1>1, <1>3, <2>2, <3>1, <3>2, <3>3
  <2>3. CASE ~(t = TargetOf[r] /\ ref \in DeployedRefs(r))
    <3> DEFINE q == state[t][ref]
    <3>1. state'[t][ref] = q
      BY <1>3, <2>3
    <3>2. q \in Release
      BY <1>5, <3>1
    <3>3. TargetOf[q] = t /\ logs[q][ref] = "success" /\ record[q] \in {"success", "partial"}
      BY <1>5, <3>1 DEF ResultInv, StateBacked
    <3>4. q # r
      BY <1>1, <3>3
    <3> QED
      BY <1>3, <3>1, <3>2, <3>3, <3>4
  <2> QED
    BY <2>2, <2>3
<1>6. StateBacked'
  BY <1>5 DEF StateBacked
<1> QED
  BY <1>4, <1>6 DEF ResultInv

\* Every step keeps results and deployment_states true to the logs.
LEMMA ResultStep ==
  ASSUME TypeOK, StatusCoupling, DeployInv, ResultInv, [Next]_vars
  PROVE  ResultInv'
<1> USE DEF TypeOK, StoreTypeOK
<1>1. ASSUME NEW w \in Worker, WorkerStep(w)
      PROVE  ResultInv'
  <2>1. CASE Recover(w)
    <3>1. state' = state
      BY <2>1 DEF Recover, RecoverExpiredDeploys
    <3>2. \A r \in Release :
            \/ record'[r] = record[r] /\ logs'[r] = logs[r]
            \/ record[r] = "running" /\ record'[r] = "failed"
      BY <2>1 DEF Recover, RecoverExpiredDeploys, Expired
    <3> QED
      BY <3>1, <3>2, ResultKept
  <2>2. CASE Claim(w)
    <3>1. UNCHANGED <<logs, state>>
      BY <2>2 DEF Claim, ClaimDeploy
    <3>2. \A r \in Release :
            \/ record'[r] = record[r]
            \/ record[r] = "queued" /\ record'[r] = "running"
      BY <2>2 DEF Claim, ClaimDeploy, NextToClaim, Claimable
    <3> QED
      BY <3>1, <3>2, ResultKept
  <2>3. CASE Finish(w)
    BY <2>3, ResultFinish
  <2>4. CASE StartTarget(w) \/ FinishTarget(w) \/ SkipRest(w)
    <3>1. pc[w] \in Executing
      BY <2>4 DEF StartTarget, FinishTarget, SkipRest, Executing
    <3>2. record[current[w]] \in {"running", "failed"}
      BY <3>1 DEF DeployInv, ExecutesClaimed
    <3>3. UNCHANGED <<record, state>>
      BY <2>4 DEF StartTarget, FinishTarget, SkipRest, MarkTargetRunning, MarkTargetFinished,
           MarkQueuedTargetsSkipped
    <3>4. \A r \in Release : r # current[w] => logs'[r] = logs[r]
      BY <2>4 DEF StartTarget, FinishTarget, SkipRest, MarkTargetRunning, MarkTargetFinished,
           MarkQueuedTargetsSkipped
    <3> QED
      BY <3>2, <3>3, <3>4, ResultKept
  <2>5. ASSUME ~Recover(w), ~Claim(w), ~Finish(w), ~StartTarget(w), ~FinishTarget(w), ~SkipRest(w)
        PROVE  UNCHANGED <<record, logs, state>>
    BY <1>1, <2>5 DEF WorkerStep, Progress, AnnounceRecovered, ClaimNothing, StartDeploy,
         TargetNotQueued, NoMoreTargets, Execute, ReportTarget, Report, StopOnLostHeartbeat,
         Abandon, Heartbeat, LoseHeartbeat, HeartbeatDeploy, tables, storeVars
  <2> QED
    BY <2>1, <2>2, <2>3, <2>4, <2>5, ResultKept
<1>2. ASSUME NEW c \in Client, Handle(c)
      PROVE  ResultInv'
  <2>1. state' = state
    BY <1>2, ApiStep DEF Handle, CreateBegin, CreateInsert, CreateReleaseRequest, ConfirmBegin,
       ConfirmPreflight, ConfirmAuthorize, ConfirmQueue, ConfirmAndQueueRelease, RejectBegin,
       RejectUpdate, RejectRelease, CancelBegin, CancelUpdate, CancelRelease, CancelReadBack,
       WriteEvent, GiveUp, Begin, tables, storeVars
  <2> QED
    BY <1>2, <2>1, ApiStep, ResultKept, SMTT(40)
<1>3. ASSUME \/ \E r \in Release : LeaseExpires(r)
             \/ Patch
      PROVE  ResultInv'
  BY <1>3, QuietEnvironmentStep, ResultKept
<1>4. CASE UNCHANGED vars
  BY <1>4, ResultKept DEF vars, storeVars
<1> QED
  BY <1>1, <1>2, <1>3, <1>4 DEF Next

\* Results and deployment_states are true to the logs.
THEOREM ResultsHold == Spec => []ResultInv
<1>1. Init => ResultInv
  BY DEF Init, StoreInit, ResultInv, SuccessMeansAll, StateBacked
<1> QED
  BY <1>1, TypeCorrect, CouplingHolds, DeploysHold, ResultStep, PTL DEF Spec

\* success and partial always say what the target logs say.
THEOREM SuccessIsTrue == Spec => []SuccessMeansAll
<1>1. ResultInv => SuccessMeansAll
  BY DEF ResultInv
<1> QED
  BY <1>1, ResultsHold, PTL

\* Every row of deployment_states rests on a finished record that succeeded on
\* this very target.
THEOREM StateIsBacked == Spec => []StateBacked
<1>1. ResultInv => StateBacked
  BY DEF ResultInv
<1> QED
  BY <1>1, ResultsHold, PTL

\* The inductive invariant of the pipeline holds.
THEOREM PipelineHolds == Spec => []PipelineInv
<1>1. TypeOK /\ StatusCoupling /\ TargetExclusive /\ DeployInv /\ ResultInv => PipelineInv
  BY DEF PipelineInv, ResultInv
<1> QED
  BY <1>1, TypeCorrect, CouplingHolds, TargetsAreExclusive, DeploysHold, ResultsHold, PTL

-----------------------------------------------------------------------------
(* A release that was withdrawn is never touched again.                    *)

\* A withdrawn release has no record that could be claimed, recovered or
\* finished, and no transaction of the API finds it open.
LEMMA WithdrawnStep ==
  ASSUME PipelineInv, [Next]_vars, NEW r \in Release, release[r] \in {"rejected", "cancelled"}
  PROVE  release'[r] = release[r] /\ record'[r] = record[r]
<1> USE DEF PipelineInv, TypeOK, StoreTypeOK
<1>1. record[r] \in {"none", "cancelled"}
  BY DEF StatusCoupling, Summary, RecordStatus
<1>2. ASSUME NEW w \in Worker, WorkerStep(w)
      PROVE  release'[r] = release[r] /\ record'[r] = record[r]
  <2>1. CASE Recover(w)
    BY <1>1, <2>1 DEF Recover, RecoverExpiredDeploys, Expired
  <2>2. CASE Claim(w)
    BY <1>1, <2>2 DEF Claim, ClaimDeploy, NextToClaim, Claimable
  <2>3. CASE Finish(w)
    <3>1. current[w] # r
      BY <1>1, <2>3 DEF Finish, Executing, DeployInv, ExecutesClaimed
    <3> QED
      BY <2>3, <3>1 DEF Finish, FinishDeploy
  <2> QED
    BY <1>2, <2>1, <2>2, <2>3, QuietWorkerStep
<1>3. ASSUME NEW c \in Client, Handle(c)
      PROVE  release'[r] = release[r] /\ record'[r] = record[r]
  <2>1. CASE CreateInsert(c)
    BY <2>1 DEF CreateInsert, CreateReleaseRequest
  <2>2. CASE ConfirmQueue(c)
    BY <2>2 DEF ConfirmQueue, ConfirmAndQueueRelease, QueueGuard
  <2>3. CASE RejectUpdate(c)
    BY <2>3 DEF RejectUpdate, RejectRelease
  <2>4. CASE CancelUpdate(c)
    BY <1>1, <2>4 DEF CancelUpdate, CancelRelease
  <2>5. ASSUME ~CreateInsert(c), ~ConfirmQueue(c), ~RejectUpdate(c), ~CancelUpdate(c)
        PROVE  UNCHANGED <<release, record>>
    BY <1>3, <2>5 DEF Handle, CreateBegin, ConfirmBegin, ConfirmPreflight, ConfirmAuthorize,
         RejectBegin, CancelBegin, CancelReadBack, WriteEvent, GiveUp, Begin, tables, storeVars
  <2> QED
    BY <2>1, <2>2, <2>3, <2>4, <2>5
<1>4. ASSUME \/ \E q \in Release : LeaseExpires(q)
             \/ Patch
      PROVE  release'[r] = release[r] /\ record'[r] = record[r]
  BY <1>4, QuietEnvironmentStep
<1>5. CASE UNCHANGED vars
  BY <1>5 DEF vars, storeVars
<1> QED
  BY <1>2, <1>3, <1>4, <1>5 DEF Next

\* A rejection or a cancellation is final for any number of loops and of
\* requests that read the release before it.
THEOREM WithdrawnForGood == Spec => WithdrawnStays
<1>1. PipelineInv /\ [Next]_vars =>
        [\A r \in Release : release[r] \in {"rejected", "cancelled"} =>
           release'[r] = release[r] /\ record'[r] = record[r]]_vars
  BY WithdrawnStep
<1> QED
  BY <1>1, PipelineHolds, PTL DEF Spec, WithdrawnStays

-----------------------------------------------------------------------------
(* One worker loop: nothing happens to a deploy behind its worker's back.  *)

\* The designed deployment: at most one worker loop.
OneLoop == \A v, w \in Worker : v = w

\* No step takes a deploy from the only loop.
LEMMA OwnsStep ==
  ASSUME OneLoop, PipelineInv, WorkerOwnsDeploy, [Next]_vars
  PROVE  WorkerOwnsDeploy'
<1> USE DEF PipelineInv, TypeOK, StoreTypeOK, WorkerTypeOK
<1>1. StatusCoupling' /\ TypeOK'
  BY CouplingStep, TypeStep
<1> SUFFICES ASSUME NEW w \in Worker, pc'[w] \in Executing
             PROVE  record'[current'[w]] = "running" /\ current'[w] \in Release
  BY <1>1 DEF WorkerOwnsDeploy, StatusCoupling, Summary
<1>2. pc[w] \in Executing => record[current[w]] = "running" /\ current[w] \in Release
  BY DEF WorkerOwnsDeploy, DeployInv, ExecutesClaimed
<1>3. CASE Claim(w)
  BY <1>3 DEF Claim, ClaimDeploy
<1>4. ASSUME WorkerStep(w), ~Claim(w)
      PROVE  pc[w] \in Executing /\ current'[w] = current[w] /\ record' = record
  BY <1>4 DEF WorkerStep, Progress, Recover, AnnounceRecovered, ClaimNothing, StartDeploy,
       StartTarget, TargetNotQueued, NoMoreTargets, Execute, FinishTarget, ReportTarget, SkipRest,
       Finish, Report, StopOnLostHeartbeat, Abandon, Heartbeat, LoseHeartbeat, Return, Goto,
       Executing, MarkTargetRunning, MarkTargetFinished, MarkQueuedTargetsSkipped,
       HeartbeatDeploy, tables, storeVars, workerVars
<1>5. ASSUME NEW c \in Client, Handle(c), UNCHANGED workerVars
      PROVE  pc[w] \in Executing /\ current'[w] = current[w] /\ record'[current[w]] = record[current[w]]
  BY <1>2, <1>5, ApiStep DEF workerVars
<1>6. ASSUME \/ \E r \in Release : LeaseExpires(r)
             \/ Patch,
             UNCHANGED workerVars
      PROVE  pc[w] \in Executing /\ current'[w] = current[w] /\ record' = record
  BY <1>6, QuietEnvironmentStep DEF workerVars
<1>7. CASE UNCHANGED vars
  BY <1>2, <1>7 DEF vars, storeVars, workerVars
<1> QED
  BY <1>2, <1>3, <1>4, <1>5, <1>6, <1>7 DEF Next, OneLoop

\* With one worker loop, a deploy is running in both tables as long as the
\* loop executes it.
THEOREM WorkerOwns ==
  ASSUME OneLoop
  PROVE  Spec => []WorkerOwnsDeploy
<1>1. Init => WorkerOwnsDeploy
  BY DEF Init, WorkerInit, WorkerOwnsDeploy, Executing
<1>2. PipelineInv /\ WorkerOwnsDeploy /\ [Next]_vars => WorkerOwnsDeploy'
  BY OwnsStep
<1> QED
  BY <1>1, <1>2, PipelineHolds, PTL DEF Spec

\* What a step may do to the statuses of one release and its record.
LEMMA StatusStep ==
  ASSUME PipelineInv, WorkerOwnsDeploy, [Next]_vars, NEW r \in Release
  PROVE  /\ release[r] \in Closed => release'[r] = release[r]
         /\ record[r] \in Executed \cup {"cancelled"} => record'[r] = record[r]
<1> USE DEF PipelineInv, TypeOK, StoreTypeOK
<1>1. release[r] = "pending_confirm" => record[r] = "none"
  BY DEF StatusCoupling, Summary, RecordStatus
<1>2. release[r] \in {"queued", "running"} => record[r] = release[r]
  BY DEF StatusCoupling, Summary, RecordStatus
<1>3. ASSUME NEW w \in Worker, WorkerStep(w)
      PROVE  \/ release'[r] = release[r] /\ record'[r] = record[r]
             \/ record[r] \in {"queued", "running"} /\ release[r] = record[r]
  <2>1. CASE Recover(w)
    BY <2>1 DEF Recover, RecoverExpiredDeploys, Expired, StatusCoupling, Summary
  <2>2. CASE Claim(w)
    BY <2>2 DEF Claim, ClaimDeploy, NextToClaim, Claimable
  <2>3. CASE Finish(w)
    BY <2>3 DEF Finish, FinishDeploy, WorkerOwnsDeploy, Executing
  <2> QED
    BY <1>3, <2>1, <2>2, <2>3, QuietWorkerStep
<1>4. ASSUME NEW c \in Client, Handle(c)
      PROVE  \/ release'[r] = release[r] /\ record'[r] = record[r]
             \/ release[r] \in {"none", "pending_confirm", "queued"} /\ record[r] \in {"none", "queued"}
  <2>1. record'[r] = record[r] \/ record[r] \in {"none", "queued"}
    BY <1>4, ApiStep
  <2>2. release[r] = "none" => record[r] = "none"
    BY DEF StatusCoupling, Summary, RecordStatus
  <2>3. CASE CreateInsert(c)
    BY <2>2, <2>3 DEF CreateInsert, CreateReleaseRequest
  <2>4. CASE ConfirmQueue(c)
    BY <1>1, <2>4 DEF ConfirmQueue, ConfirmAndQueueRelease, QueueGuard
  <2>5. CASE RejectUpdate(c)
    BY <1>1, <2>5 DEF RejectUpdate, RejectRelease
  <2>6. CASE CancelUpdate(c)
    BY <1>1, <1>2, <2>6 DEF CancelUpdate, CancelRelease
  <2>7. ASSUME ~CreateInsert(c), ~ConfirmQueue(c), ~RejectUpdate(c), ~CancelUpdate(c)
        PROVE  UNCHANGED <<release, record>>
    BY <1>4, <2>7 DEF Handle, CreateBegin, ConfirmBegin, ConfirmPreflight, ConfirmAuthorize,
         RejectBegin, CancelBegin, CancelReadBack, WriteEvent, GiveUp, Begin, tables, storeVars
  <2> QED
    BY <2>3, <2>4, <2>5, <2>6, <2>7
<1>5. ASSUME \/ \E q \in Release : LeaseExpires(q)
             \/ Patch
      PROVE  release'[r] = release[r] /\ record'[r] = record[r]
  BY <1>5, QuietEnvironmentStep
<1>6. CASE UNCHANGED vars
  BY <1>6 DEF vars, storeVars
<1> QED
  BY <1>3, <1>4, <1>5, <1>6 DEF Next, Closed, Executed

\* With one worker loop no terminal status of a release, and no finished or
\* cancelled record, ever changes again.
THEOREM TerminalStays ==
  ASSUME OneLoop
  PROVE  Spec => TerminalIsFinal
<1>1. PipelineInv /\ WorkerOwnsDeploy /\ [Next]_vars =>
        [\A r \in Release :
           /\ release[r] \in Closed => release'[r] = release[r]
           /\ record[r] \in Executed \cup {"cancelled"} => record'[r] = record[r]]_vars
  BY StatusStep
<1> QED
  BY <1>1, PipelineHolds, WorkerOwns, PTL DEF Spec, TerminalIsFinal

-----------------------------------------------------------------------------
(* One worker loop: the pipeline implements the release lifecycle.         *)

\* What a running release still holds, as the lifecycle sees it.
HeldBy == [r \in Release |-> {ref \in Ref : Holds(r, ref)}]

\* A step that changes no record and no log changes nothing that is held.
LEMMA HeldKept ==
  ASSUME UNCHANGED <<record, logs>>
  PROVE  HeldBy' = HeldBy
BY DEF HeldBy, Holds

\* Recovery fails every expired deploy at once.
LEMMA RecoverRefines ==
  ASSUME PipelineInv, NEW w \in Worker, Recover(w)
  PROVE  Lifecycle!Fail(Expired)
<1> USE DEF PipelineInv, TypeOK, StoreTypeOK
<1>1. \A r \in Expired : record[r] = "running" /\ release[r] = "running"
  BY DEF Expired, StatusCoupling, Summary
<1>2. release' = [r \in Release |-> IF r \in Expired THEN "failed" ELSE release[r]]
  BY <1>1 DEF Recover, RecoverExpiredDeploys
<1>3. HeldBy' = [r \in Release |-> IF r \in Expired THEN {} ELSE HeldBy[r]]
  <2>1. \A r \in Release : record'[r] = IF r \in Expired THEN "failed" ELSE record[r]
    BY DEF Recover, RecoverExpiredDeploys
  <2>2. \A r \in Release : r \notin Expired => logs'[r] = logs[r]
    BY DEF Recover, RecoverExpiredDeploys
  <2>3. ASSUME NEW r \in Release
        PROVE  {ref \in Ref : Holds(r, ref)'} = IF r \in Expired THEN {} ELSE {ref \in Ref : Holds(r, ref)}
    BY <2>1, <2>2 DEF Holds
  <2> QED
    BY <2>3 DEF HeldBy
<1> QED
  BY <1>1, <1>2, <1>3 DEF Lifecycle!Fail, HeldBy

\* A claim starts its release, with targets that no other running release
\* holds.
LEMMA ClaimRefines ==
  ASSUME PipelineInv, NEW w \in Worker, Claim(w)
  PROVE  \E r \in Release : Lifecycle!Start(r)
<1> USE DEF PipelineInv, TypeOK, StoreTypeOK
<1>1. PICK r \in Release : ClaimDeploy(r)
  BY DEF Claim
<1>2. /\ record[r] = "queued" /\ release[r] = "queued"
      /\ record' = [record EXCEPT ![r] = "running"]
      /\ release' = [release EXCEPT ![r] = "running"]
      /\ logs' = logs
  BY <1>1 DEF ClaimDeploy, NextToClaim, Claimable
<1> DEFINE refs == {ref \in Ref : logs[r][ref] \in {"queued", "running"}}
<1>3. refs # {}
  BY <1>2 DEF DeployInv, QueuedIsUntouched
<1>4. refs \in SUBSET Lifecycle!Free(r)
  BY <1>1 DEF ClaimDeploy, NextToClaim, Claimable, Snapshot, Holds, Lifecycle!Free
<1>5. HeldBy' = [HeldBy EXCEPT ![r] = refs]
  <2>1. ASSUME NEW q \in Release
        PROVE  {ref \in Ref : Holds(q, ref)'} = IF q = r THEN refs ELSE {ref \in Ref : Holds(q, ref)}
    BY <1>2 DEF Holds
  <2> QED
    BY <2>1 DEF HeldBy
<1> QED
  BY <1>2, <1>3, <1>4, <1>5 DEF Lifecycle!Start, HeldBy

\* Executing, finishing or skipping targets gives some of them back, or none.
LEMMA TargetStepRefines ==
  ASSUME PipelineInv, WorkerOwnsDeploy, NEW w \in Worker,
         StartTarget(w) \/ FinishTarget(w) \/ SkipRest(w)
  PROVE  Lifecycle!GiveBack(current[w])
<1> USE DEF PipelineInv, TypeOK, StoreTypeOK, WorkerTypeOK
<1> DEFINE r == current[w]
<1>1. pc[w] \in Executing
  BY DEF StartTarget, FinishTarget, SkipRest, Executing
<1>2. r \in Release /\ record[r] = "running" /\ release[r] = "running"
  BY <1>1 DEF DeployInv, ExecutesClaimed, WorkerOwnsDeploy
<1>3. UNCHANGED <<release, record>>
  BY DEF StartTarget, FinishTarget, SkipRest, MarkTargetRunning, MarkTargetFinished,
         MarkQueuedTargetsSkipped
<1>4. /\ \A q \in Release : q # r => logs'[q] = logs[q]
      /\ \A ref \in Ref : logs'[r][ref] \in {"queued", "running"} => logs[r][ref] \in {"queued", "running"}
  <2>1. CASE StartTarget(w)
    BY <1>2, <2>1 DEF StartTarget, MarkTargetRunning
  <2>2. CASE FinishTarget(w)
    <3>1. PICK ref \in Ref : MarkTargetFinished(r, ref, outcome[w])
      BY <2>2 DEF FinishTarget
    <3>2. outcome[w] \notin {"queued", "running"}
      OBVIOUS
    <3> QED
      BY <1>2, <3>1, <3>2 DEF MarkTargetFinished
  <2>3. CASE SkipRest(w)
    BY <1>2, <2>3 DEF SkipRest, MarkQueuedTargetsSkipped
  <2> QED
    BY <2>1, <2>2, <2>3
<1> DEFINE refs == {ref \in Ref : logs'[r][ref] \in {"queued", "running"}}
<1>5. refs \in SUBSET HeldBy[r]
  BY <1>2, <1>4 DEF HeldBy, Holds
<1>6. HeldBy' = [HeldBy EXCEPT ![r] = refs]
  <2>1. ASSUME NEW q \in Release
        PROVE  {ref \in Ref : Holds(q, ref)'} = IF q = r THEN refs ELSE {ref \in Ref : Holds(q, ref)}
    BY <1>2, <1>3, <1>4 DEF Holds
  <2> QED
    BY <2>1 DEF HeldBy
<1> QED
  BY <1>2, <1>3, <1>5, <1>6 DEF Lifecycle!GiveBack, HeldBy

\* A deploy that finishes holds nothing any more, and succeeds or fails.
LEMMA FinishRefines ==
  ASSUME PipelineInv, WorkerOwnsDeploy, NEW w \in Worker, Finish(w)
  PROVE  Lifecycle!Succeed(current[w]) \/ Lifecycle!Fail({current[w]})
<1> USE DEF PipelineInv, TypeOK, StoreTypeOK, WorkerTypeOK
<1> DEFINE r == current[w]
<1>1. pc[w] \in Executing
  BY DEF Finish, Executing
<1>2. r \in Release /\ record[r] = "running" /\ release[r] = "running"
  BY <1>1 DEF DeployInv, ExecutesClaimed, WorkerOwnsDeploy
<1>3. \A ref \in Ref : logs[r][ref] \notin {"queued", "running"}
  BY <1>1 DEF Finish, DeployInv, TodoCoversLogs
<1>4. /\ logs' = logs
      /\ record' = [record EXCEPT ![r] = Outcome(r)]
      /\ release' = [release EXCEPT ![r] = Summary(Outcome(r))]
  BY DEF Finish, FinishDeploy
<1>5. Outcome(r) \in Executed /\ Summary(Outcome(r)) \in {"success", "failed"}
  BY <1>2, OutcomeType
<1>6. HeldBy[r] = {}
  BY <1>2, <1>3 DEF HeldBy, Holds
<1>7. HeldBy' = HeldBy
  <2>1. ASSUME NEW q \in Release
        PROVE  {ref \in Ref : Holds(q, ref)'} = {ref \in Ref : Holds(q, ref)}
    BY <1>2, <1>3, <1>4, <1>5 DEF Holds, Executed
  <2> QED
    BY <2>1 DEF HeldBy
<1>8. CASE Summary(Outcome(r)) = "success"
  BY <1>2, <1>4, <1>6, <1>7, <1>8 DEF Lifecycle!Succeed, Lifecycle!Move, HeldBy
<1>9. CASE Summary(Outcome(r)) = "failed"
  <2>1. release' = [q \in Release |-> IF q \in {r} THEN "failed" ELSE release[q]]
    BY <1>2, <1>4, <1>9
  <2>2. HeldBy' = [q \in Release |-> IF q \in {r} THEN {} ELSE HeldBy[q]]
    BY <1>6, <1>7 DEF HeldBy
  <2> QED
    BY <1>2, <2>1, <2>2 DEF Lifecycle!Fail, HeldBy
<1> QED
  BY <1>5, <1>8, <1>9

\* A handler takes one step of the lifecycle, or none.
LEMMA ApiRefines ==
  ASSUME PipelineInv, NEW c \in Client, Handle(c)
  PROVE  \/ UNCHANGED <<release, HeldBy>>
         \/ \E r \in Release : \/ Lifecycle!Submit(r)
                               \/ Lifecycle!Reject(r)
                               \/ Lifecycle!Cancel(r)
                               \/ Lifecycle!Confirm(r)
<1> USE DEF PipelineInv, TypeOK, StoreTypeOK, ServiceTypeOK, Lifecycle!Move, HeldBy
<1> DEFINE r == subject[c]
<1>1. HeldBy' = HeldBy
  <2>1. ASSUME NEW q \in Release
        PROVE  {ref \in Ref : Holds(q, ref)'} = {ref \in Ref : Holds(q, ref)}
    BY ApiStep DEF Holds
  <2> QED
    BY <2>1
<1>3. CASE CreateInsert(c)
  BY <1>1, <1>3, ZenonT(60) DEF CreateInsert, CreateReleaseRequest, Lifecycle!Submit
<1>4. CASE ConfirmQueue(c)
  <2>1. release[r] = "pending_confirm" /\ release' = [release EXCEPT ![r] = "queued"]
    BY <1>4 DEF ConfirmQueue, ConfirmAndQueueRelease, QueueGuard
  <2>2. CASE r \in Release
    BY <1>1, <2>1, <2>2 DEF Lifecycle!Confirm
  <2>3. CASE r \notin Release
    BY <1>1, <2>1, <2>3
  <2> QED
    BY <2>2, <2>3
<1>5. CASE RejectUpdate(c)
  BY <1>1, <1>5, ZenonT(60) DEF RejectUpdate, RejectRelease, Lifecycle!Reject
<1>6. CASE CancelUpdate(c)
  BY <1>1, <1>6, ZenonT(60) DEF CancelUpdate, CancelRelease, Lifecycle!Cancel
<1>7. ASSUME ~CreateInsert(c), ~ConfirmQueue(c), ~RejectUpdate(c), ~CancelUpdate(c)
      PROVE  UNCHANGED release
  BY <1>7 DEF Handle, CreateBegin, ConfirmBegin, ConfirmPreflight, ConfirmAuthorize,
       RejectBegin, CancelBegin, CancelReadBack, WriteEvent, GiveUp, Begin, tables, storeVars
<1> QED
  BY <1>1, <1>3, <1>4, <1>5, <1>6, <1>7

\* Each step of the pipeline is a step of the lifecycle or stutters.
LEMMA RefinementStep ==
  ASSUME PipelineInv, WorkerOwnsDeploy, [Next]_vars
  PROVE  [Lifecycle!Next]_<<release, HeldBy>>
<1>1. ASSUME NEW w \in Worker, WorkerStep(w)
      PROVE  [Lifecycle!Next]_<<release, HeldBy>>
  <2>1. CASE Recover(w)
    <3>1. Expired \in SUBSET Release
      BY DEF Expired
    <3> QED
      BY <2>1, <3>1, RecoverRefines DEF Lifecycle!Next
  <2>2. CASE Claim(w)
    BY <2>2, ClaimRefines DEF Lifecycle!Next
  <2>3. CASE StartTarget(w) \/ FinishTarget(w) \/ SkipRest(w)
    <3>1. current[w] \in Release
      BY <2>3 DEF StartTarget, FinishTarget, SkipRest, PipelineInv, DeployInv,
           ExecutesClaimed, Executing
    <3> QED
      BY <2>3, <3>1, TargetStepRefines DEF Lifecycle!Next
  <2>4. CASE Finish(w)
    <3>1. current[w] \in Release
      BY <2>4 DEF Finish, PipelineInv, DeployInv, ExecutesClaimed, Executing
    <3>2. {current[w]} \in SUBSET Release
      BY <3>1
    <3> QED
      BY <2>4, <3>1, <3>2, FinishRefines DEF Lifecycle!Next
  <2>5. ASSUME ~Recover(w), ~Claim(w), ~StartTarget(w), ~FinishTarget(w), ~SkipRest(w), ~Finish(w)
        PROVE  UNCHANGED <<release, record, logs>>
    BY <1>1, <2>5 DEF WorkerStep, Progress, AnnounceRecovered, ClaimNothing, StartDeploy,
         TargetNotQueued, NoMoreTargets, Execute, ReportTarget, Report, StopOnLostHeartbeat,
         Abandon, Heartbeat, LoseHeartbeat, HeartbeatDeploy, tables, storeVars
  <2> QED
    BY <2>1, <2>2, <2>3, <2>4, <2>5, HeldKept
<1>2. ASSUME NEW c \in Client, Handle(c)
      PROVE  [Lifecycle!Next]_<<release, HeldBy>>
  BY <1>2, ApiRefines DEF Lifecycle!Next
<1>3. ASSUME \/ \E r \in Release : LeaseExpires(r)
             \/ Patch
      PROVE  [Lifecycle!Next]_<<release, HeldBy>>
  BY <1>3, QuietEnvironmentStep, HeldKept
<1>4. CASE UNCHANGED vars
  BY <1>4, HeldKept DEF vars, storeVars
<1> QED
  BY <1>1, <1>2, <1>3, <1>4 DEF Next

\* With one worker loop, every behaviour of the pipeline, with its stale
\* reads, crashes and recoveries, is one of the release lifecycle.
THEOREM PipelineImplementsLifecycle ==
  ASSUME OneLoop
  PROVE  Spec => ImplementsLifecycle
<1>1. Init => Lifecycle!Init
  BY DEF Init, StoreInit, Lifecycle!Init, Holds
<1>2. PipelineInv /\ WorkerOwnsDeploy /\ [Next]_vars => [Lifecycle!Next]_<<release, HeldBy>>
  BY RefinementStep
<1> QED
  BY <1>1, <1>2, PipelineHolds, WorkerOwns, PTL
     DEF Spec, ImplementsLifecycle, Lifecycle!Spec, HeldBy
=============================================================================
