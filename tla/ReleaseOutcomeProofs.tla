------------------------ MODULE ReleaseOutcomeProofs ------------------------
(***************************************************************************)
(* Proofs about what a release comes to: who confirmed it, what the audit  *)
(* trail says of it and, with one worker loop, which results the tables    *)
(* end with.                                                               *)
(***************************************************************************)
EXTENDS ReleaseSystemProofs, FiniteSetTheorems

-----------------------------------------------------------------------------
(* What a step may do to a record and to its logs.                         *)

\* No transaction of the worker adds a log or takes one away, and a result
\* is only replaced by a result.
LEMMA WorkerLogs ==
  ASSUME PipelineInv, NEW w \in Worker, WorkerStep(w), NEW r \in Release, NEW ref \in Ref
  PROVE  /\ logs'[r][ref] = "none" <=> logs[r][ref] = "none"
         /\ logs[r][ref] \in {"success", "failed"} => logs'[r][ref] \in {"success", "failed"}
<1> USE DEF PipelineInv, TypeOK, StoreTypeOK, WorkerTypeOK
<1>1. CASE Recover(w)
  BY <1>1 DEF Recover, RecoverExpiredDeploys, Abandoned
<1>2. CASE StartTarget(w)
  BY <1>2 DEF StartTarget, MarkTargetRunning
<1>3. CASE FinishTarget(w)
  <2>1. outcome[w] \in {"success", "failed"}
    BY <1>3 DEF FinishTarget, Executing, DeployInv, TodoCoversLogs
  <2>2. PICK other \in Ref : MarkTargetFinished(current[w], other, outcome[w])
    BY <1>3 DEF FinishTarget
  <2>3. \/ logs'[r][ref] = logs[r][ref]
        \/ logs[r][ref] # "none" /\ logs'[r][ref] = outcome[w]
    BY <2>2 DEF MarkTargetFinished
  <2> QED
    BY <1>3, <2>1, <2>3
<1>4. CASE SkipRest(w)
  BY <1>4 DEF SkipRest, MarkQueuedTargetsSkipped, Skippable
<1>5. ASSUME ~Recover(w), ~StartTarget(w), ~FinishTarget(w), ~SkipRest(w)
      PROVE  logs' = logs
  BY <1>5 DEF WorkerStep, Progress, AnnounceRecovered, Claim, ClaimDeploy, ClaimNothing, StartDeploy,
       TargetNotQueued, NoMoreTargets, Execute, ReportTarget, Finish, FinishDeploy, Report,
       StopOnLostHeartbeat, Abandon, Heartbeat, LoseHeartbeat, HeartbeatDeploy, tables, storeVars
<1> QED
  BY <1>1, <1>2, <1>3, <1>4, <1>5

\* The worker gives no timestamps.
LEMMA WorkerClock ==
  ASSUME NEW w \in Worker, WorkerStep(w)
  PROVE  UNCHANGED <<createdAt, now>>
BY DEF WorkerStep, Progress, Recover, AnnounceRecovered, Claim, ClaimDeploy, ClaimNothing,
     StartDeploy, StartTarget, TargetNotQueued, NoMoreTargets, Execute, FinishTarget, ReportTarget,
     SkipRest, Finish, Report, StopOnLostHeartbeat, Abandon, Heartbeat, LoseHeartbeat,
     MarkTargetRunning, MarkTargetFinished, MarkQueuedTargetsSkipped, HeartbeatDeploy,
     RecoverExpiredDeploys, FinishDeploy, tables, storeVars

\* What becomes of the status of a record.
LEMMA RecordMoves ==
  ASSUME PipelineInv, [Next]_vars, NEW r \in Release
  PROVE  \/ record'[r] = record[r]
         \/ record[r] = "none" /\ record'[r] = "queued"
         \/ record[r] = "queued" /\ record'[r] \in {"running", "cancelled"}
         \/ record[r] \in {"running", "failed"} /\ record'[r] \in Executed
<1> USE DEF PipelineInv, TypeOK, StoreTypeOK
<1>1. ASSUME NEW w \in Worker, WorkerStep(w)
      PROVE  \/ record'[r] = record[r]
             \/ record[r] = "queued" /\ record'[r] = "running"
             \/ record[r] \in {"running", "failed"} /\ record'[r] \in Executed
  <2>1. CASE Recover(w)
    BY <2>1 DEF Recover, RecoverExpiredDeploys, Expired, Executed
  <2>2. CASE Claim(w)
    BY <2>2 DEF Claim, ClaimDeploy, NextToClaim, Claimable
  <2>3. CASE Finish(w)
    BY <2>3, OutcomeType DEF Finish, FinishDeploy, DeployInv, ExecutesClaimed, Executing
  <2> QED
    BY <1>1, <2>1, <2>2, <2>3, QuietWorkerStep
<1>2. ASSUME NEW c \in Client, Handle(c)
      PROVE  \/ record'[r] = record[r]
             \/ record[r] = "none" /\ record'[r] = "queued"
             \/ record[r] = "queued" /\ record'[r] = "cancelled"
  BY <1>2, ApiStep
<1>3. CASE \/ \E q \in Release : LeaseExpires(q)
           \/ Patch
  BY <1>3, QuietEnvironmentStep
<1>4. CASE UNCHANGED vars
  BY <1>4 DEF vars, storeVars
<1> QED
  BY <1>1, <1>2, <1>3, <1>4 DEF Next

\* What the handlers do to the record of a release: nothing, or its first
\* record with the newest timestamp.
LEMMA ApiRecord ==
  ASSUME TypeOK, StatusCoupling, NEW c \in Client, Handle(c), NEW r \in Release
  PROVE  /\ now' \in Nat /\ now <= now'
         /\ \/ createdAt'[r] = createdAt[r] /\ logs'[r] = logs[r]
            \/ record[r] = "none" /\ record'[r] = "queued" /\ createdAt'[r] = now' /\ now < now'
<1> USE DEF TypeOK, StoreTypeOK
<1>1. CASE ConfirmQueue(c)
  <2>1. PICK refs : ConfirmAndQueueRelease(subject[c], refs)
    BY <1>1 DEF ConfirmQueue
  <2>2. now' = now + 1
    BY <2>1 DEF ConfirmAndQueueRelease
  <2>3. CASE r = subject[c]
    BY <2>1, <2>2, <2>3 DEF ConfirmAndQueueRelease, QueueGuard, StatusCoupling, Summary, RecordStatus
  <2>4. CASE r # subject[c]
    BY <2>1, <2>2, <2>4 DEF ConfirmAndQueueRelease
  <2> QED
    BY <2>3, <2>4
<1>2. CASE ~ConfirmQueue(c)
  <2>1. UNCHANGED <<createdAt, now, logs>>
    BY <1>2 DEF Handle, CreateBegin, CreateInsert, CreateReleaseRequest, ConfirmBegin, ConfirmPreflight,
       ConfirmAuthorize, RejectBegin, RejectUpdate, RejectRelease, CancelBegin, CancelUpdate,
       CancelRelease, CancelReadBack, WriteEvent, GiveUp, Begin, tables, storeVars
  <2> QED
    BY <2>1
<1> QED
  BY <1>1, <1>2

\* The clock of the leases and the freeze switch give no timestamps.
LEMMA QuietClock ==
  ASSUME \/ \E r \in Release : LeaseExpires(r)
         \/ Patch
  PROVE  UNCHANGED <<createdAt, now, record, logs>>
BY DEF LeaseExpires, Patch, PatchEnvironment, PatchUser, tables, storeVars

\* Records and their timestamps stay in line.
LEMMA RecordsFitStep ==
  ASSUME PipelineInv, RecordsFit, [Next]_vars
  PROVE  RecordsFit'
<1> SUFFICES ASSUME NEW r \in Release
             PROVE  /\ createdAt'[r] <= now'
                    /\ record'[r] = "none" =>
                         createdAt'[r] = 0 /\ \A ref \in Ref : logs'[r][ref] = "none"
  BY DEF RecordsFit
<1>1. TypeOK /\ StatusCoupling /\ createdAt[r] \in Nat /\ now \in Nat
  BY DEF PipelineInv, TypeOK, StoreTypeOK
<1>2. record'[r] = "none" => record[r] = "none"
  BY RecordMoves DEF Executed
<1>3. ASSUME NEW w \in Worker, WorkerStep(w)
      PROVE  /\ createdAt' = createdAt /\ now' = now
             /\ \A ref \in Ref : logs[r][ref] = "none" => logs'[r][ref] = "none"
  BY <1>3, WorkerClock, WorkerLogs
<1>4. ASSUME NEW c \in Client, Handle(c)
      PROVE  /\ createdAt'[r] <= now'
             /\ \/ createdAt'[r] = createdAt[r] /\ logs'[r] = logs[r]
                \/ record'[r] # "none"
  BY <1>1, <1>4, ApiRecord DEF RecordsFit
<1>5. CASE \/ \E q \in Release : LeaseExpires(q)
           \/ Patch
  BY <1>5, QuietClock DEF RecordsFit
<1>6. CASE UNCHANGED vars
  BY <1>6 DEF vars, storeVars, RecordsFit
<1>7. /\ createdAt[r] <= now
      /\ record[r] = "none" => createdAt[r] = 0 /\ \A ref \in Ref : logs[r][ref] = "none"
  BY DEF RecordsFit
<1>8. CASE \E w \in Worker : WorkerStep(w)
  BY <1>2, <1>3, <1>7, <1>8
<1>9. CASE \E c \in Client : Handle(c)
  BY <1>2, <1>4, <1>7, <1>9
<1> QED
  BY <1>5, <1>6, <1>8, <1>9 DEF Next

\* Records and timestamps are in line in every reachable state.
LEMMA RecordsAreFit == Spec => []RecordsFit
<1>1. Init => RecordsFit
  <2> SUFFICES ASSUME Init, NEW r \in Release
               PROVE  /\ createdAt[r] <= now
                      /\ createdAt[r] = 0 /\ \A ref \in Ref : logs[r][ref] = "none"
    BY DEF RecordsFit
  <2>1. createdAt[r] = 0 /\ now = 0
    BY DEF Init, StoreInit
  <2>2. \A ref \in Ref : logs[r][ref] = "none"
    BY DEF Init, StoreInit
  <2> QED
    BY <2>1, <2>2
<1>2. PipelineInv /\ RecordsFit /\ [Next]_vars => RecordsFit'
  BY RecordsFitStep
<1> QED
  BY <1>1, <1>2, PipelineHolds, PTL DEF Spec

-----------------------------------------------------------------------------
(* Who confirmed a release.                                                *)

\* What a Confirm has met contains what is so now and the mode it keeps, and one
\* that is about to write is entitled to by what it met.
AuthorityInv ==
  \A c \in Client :
    /\ at[c] \in Confirming => FactsIn(production, standing, subject[c], caller[c]) \subseteq met[c]
    /\ at[c] \in {"authorize", "queue"} => mode[c] \in ConfirmMode \cap met[c]
    /\ at[c] = "queue" => Entitled(c)

\* A handler's own steps: the preflight takes a mode that was met, the check of
\* the caller a standing that was met.
LEMMA AuthorityHandled ==
  ASSUME TypeOK, AuthorityInv, NEW c \in Client, Handle(c)
  PROVE  AuthorityInv'
<1> USE DEF TypeOK, ServiceTypeOK
<1>1. \A d \in Client \ {c} : /\ at'[d] = at[d] /\ caller'[d] = caller[d]
                             /\ subject'[d] = subject[d] /\ mode'[d] = mode[d] /\ met'[d] = met[d]
  BY DEF Handle, CreateBegin, CreateInsert, ConfirmBegin, ConfirmPreflight, ConfirmAuthorize,
     ConfirmQueue, RejectBegin, RejectUpdate, CancelBegin, CancelUpdate, CancelReadBack,
     WriteEvent, GiveUp, Begin, Advance, AdvanceToEvent, Answer
<1>2. UNCHANGED accounts
  BY DEF Handle, CreateBegin, CreateInsert, ConfirmBegin, ConfirmPreflight, ConfirmAuthorize,
     ConfirmQueue, RejectBegin, RejectUpdate, CancelBegin, CancelUpdate, CancelReadBack,
     WriteEvent, GiveUp, Begin, Advance, AdvanceToEvent, Answer
<1>3. SUFFICES
        /\ at'[c] \in Confirming =>
             FactsIn(production, standing, subject'[c], caller'[c]) \subseteq met'[c]
        /\ at'[c] \in {"authorize", "queue"} => mode'[c] \in ConfirmMode \cap met'[c]
        /\ at'[c] = "queue" => Entitled(c)'
  BY <1>1, <1>2 DEF AuthorityInv, Entitled, FactsIn, ModeIn, accounts
<1>4. CASE \E r \in Release, a \in Actor : ConfirmBegin(c, r, a)
  BY <1>4 DEF ConfirmBegin, Begin, Confirming
<1>5. CASE ConfirmPreflight(c)
  BY <1>5 DEF ConfirmPreflight, Advance, AuthorityInv, FactsIn, ModeIn, ConfirmMode, Confirming
<1>6. CASE ConfirmAuthorize(c)
  <2>1. /\ at[c] = "authorize"
        /\ at'[c] = "queue"
        /\ MayConfirm(caller[c], subject[c], mode[c])
        /\ UNCHANGED <<subject, caller, mode, met>>
    BY <1>6 DEF ConfirmAuthorize, Advance
  <2>2. /\ FactsIn(production, standing, subject[c], caller[c]) \subseteq met[c]
        /\ mode[c] \in ConfirmMode \cap met[c]
    BY <2>1 DEF AuthorityInv, Confirming
  <2>3. caller[c] \in User => standing[caller[c]] \in met[c]
    BY <2>2 DEF FactsIn
  <2>4. Entitled(c)
    BY <2>1, <2>2, <2>3 DEF MayConfirm, Entitled, ConfirmMode, Standing
  <2> QED
    BY <2>1, <2>2, <2>4 DEF Entitled
<1>7. CASE /\ ~ConfirmPreflight(c)
           /\ ~ConfirmAuthorize(c)
           /\ ~ \E r \in Release, a \in Actor : ConfirmBegin(c, r, a)
  <2>1. at'[c] \notin Confirming
    BY <1>7 DEF Handle, CreateBegin, CreateInsert, ConfirmQueue, RejectBegin, RejectUpdate, CancelBegin,
       CancelUpdate, CancelReadBack, WriteEvent, GiveUp, Begin, Advance, AdvanceToEvent, Answer, Confirming
  <2> QED
    BY <2>1 DEF Confirming
<1> QED
  BY <1>4, <1>5, <1>6, <1>7

\* A patch adds what it makes so to what every Confirm on its way has met.
LEMMA AuthorityPatched ==
  ASSUME TypeOK, AuthorityInv, Patch
  PROVE  AuthorityInv'
<1>1. UNCHANGED <<at, subject, caller, mode>> /\ Witnessed(production', standing')
  BY DEF Patch, PatchEnvironment, PatchUser
<1>2. SUFFICES ASSUME NEW c \in Client
               PROVE  /\ at[c] \in Confirming =>
                           FactsIn(production', standing', subject[c], caller[c]) \subseteq met'[c]
                      /\ at[c] \in {"authorize", "queue"} => mode[c] \in ConfirmMode \cap met'[c]
                      /\ at[c] = "queue" => Entitled(c)'
  BY <1>1 DEF AuthorityInv, FactsIn, ModeIn
<1>3. at[c] \in Confirming =>
        met'[c] = met[c] \cup FactsIn(production', standing', subject[c], caller[c])
  BY <1>1 DEF Witnessed
<1>4. at[c] = "queue" => Entitled(c)'
  BY <1>1, <1>3 DEF AuthorityInv, Entitled, Confirming
<1> QED
  BY <1>3, <1>4 DEF AuthorityInv, Confirming

\* Neither the worker nor the clock has a part in it.
LEMMA AuthorityStep ==
  ASSUME TypeOK, AuthorityInv, [Next]_vars
  PROVE  AuthorityInv'
<1>1. CASE UNCHANGED serviceVars
  BY <1>1 DEF AuthorityInv, FactsIn, ModeIn, Entitled, serviceVars
<1>2. CASE UNCHANGED vars
  BY <1>1, <1>2 DEF vars
<1> QED
  BY <1>1, <1>2, AuthorityHandled, AuthorityPatched DEF Next

\* Only ConfirmQueue makes a record or names who confirmed it.
LEMMA QueuedByConfirm ==
  ASSUME PipelineInv, [Next]_vars, NEW r \in Release, record[r] = "none", record'[r] # "none"
  PROVE  \E c \in Client : ConfirmQueue(c) /\ subject[c] = r
<1> USE DEF PipelineInv, TypeOK, StoreTypeOK
<1>1. ASSUME NEW w \in Worker, WorkerStep(w)
      PROVE  FALSE
  <2>1. CASE Recover(w)
    BY <2>1 DEF Recover, RecoverExpiredDeploys, Expired
  <2>2. CASE Claim(w)
    BY <2>2 DEF Claim, ClaimDeploy, NextToClaim, Claimable
  <2>3. CASE Finish(w)
    BY <2>3 DEF Finish, FinishDeploy, DeployInv, ExecutesClaimed, Executing
  <2> QED
    BY <1>1, <2>1, <2>2, <2>3, QuietWorkerStep
<1>2. ASSUME NEW c \in Client, Handle(c)
      PROVE  ConfirmQueue(c) /\ subject[c] = r
  <2>1. CASE ConfirmQueue(c)
    <3>1. record' = [record EXCEPT ![subject[c]] = "queued"]
      BY <2>1 DEF ConfirmQueue, ConfirmAndQueueRelease
    <3> QED
      BY <2>1, <3>1
  <2>2. CASE CancelUpdate(c)
    BY <2>2 DEF CancelUpdate, CancelRelease
  <2>3. CASE ~ConfirmQueue(c) /\ ~CancelUpdate(c)
    BY <1>2, <2>3 DEF Handle, CreateBegin, CreateInsert, CreateReleaseRequest, ConfirmBegin,
       ConfirmPreflight, ConfirmAuthorize, RejectBegin, RejectUpdate, RejectRelease, CancelBegin,
       CancelReadBack, WriteEvent, GiveUp, Begin, tables, storeVars
  <2> QED
    BY <2>1, <2>2, <2>3
<1>3. ~ ((\E q \in Release : LeaseExpires(q)) \/ Patch)
  BY QuietEnvironmentStep
<1>4. ~ UNCHANGED vars
  BY DEF vars, storeVars
<1> QED
  BY <1>1, <1>2, <1>3, <1>4 DEF Next

\* Whoever brings a release into the queue was entitled to at some moment of the
\* call (ConfirmedByAuthority): Confirm takes the mode in the preflight, looks
\* at the caller later and writes later still, and environments and users are
\* patched between any two of these, for any number of requests.
THEOREM AuthorityHolds == Spec => ConfirmedByAuthority
<1>1. Init => AuthorityInv
  BY DEF Init, ServiceInit, AuthorityInv, Confirming
<1>2. PipelineInv /\ AuthorityInv /\ [Next]_vars => AuthorityInv'
  BY AuthorityStep DEF PipelineInv
<1>3. ASSUME PipelineInv, AuthorityInv, [Next]_vars, NEW r \in Release,
             record[r] = "none", record'[r] # "none"
      PROVE  \E c \in Client :
               /\ subject[c] = r
               /\ Entitled(c)
               /\ confirmedBy'[r] = IF caller[c] \in User THEN caller[c] ELSE NoActor
  <2>1. PICK c \in Client : ConfirmQueue(c) /\ subject[c] = r
    BY <1>3, QueuedByConfirm
  <2>2. Entitled(c)
    BY <1>3, <2>1 DEF ConfirmQueue, AuthorityInv
  <2>3. confirmedBy'[r] = IF caller[c] \in User THEN caller[c] ELSE NoActor
    BY <1>3, <2>1 DEF ConfirmQueue, PipelineInv, TypeOK, ServiceTypeOK
  <2> QED
    BY <2>1, <2>2, <2>3
<1>4. PipelineInv /\ AuthorityInv /\ [Next]_vars =>
        [\A r \in Release : record[r] = "none" /\ record'[r] # "none" =>
           \E c \in Client :
             /\ subject[c] = r
             /\ Entitled(c)
             /\ confirmedBy'[r] = IF caller[c] \in User THEN caller[c] ELSE NoActor]_vars
  BY <1>3
<1> QED
  BY <1>1, <1>2, <1>4, PipelineHolds, PTL DEF Spec, ConfirmedByAuthority

-----------------------------------------------------------------------------
(* What the audit trail says of a release.                                 *)

\* What is true of a release and stays so.
LEMMA Lasting ==
  ASSUME PipelineInv, RecordsFit, [Next]_vars, NEW r \in Release
  PROVE  /\ record[r] # "none" => record'[r] # "none"
         /\ record[r] \in {"running"} \cup Executed => record'[r] \in {"running"} \cup Executed
         /\ record[r] \in Executed => record'[r] \in Executed
         /\ release[r] = "cancelled" => release'[r] = "cancelled"
         /\ \A ref \in Ref :
              /\ logs[r][ref] # "none" => logs'[r][ref] # "none"
              /\ logs[r][ref] \in {"success", "failed"} => logs'[r][ref] \in {"success", "failed"}
<1>1. /\ record[r] # "none" => record'[r] # "none"
      /\ record[r] \in {"running"} \cup Executed => record'[r] \in {"running"} \cup Executed
      /\ record[r] \in Executed => record'[r] \in Executed
  BY RecordMoves DEF Executed
<1>2. release[r] = "cancelled" => release'[r] = "cancelled"
  BY WithdrawnStep
<1> DEFINE LogLasts(ref) ==
      /\ logs[r][ref] # "none" => logs'[r][ref] # "none"
      /\ logs[r][ref] \in {"success", "failed"} => logs'[r][ref] \in {"success", "failed"}
<1>3. ASSUME NEW ref \in Ref
      PROVE  LogLasts(ref)
  <2>1. ASSUME NEW w \in Worker, WorkerStep(w)
        PROVE  LogLasts(ref)
    BY <2>1, WorkerLogs
  <2>2. ASSUME NEW c \in Client, Handle(c)
        PROVE  LogLasts(ref)
    BY <2>2, ApiRecord DEF RecordsFit, PipelineInv
  <2>3. CASE \/ \E q \in Release : LeaseExpires(q)
             \/ Patch
    BY <2>3, QuietClock
  <2>4. CASE UNCHANGED vars
    BY <2>4 DEF vars, storeVars
  <2> QED
    BY <2>1, <2>2, <2>3, <2>4 DEF Next
<1> QED
  BY <1>1, <1>2, <1>3

\* Where an event comes from.
LEMMA EventSource ==
  ASSUME TypeOK, [Next]_vars, NEW r \in Release, NEW e \in events'[r], e \notin events[r]
  PROVE  \/ \E w \in Worker :
              \/ e = "deploy_finished" /\ (r \in recovered[w] \/ (pc[w] = "report" /\ current[w] = r))
              \/ e = "deploy_started" /\ pc[w] = "start" /\ current[w] = r
              \/ e = "target_finished" /\ pc[w] = "logged" /\ current[w] = r
         \/ \E c \in Client : at[c] = "event" /\ subject[c] = r /\ event[c] = e
<1> USE DEF TypeOK, StoreTypeOK
<1>1. ASSUME NEW S, NEW type, CreateReleaseEvent(S, type)
      PROVE  r \in S /\ e = type
  BY <1>1 DEF CreateReleaseEvent
<1>2. ASSUME NEW w \in Worker, WorkerStep(w)
      PROVE  \/ e = "deploy_finished" /\ (r \in recovered[w] \/ (pc[w] = "report" /\ current[w] = r))
             \/ e = "deploy_started" /\ pc[w] = "start" /\ current[w] = r
             \/ e = "target_finished" /\ pc[w] = "logged" /\ current[w] = r
  <2>1. CASE AnnounceRecovered(w)
    <3>1. CreateReleaseEvent(recovered[w], "deploy_finished")
      BY <2>1 DEF AnnounceRecovered
    <3>2. r \in recovered[w] /\ e = "deploy_finished"
      BY <1>1, <3>1
    <3> QED
      BY <3>2
  <2>2. CASE StartDeploy(w)
    BY <1>1, <2>2 DEF StartDeploy
  <2>3. CASE ReportTarget(w)
    BY <1>1, <2>3 DEF ReportTarget
  <2>4. CASE Report(w)
    BY <1>1, <2>4 DEF Report
  <2>5. ASSUME ~AnnounceRecovered(w), ~StartDeploy(w), ~ReportTarget(w), ~Report(w)
        PROVE  UNCHANGED events
    BY <1>2, <2>5 DEF WorkerStep, Progress, Recover, Claim, ClaimNothing, StartTarget,
       TargetNotQueued, NoMoreTargets, Execute, FinishTarget, SkipRest, Finish,
       StopOnLostHeartbeat, Abandon, Heartbeat, LoseHeartbeat, storeVars
  <2> QED
    BY <2>1, <2>2, <2>3, <2>4, <2>5
<1>3. ASSUME NEW c \in Client, Handle(c)
      PROVE  at[c] = "event" /\ subject[c] = r /\ event[c] = e
  <2>1. CASE WriteEvent(c)
    BY <1>1, <2>1 DEF WriteEvent
  <2>2. CASE ~WriteEvent(c)
    <3>1. UNCHANGED events
      BY <1>3, <2>2 DEF Handle, CreateBegin, CreateInsert, ConfirmBegin, ConfirmPreflight,
         ConfirmAuthorize, ConfirmQueue, RejectBegin, RejectUpdate, CancelBegin, CancelUpdate,
         CancelReadBack, GiveUp, Begin, storeVars
    <3> QED
      BY <3>1
  <2> QED
    BY <2>1, <2>2
<1>4. CASE \/ \E q \in Release : LeaseExpires(q)
           \/ Patch
  BY <1>4 DEF LeaseExpires, Patch, PatchEnvironment, PatchUser, storeVars
<1>5. CASE UNCHANGED vars
  BY <1>5 DEF vars, storeVars
<1>6. CASE \E w \in Worker : WorkerStep(w)
  BY <1>2, <1>6
<1>7. CASE \E c \in Client : Handle(c)
  BY <1>3, <1>7
<1> QED
  BY <1>4, <1>5, <1>6, <1>7 DEF Next

\* What a loop knows of the deploys it is about to write events of, and of
\* the targets it goes through.
WorkerKnows(w) ==
  /\ \A r \in recovered[w] : record[r] \in Executed
  /\ pc[w] = "report" => current[w] \in Release /\ record[current[w]] \in Executed
  /\ pc[w] = "logged" => \E ref \in Ref : logs[current[w]][ref] \in {"success", "failed"}
  /\ pc[w] \in Executing => \A ref \in todo[w] : logs[current[w]][ref] # "none"

\* What a request knows of the release whose event it is about to write.
ClientKnows(c) ==
  at[c] = "event" /\ subject[c] \in Release =>
    /\ event[c] \notin {"deploy_started", "target_finished", "deploy_finished"}
    /\ event[c] = "release_confirmed" => record[subject[c]] # "none"
    /\ event[c] = "release_cancelled" => release[subject[c]] = "cancelled"

AuditKnown ==
  /\ \A w \in Worker : WorkerKnows(w)
  /\ \A c \in Client : ClientKnows(c)

\* A loop learns what it knows from the transactions it runs.
LEMMA WorkerLearns ==
  ASSUME PipelineInv, RecordsFit, [Next]_vars, NEW w \in Worker, WorkerKnows(w), WorkerStep(w)
  PROVE  WorkerKnows(w)'
<1> USE DEF PipelineInv, TypeOK, StoreTypeOK, WorkerTypeOK
<1> DEFINE Nothing == recovered'[w] = {} /\ pc'[w] \notin {"report", "logged"} \cup Executing
<1>1. pc[w] \in Executing => current[w] \in Release
  BY DEF DeployInv, ExecutesClaimed
<1>2. CASE Recover(w)
  <2>1. recovered'[w] = Expired /\ pc'[w] \notin {"report", "logged"} \cup Executing
    BY <1>2 DEF Recover, Goto, Executing
  <2>2. \A r \in Expired : record'[r] \in Executed
    BY <1>2 DEF Recover, RecoverExpiredDeploys, Expired, Executed
  <2> QED
    BY <2>1, <2>2 DEF WorkerKnows
<1>3. ASSUME Nothing
      PROVE  WorkerKnows(w)'
  BY <1>3 DEF WorkerKnows
<1>4. CASE AnnounceRecovered(w)
  BY <1>3, <1>4 DEF AnnounceRecovered, Goto, Executing
<1>5. CASE \/ ClaimNothing(w) \/ TargetNotQueued(w) \/ Report(w) \/ StopOnLostHeartbeat(w) \/ Abandon(w)
  BY <1>3, <1>5 DEF ClaimNothing, TargetNotQueued, Report, StopOnLostHeartbeat, Abandon, Return,
     Goto, Executing
<1>6. CASE Claim(w)
  <2>1. PICK r \in Release : /\ ClaimDeploy(r)
                             /\ current' = [current EXCEPT ![w] = r]
                             /\ todo' = [todo EXCEPT ![w] = Snapshot(r)]
    BY <1>6 DEF Claim
  <2>2. current'[w] = r /\ todo'[w] = Snapshot(r) /\ pc'[w] = "start" /\ recovered' = recovered
        /\ logs' = logs
    BY <1>6, <2>1 DEF Claim, Goto, ClaimDeploy
  <2>3. \A q \in recovered[w] : record'[q] \in Executed
    BY Lasting DEF WorkerKnows
  <2> QED
    BY <2>2, <2>3 DEF WorkerKnows, Snapshot
<1>7. CASE FinishTarget(w)
  <2>1. PICK ref \in Ref : /\ AtTarget(w, ref)
                           /\ MarkTargetFinished(current[w], ref, outcome[w])
                           /\ todo' = [todo EXCEPT ![w] = @ \ {ref}]
    BY <1>7 DEF FinishTarget
  <2>2. pc[w] = "executed" /\ pc'[w] = "logged" /\ current' = current /\ recovered' = recovered
        /\ current[w] \in Release /\ todo'[w] \subseteq todo[w] /\ record' = record
    BY <1>1, <1>7, <2>1 DEF FinishTarget, Goto, Executing, MarkTargetFinished
  <2>3. outcome[w] \in {"success", "failed"} /\ logs[current[w]][ref] # "none"
    BY <2>1, <2>2 DEF DeployInv, TodoCoversLogs, Executing, WorkerKnows, AtTarget
  <2>4. logs'[current[w]][ref] = outcome[w]
    BY <2>1, <2>2, <2>3 DEF MarkTargetFinished
  <2>5. \A other \in todo'[w] : logs'[current[w]][other] # "none"
    BY <2>2, Lasting DEF WorkerKnows, Executing
  <2> QED
    BY <2>2, <2>3, <2>4, <2>5 DEF WorkerKnows
<1>8. CASE Finish(w)
  <2>1. pc[w] = "finish" /\ pc'[w] = "report" /\ current' = current /\ recovered' = recovered
        /\ current[w] \in Release
    BY <1>1, <1>8 DEF Finish, Goto, Executing
  <2>2. record'[current[w]] \in Executed
    BY <1>8, <2>1, OutcomeType DEF Finish, FinishDeploy
  <2>3. \A q \in recovered[w] : record'[q] \in Executed
    BY Lasting DEF WorkerKnows
  <2> QED
    BY <2>1, <2>2, <2>3 DEF WorkerKnows, Executing
<1>9. CASE \/ StartDeploy(w) \/ StartTarget(w) \/ NoMoreTargets(w) \/ Execute(w) \/ ReportTarget(w) \/ SkipRest(w)
  <2>1. pc[w] \in Executing /\ pc'[w] \notin {"report", "logged"} /\ current' = current
        /\ recovered' = recovered /\ todo'[w] \subseteq todo[w]
    BY <1>9 DEF StartDeploy, StartTarget, NoMoreTargets, Execute, ReportTarget, SkipRest, Goto, Executing
  <2>2. \A q \in recovered[w] : record'[q] \in Executed
    BY Lasting DEF WorkerKnows
  <2>3. \A other \in todo'[w] : logs'[current[w]][other] # "none"
    BY <1>1, <2>1, Lasting DEF WorkerKnows
  <2> QED
    BY <2>1, <2>2, <2>3 DEF WorkerKnows
<1>10. CASE Heartbeat(w) \/ LoseHeartbeat(w)
  <2>1. UNCHANGED <<pc, current, recovered, todo>>
    BY <1>10 DEF Heartbeat, LoseHeartbeat, workerVars
  <2>2. logs' = logs /\ record' = record
    BY <1>10 DEF Heartbeat, LoseHeartbeat, HeartbeatDeploy, storeVars
  <2> QED
    BY <2>1, <2>2 DEF WorkerKnows
<1> QED
  BY <1>2, <1>4, <1>5, <1>6, <1>7, <1>8, <1>9, <1>10 DEF WorkerStep, Progress

\* What a loop knows stays true while others act.
LEMMA WorkerRemembers ==
  ASSUME PipelineInv, RecordsFit, [Next]_vars, NEW w \in Worker, WorkerKnows(w),
         UNCHANGED <<pc[w], current[w], recovered[w], todo[w]>>
  PROVE  WorkerKnows(w)'
<1> USE DEF PipelineInv, TypeOK, WorkerTypeOK
<1>1. pc[w] \in Executing => current[w] \in Release
  BY DEF DeployInv, ExecutesClaimed
<1>2. \A r \in recovered'[w] : record'[r] \in Executed
  BY Lasting DEF WorkerKnows
<1>3. pc'[w] = "report" => current'[w] \in Release /\ record'[current'[w]] \in Executed
  BY Lasting DEF WorkerKnows
<1>4. pc'[w] = "logged" => \E ref \in Ref : logs'[current'[w]][ref] \in {"success", "failed"}
  BY <1>1, Lasting DEF WorkerKnows, Executing
<1>5. pc'[w] \in Executing => \A ref \in todo'[w] : logs'[current'[w]][ref] # "none"
  BY <1>1, Lasting DEF WorkerKnows
<1> QED
  BY <1>2, <1>3, <1>4, <1>5 DEF WorkerKnows

\* A request learns from its transaction, and from reading the release again.
LEMMA ClientLearns ==
  ASSUME PipelineInv, NEW c \in Client, Handle(c)
  PROVE  ClientKnows(c)'
<1> USE DEF PipelineInv, TypeOK, StoreTypeOK, ServiceTypeOK
<1>1. CASE CreateInsert(c)
  BY <1>1 DEF CreateInsert, AdvanceToEvent, ClientKnows
<1>2. CASE ConfirmQueue(c)
  BY <1>2 DEF ConfirmQueue, ConfirmAndQueueRelease, AdvanceToEvent, ClientKnows
<1>3. CASE RejectUpdate(c)
  BY <1>3 DEF RejectUpdate, AdvanceToEvent, ClientKnows
<1>4. CASE CancelReadBack(c)
  BY <1>4 DEF CancelReadBack, CancelSucceeded, AdvanceToEvent, Answer, ClientKnows, storeVars
<1>5. ASSUME ~CreateInsert(c), ~ConfirmQueue(c), ~RejectUpdate(c), ~CancelReadBack(c)
      PROVE  at'[c] # "event"
  BY <1>5 DEF Handle, CreateBegin, ConfirmBegin, ConfirmPreflight, ConfirmAuthorize, RejectBegin,
     CancelBegin, CancelUpdate, WriteEvent, GiveUp, Begin, Advance, Answer
<1> QED
  BY <1>1, <1>2, <1>3, <1>4, <1>5 DEF ClientKnows

\* A step changes the locals of one loop or of one request.
LEMMA OthersLocals ==
  ASSUME TypeOK
  PROVE  /\ \A w \in Worker : WorkerStep(w) => \A v \in Worker \ {w} :
              UNCHANGED <<pc[v], current[v], recovered[v], todo[v], outcome[v]>>
         /\ \A c \in Client : Handle(c) => \A d \in Client \ {c} :
              UNCHANGED <<at[d], subject[d], event[d]>>
<1> USE DEF TypeOK, WorkerTypeOK, ServiceTypeOK
<1>1. ASSUME NEW w \in Worker, WorkerStep(w), NEW v \in Worker \ {w}
      PROVE  UNCHANGED <<pc[v], current[v], recovered[v], todo[v], outcome[v]>>
  BY <1>1 DEF WorkerStep, Progress, Recover, AnnounceRecovered, Claim, ClaimNothing, StartDeploy,
     StartTarget, TargetNotQueued, NoMoreTargets, Execute, FinishTarget, ReportTarget, SkipRest,
     Finish, Report, StopOnLostHeartbeat, Abandon, Heartbeat, LoseHeartbeat, Return, Goto, workerVars
<1>2. ASSUME NEW c \in Client, Handle(c), NEW d \in Client \ {c}
      PROVE  UNCHANGED <<at[d], subject[d], event[d]>>
  BY <1>2 DEF Handle, CreateBegin, CreateInsert, ConfirmBegin, ConfirmPreflight, ConfirmAuthorize,
     ConfirmQueue, RejectBegin, RejectUpdate, CancelBegin, CancelUpdate, CancelReadBack,
     WriteEvent, GiveUp, Begin, Advance, AdvanceToEvent, Answer
<1> QED
  BY <1>1, <1>2

\* What is known stays known and true.
LEMMA KnownStep ==
  ASSUME PipelineInv, RecordsFit, AuditKnown, [Next]_vars
  PROVE  AuditKnown'
<1>1. ASSUME NEW c \in Client, UNCHANGED <<at[c], subject[c], event[c]>>
      PROVE  ClientKnows(c)'
  <2> SUFFICES ASSUME at'[c] = "event", subject'[c] \in Release
               PROVE  /\ event'[c] \notin {"deploy_started", "target_finished", "deploy_finished"}
                      /\ event'[c] = "release_confirmed" => record'[subject'[c]] # "none"
                      /\ event'[c] = "release_cancelled" => release'[subject'[c]] = "cancelled"
    BY DEF ClientKnows
  <2>1. at[c] = "event" /\ subject'[c] = subject[c] /\ subject[c] \in Release /\ event'[c] = event[c]
    BY <1>1
  <2>2. /\ event[c] \notin {"deploy_started", "target_finished", "deploy_finished"}
        /\ event[c] = "release_confirmed" => record[subject[c]] # "none"
        /\ event[c] = "release_cancelled" => release[subject[c]] = "cancelled"
    BY <2>1 DEF AuditKnown, ClientKnows
  <2> QED
    BY <2>1, <2>2, Lasting
<1>2. ASSUME NEW w \in Worker, UNCHANGED <<pc[w], current[w], recovered[w], todo[w]>>
      PROVE  WorkerKnows(w)'
  BY <1>2, WorkerRemembers DEF AuditKnown
<1>3. TypeOK
  BY DEF PipelineInv
<1>4. ASSUME NEW w \in Worker, WorkerStep(w), UNCHANGED serviceVars
      PROVE  AuditKnown'
  <2>1. WorkerKnows(w)'
    BY <1>4, WorkerLearns DEF AuditKnown
  <2>2. \A v \in Worker \ {w} : WorkerKnows(v)'
    BY <1>2, <1>3, <1>4, OthersLocals
  <2>3. \A c \in Client : ClientKnows(c)'
    BY <1>1, <1>4 DEF serviceVars
  <2> QED
    BY <2>1, <2>2, <2>3 DEF AuditKnown
<1>5. ASSUME NEW c \in Client, Handle(c), UNCHANGED workerVars
      PROVE  AuditKnown'
  <2>1. ClientKnows(c)'
    BY <1>5, ClientLearns
  <2>2. \A d \in Client \ {c} : ClientKnows(d)'
    BY <1>1, <1>3, <1>5, OthersLocals
  <2>3. \A w \in Worker : WorkerKnows(w)'
    BY <1>2, <1>5 DEF workerVars
  <2> QED
    BY <2>1, <2>2, <2>3 DEF AuditKnown
<1>6. CASE UNCHANGED <<workerVars, at, subject, event>>
  BY <1>1, <1>2, <1>6 DEF workerVars, AuditKnown
<1>7. CASE Patch /\ UNCHANGED workerVars
  BY <1>6, <1>7 DEF Patch, PatchEnvironment, PatchUser
<1> QED
  BY <1>4, <1>5, <1>6, <1>7 DEF Next, vars, serviceVars

\* An event is written of what was true and is lasting.
LEMMA AuditStep ==
  ASSUME PipelineInv, RecordsFit, AuditKnown, AuditTruthful, [Next]_vars
  PROVE  AuditTruthful'
<1> SUFFICES ASSUME NEW r \in Release, NEW e \in events'[r]
             PROVE  /\ e = "release_cancelled" => release'[r] = "cancelled"
                    /\ e = "release_confirmed" => record'[r] # "none"
                    /\ e = "deploy_started" => record'[r] \in {"running"} \cup Executed
                    /\ e = "target_finished" =>
                         \E ref \in Ref : logs'[r][ref] \in {"success", "failed"}
                    /\ e = "deploy_finished" => record'[r] \in Executed
  BY DEF AuditTruthful
<1> DEFINE Said ==
      /\ e = "release_cancelled" => release[r] = "cancelled"
      /\ e = "release_confirmed" => record[r] # "none"
      /\ e = "deploy_started" => record[r] \in {"running"} \cup Executed
      /\ e = "target_finished" => \E ref \in Ref : logs[r][ref] \in {"success", "failed"}
      /\ e = "deploy_finished" => record[r] \in Executed
<1>1. Said
  <2>1. CASE e \in events[r]
    BY <2>1 DEF AuditTruthful
  <2>2. ASSUME NEW c \in Client, at[c] = "event", subject[c] = r, event[c] = e
        PROVE  Said
    BY <2>2 DEF AuditKnown, ClientKnows
  <2>3. ASSUME NEW w \in Worker,
               \/ e = "deploy_finished" /\ (r \in recovered[w] \/ (pc[w] = "report" /\ current[w] = r))
               \/ e = "deploy_started" /\ pc[w] = "start" /\ current[w] = r
               \/ e = "target_finished" /\ pc[w] = "logged" /\ current[w] = r
        PROVE  Said
    BY <2>3 DEF AuditKnown, WorkerKnows, PipelineInv, DeployInv, ExecutesClaimed, Executing, Executed
  <2>4. TypeOK
    BY DEF PipelineInv
  <2> QED
    BY <2>1, <2>2, <2>3, <2>4, EventSource
<1> QED
  BY <1>1, Lasting

\* The events of a release never say more than what happened
\* (AuditTruthful), although each is written after the transaction it is
\* about, by loops and requests that may be late.
THEOREM AuditIsTruthful == Spec => []AuditTruthful
<1>1. Init => AuditKnown /\ AuditTruthful
  BY DEF Init, StoreInit, WorkerInit, ServiceInit, AuditKnown, WorkerKnows, ClientKnows, Executing,
     AuditTruthful
<1>2. PipelineInv /\ RecordsFit /\ AuditKnown /\ AuditTruthful /\ [Next]_vars =>
        AuditKnown' /\ AuditTruthful'
  BY KnownStep, AuditStep
<1> QED
  BY <1>1, <1>2, PipelineHolds, RecordsAreFit, PTL DEF Spec
-----------------------------------------------------------------------------
(* One worker loop: what becomes of the logs.                              *)

\* The target the loop executes is marked as running.
MarkedRunning ==
  \A w \in Worker : pc[w] \in {"execute", "executed"} =>
    \A ref \in Ref : AtTarget(w, ref) => logs[current[w]][ref] = "running"

\* A loop is at one target.
LEMMA OneTarget ==
  ASSUME NEW w \in Worker, NEW x \in Ref, NEW y \in Ref, AtTarget(w, x), AtTarget(w, y)
  PROVE  x = y
<1>1. x \in Nat /\ y \in Nat
  BY StoreAssumption
<1> QED
  BY <1>1 DEF AtTarget

\* Only a new record gets other logs from the handlers.
LEMMA LogsOfRecords ==
  ASSUME TypeOK, StatusCoupling, UNCHANGED workerVars, [Next]_vars,
         NEW r \in Release, record[r] # "none",
         \A w \in Worker : ~WorkerStep(w)
  PROVE  logs'[r] = logs[r]
<1>1. ASSUME NEW c \in Client, Handle(c)
      PROVE  logs'[r] = logs[r]
  BY <1>1, ApiRecord
<1>2. CASE \/ \E q \in Release : LeaseExpires(q)
           \/ Patch
  BY <1>2, QuietClock
<1>3. CASE UNCHANGED vars
  BY <1>3 DEF vars, storeVars
<1> QED
  BY <1>1, <1>2, <1>3 DEF Next

\* Nobody but the loop touches the target it executes.
LEMMA MarkedStep ==
  ASSUME OneLoop, PipelineInv, MarkedRunning, [Next]_vars
  PROVE  MarkedRunning'
<1> USE DEF PipelineInv, TypeOK, StoreTypeOK, WorkerTypeOK
<1> SUFFICES ASSUME NEW w \in Worker, pc'[w] \in {"execute", "executed"},
                    NEW ref \in Ref, AtTarget(w, ref)'
             PROVE  logs'[current'[w]][ref] = "running"
  BY DEF MarkedRunning
<1>1. CASE StartTarget(w)
  <2>1. PICK x \in Ref : AtTarget(w, x) /\ MarkTargetRunning(current[w], x)
    BY <1>1 DEF StartTarget
  <2>2. AtTarget(w, ref) /\ current[w] \in Release /\ current'[w] = current[w]
    BY <1>1 DEF StartTarget, AtTarget, DeployInv, ExecutesClaimed, Executing
  <2>3. x = ref
    BY <2>1, <2>2, OneTarget
  <2> QED
    BY <2>1, <2>2, <2>3 DEF MarkTargetRunning
<1>2. CASE Execute(w) \/ Heartbeat(w) \/ LoseHeartbeat(w)
  <2>1. /\ pc[w] \in {"execute", "executed"} /\ AtTarget(w, ref)
        /\ current'[w] = current[w] /\ logs' = logs
    BY <1>2 DEF Execute, Heartbeat, LoseHeartbeat, HeartbeatDeploy, Goto, AtTarget, workerVars, storeVars
  <2> QED
    BY <2>1 DEF MarkedRunning
<1>3. ASSUME WorkerStep(w)
      PROVE  StartTarget(w) \/ Execute(w) \/ Heartbeat(w) \/ LoseHeartbeat(w)
  BY <1>3 DEF WorkerStep, Progress, Recover, AnnounceRecovered, Claim, ClaimNothing, StartDeploy,
     TargetNotQueued, NoMoreTargets, FinishTarget, ReportTarget, SkipRest, Finish, Report,
     StopOnLostHeartbeat, Abandon, Return, Goto
<1>4. CASE ~WorkerStep(w)
  <2>1. \A v \in Worker : ~WorkerStep(v)
    BY <1>4 DEF OneLoop
  <2>2. UNCHANGED workerVars
    BY <2>1 DEF Next, vars
  <2>3. pc[w] \in {"execute", "executed"} /\ AtTarget(w, ref) /\ current'[w] = current[w]
    BY <2>2 DEF workerVars, AtTarget
  <2>4. current[w] \in Release /\ record[current[w]] # "none"
    BY <2>3 DEF DeployInv, ExecutesClaimed, Executing
  <2>5. logs'[current[w]] = logs[current[w]]
    BY <2>1, <2>2, <2>4, LogsOfRecords
  <2> QED
    BY <2>3, <2>5 DEF MarkedRunning
<1> QED
  BY <1>1, <1>2, <1>3, <1>4

\* With one worker loop the target that is executed stays marked.
LEMMA TargetsAreMarked ==
  ASSUME OneLoop
  PROVE  Spec => []MarkedRunning
<1>1. Init => MarkedRunning
  BY DEF Init, WorkerInit, MarkedRunning
<1>2. PipelineInv /\ MarkedRunning /\ [Next]_vars => MarkedRunning'
  BY MarkedStep
<1> QED
  BY <1>1, <1>2, PipelineHolds, PTL DEF Spec

\* What a step may do to one log.
LEMMA LogStep ==
  ASSUME OneLoop, PipelineInv, RecordsFit, MarkedRunning, [Next]_vars,
         NEW r \in Release, NEW ref \in Ref
  PROVE  \/ logs'[r][ref] = logs[r][ref]
         \/ <<logs[r][ref], logs'[r][ref]>> \in LogSteps
         \/ record[r] = "none" /\ logs'[r][ref] = "queued"
<1> USE DEF PipelineInv, TypeOK, StoreTypeOK, WorkerTypeOK
<1> DEFINE Advances == \/ logs'[r][ref] = logs[r][ref]
                       \/ <<logs[r][ref], logs'[r][ref]>> \in LogSteps
                       \/ record[r] = "none" /\ logs'[r][ref] = "queued"
<1>1. ASSUME NEW w \in Worker, WorkerStep(w)
      PROVE  Advances
  <2>1. CASE Recover(w)
    BY <2>1 DEF Recover, RecoverExpiredDeploys, Abandoned, LogSteps
  <2>2. CASE StartTarget(w)
    BY <2>2 DEF StartTarget, MarkTargetRunning, LogSteps
  <2>3. CASE FinishTarget(w)
    <3>1. PICK x \in Ref : AtTarget(w, x) /\ MarkTargetFinished(current[w], x, outcome[w])
      BY <2>3 DEF FinishTarget
    <3>2. /\ current[w] \in Release /\ outcome[w] \in {"success", "failed"}
          /\ logs[current[w]][x] = "running"
      BY <2>3, <3>1 DEF FinishTarget, DeployInv, ExecutesClaimed, TodoCoversLogs, Executing, MarkedRunning
    <3>3. CASE r = current[w] /\ ref = x
      BY <3>1, <3>2, <3>3 DEF MarkTargetFinished, LogSteps
    <3>4. CASE ~(r = current[w] /\ ref = x)
      BY <3>1, <3>2, <3>4 DEF MarkTargetFinished
    <3> QED
      BY <3>3, <3>4
  <2>4. CASE SkipRest(w)
    <3>1. current[w] \in Release /\ logs[current[w]][ref] # "running"
      BY <2>4 DEF SkipRest, DeployInv, ExecutesClaimed, TodoCoversLogs, Executing
    <3> QED
      BY <2>4, <3>1 DEF SkipRest, MarkQueuedTargetsSkipped, Skippable, LogSteps
  <2>5. ASSUME ~Recover(w), ~StartTarget(w), ~FinishTarget(w), ~SkipRest(w)
        PROVE  logs' = logs
    BY <1>1, <2>5 DEF WorkerStep, Progress, AnnounceRecovered, Claim, ClaimDeploy, ClaimNothing,
       StartDeploy, TargetNotQueued, NoMoreTargets, Execute, ReportTarget, Finish, FinishDeploy,
       Report, StopOnLostHeartbeat, Abandon, Heartbeat, LoseHeartbeat, HeartbeatDeploy, tables, storeVars
  <2> QED
    BY <2>1, <2>2, <2>3, <2>4, <2>5
<1>2. ASSUME NEW c \in Client, Handle(c)
      PROVE  Advances
  BY <1>2, ApiStep DEF RecordsFit
<1>3. CASE \/ \E q \in Release : LeaseExpires(q)
           \/ Patch
  BY <1>3, QuietClock
<1>4. CASE UNCHANGED vars
  BY <1>4 DEF vars, storeVars
<1> QED
  BY <1>1, <1>2, <1>3, <1>4 DEF Next

\* With one worker loop the log of a target only moves forward
\* (LogsOnlyAdvance), although neither the result of a target nor the
\* recovery looks at who holds the deploy.
THEOREM LogsAdvance ==
  ASSUME OneLoop
  PROVE  Spec => LogsOnlyAdvance
<1>1. PipelineInv /\ RecordsFit /\ MarkedRunning /\ [Next]_vars =>
        [\A r \in Release, ref \in Ref :
           \/ logs'[r][ref] = logs[r][ref]
           \/ <<logs[r][ref], logs'[r][ref]>> \in LogSteps
           \/ record[r] = "none" /\ logs'[r][ref] = "queued"]_vars
  BY LogStep
<1> QED
  BY <1>1, PipelineHolds, RecordsAreFit, TargetsAreMarked, PTL DEF Spec, LogsOnlyAdvance
-----------------------------------------------------------------------------
(* One worker loop: the tables say what the targets run.                   *)

\* The loop has put what it deploys on this target, whether or not it has
\* written the result already.
Done(w, ref) ==
  \/ logs[current[w]][ref] = "success"
  \/ pc[w] = "executed" /\ AtTarget(w, ref) /\ outcome[w] = "success"

\* A target runs a release made for it that was claimed, and the targets that
\* run what a loop deploys are those it is done with.
AppliedFits ==
  /\ \A t \in Target, ref \in Ref :
       LET r == applied[t][ref]
       IN  r # NoRelease => TargetOf[r] = t /\ record[r] \in {"running"} \cup Executed
  /\ \A w \in Worker : pc[w] \in Executing =>
       \A ref \in Ref : applied[TargetOf[current[w]]][ref] = current[w] <=> Done(w, ref)

\* A step that leaves the loop and its logs alone keeps what they fit.
LEMMA AppliedKept ==
  ASSUME PipelineInv, RecordsFit, AppliedFits, [Next]_vars, UNCHANGED applied,
         \A w \in Worker : pc'[w] \in Executing =>
           /\ pc[w] \in Executing /\ current'[w] = current[w]
           /\ \A ref \in Ref : Done(w, ref)' <=> Done(w, ref)
  PROVE  AppliedFits'
<1>1. ASSUME NEW t \in Target, NEW ref \in Ref, applied'[t][ref] # NoRelease
      PROVE  /\ TargetOf[applied'[t][ref]] = t
             /\ record'[applied'[t][ref]] \in {"running"} \cup Executed
  <2>1. applied[t][ref] \in Release
    BY <1>1 DEF PipelineInv, TypeOK, WorkerTypeOK
  <2> QED
    BY <1>1, <2>1, Lasting DEF AppliedFits
<1>2. ASSUME NEW w \in Worker, pc'[w] \in Executing, NEW ref \in Ref
      PROVE  applied'[TargetOf[current'[w]]][ref] = current'[w] <=> Done(w, ref)'
  BY <1>2 DEF AppliedFits
<1> QED
  BY <1>1, <1>2 DEF AppliedFits

\* The steps of the loop that touch what it is done with.
LEMMA AppliedWorkerStep ==
  ASSUME OneLoop, PipelineInv, RecordsFit, MarkedRunning, AppliedFits, [Next]_vars,
         NEW w \in Worker, WorkerStep(w)
  PROVE  AppliedFits'
<1> USE DEF PipelineInv, TypeOK, StoreTypeOK, WorkerTypeOK
<1>1. pc[w] \in Executing => current[w] \in Release
  BY DEF DeployInv, ExecutesClaimed
<1>2. \A v \in Worker : v = w
  BY DEF OneLoop
<1>3. CASE Claim(w)
  <2>1. PICK r \in Release : ClaimDeploy(r) /\ current' = [current EXCEPT ![w] = r]
    BY <1>3 DEF Claim
  <2>2. /\ applied' = applied /\ logs' = logs /\ current'[w] = r /\ pc'[w] = "start"
        /\ record[r] = "queued"
    BY <1>3, <2>1 DEF Claim, Goto, ClaimDeploy, NextToClaim, Claimable
  <2>3. ASSUME NEW ref \in Ref
        PROVE  applied'[TargetOf[r]][ref] # r /\ ~Done(w, ref)'
    <3>1. logs[r][ref] \in {"none", "queued"}
      BY <2>2 DEF DeployInv, QueuedIsUntouched
    <3>2. TargetOf[r] \in Target
      BY StoreAssumption
    <3>3. ASSUME applied[TargetOf[r]][ref] = r
          PROVE  FALSE
      <4>1. r # NoRelease
        BY StoreAssumption
      <4>2. record[r] \in {"running"} \cup Executed
        BY <3>2, <3>3, <4>1 DEF AppliedFits
      <4> QED
        BY <2>2, <4>2 DEF Executed
    <3> QED
      BY <2>2, <3>1, <3>3 DEF Done
  <2>4. ASSUME NEW t \in Target, NEW ref \in Ref, applied'[t][ref] # NoRelease
        PROVE  /\ TargetOf[applied'[t][ref]] = t
               /\ record'[applied'[t][ref]] \in {"running"} \cup Executed
    <3>1. applied[t][ref] \in Release
      BY <2>2, <2>4
    <3> QED
      BY <2>2, <2>4, <3>1, Lasting DEF AppliedFits
  <2> QED
    BY <1>2, <2>2, <2>3, <2>4 DEF AppliedFits
<1>4. CASE Execute(w)
  <2>1. PICK result \in {"success", "failed"}, x \in Ref :
          /\ AtTarget(w, x)
          /\ outcome' = [outcome EXCEPT ![w] = result]
          /\ applied' = IF result = "success"
                        THEN [applied EXCEPT ![TargetOf[current[w]]][x] = current[w]]
                        ELSE applied
    BY <1>4 DEF Execute
  <2>2. /\ pc[w] = "execute" /\ pc'[w] = "executed" /\ current' = current /\ logs' = logs
        /\ todo' = todo /\ record' = record /\ outcome'[w] = result /\ current[w] \in Release
    BY <1>1, <1>4, <2>1 DEF Execute, Goto, Executing, storeVars
  <2>3. TargetOf[current[w]] \in Target
    BY <2>2, StoreAssumption
  <2>4. logs[current[w]][x] = "running"
    BY <2>1, <2>2 DEF MarkedRunning
  <2>5. \A ref \in Ref : Done(w, ref)' <=> (Done(w, ref) \/ (ref = x /\ result = "success"))
    <3>1. \A ref \in Ref : AtTarget(w, ref)' <=> ref = x
      BY <2>1, <2>2, OneTarget DEF AtTarget
    <3> QED
      BY <2>2, <3>1 DEF Done
  <2>6. \A t \in Target, ref \in Ref :
          applied'[t][ref] = IF t = TargetOf[current[w]] /\ ref = x /\ result = "success"
                             THEN current[w] ELSE applied[t][ref]
    BY <2>1, <2>3
  <2>7. record[current[w]] \in {"running"} \cup Executed
    BY <2>2 DEF DeployInv, ExecutesClaimed, Executing, Executed
  <2>8. ASSUME NEW t \in Target, NEW ref \in Ref, applied'[t][ref] # NoRelease
        PROVE  /\ TargetOf[applied'[t][ref]] = t
               /\ record'[applied'[t][ref]] \in {"running"} \cup Executed
    BY <2>2, <2>6, <2>7, <2>8 DEF AppliedFits
  <2>9. \A ref \in Ref : applied[TargetOf[current[w]]][ref] = current[w] <=> Done(w, ref)
    BY <2>2 DEF AppliedFits, Executing
  <2>10. ASSUME NEW ref \in Ref
         PROVE  applied'[TargetOf[current[w]]][ref] = current[w] <=> Done(w, ref)'
    BY <2>3, <2>5, <2>6, <2>9
  <2> QED
    BY <1>2, <2>2, <2>8, <2>10 DEF AppliedFits
<1>5. CASE FinishTarget(w)
  <2>1. PICK x \in Ref : /\ AtTarget(w, x)
                         /\ MarkTargetFinished(current[w], x, outcome[w])
                         /\ todo' = [todo EXCEPT ![w] = @ \ {x}]
    BY <1>5 DEF FinishTarget
  <2>2. /\ pc[w] = "executed" /\ pc'[w] = "logged" /\ current' = current /\ applied' = applied
        /\ current[w] \in Release
    BY <1>1, <1>5 DEF FinishTarget, Goto, Executing
  <2>3. logs[current[w]][x] = "running" /\ \A ref \in Ref : AtTarget(w, ref) => ref = x
    BY <2>1, <2>2, OneTarget DEF MarkedRunning
  <2>4. \A ref \in Ref : logs'[current[w]][ref] =
          IF ref = x THEN outcome[w] ELSE logs[current[w]][ref]
    BY <2>1, <2>2, <2>3 DEF MarkTargetFinished
  <2>5. ASSUME NEW ref \in Ref
        PROVE  Done(w, ref)' <=> Done(w, ref)
    <3>1. Done(w, ref)' <=> logs'[current[w]][ref] = "success"
      BY <2>2 DEF Done
    <3>2. CASE ref = x
      BY <2>1, <2>2, <2>3, <2>4, <3>1, <3>2 DEF Done
    <3>3. CASE ref # x
      BY <2>2, <2>3, <2>4, <3>1, <3>3 DEF Done
    <3> QED
      BY <3>2, <3>3
  <2> QED
    BY <1>2, <2>2, <2>5, AppliedKept DEF Executing
<1>6. ASSUME ~Claim(w), ~Execute(w), ~FinishTarget(w)
      PROVE  /\ applied' = applied
             /\ pc'[w] \in Executing =>
                  /\ pc[w] \in Executing /\ current'[w] = current[w]
                  /\ \A ref \in Ref : Done(w, ref)' <=> Done(w, ref)
  <2>1. CASE StartTarget(w) \/ SkipRest(w)
    <3>1. /\ applied' = applied /\ pc[w] \in {"next", "skip"} /\ pc'[w] # "executed"
          /\ current' = current /\ current[w] \in Release
      BY <1>1, <2>1 DEF StartTarget, SkipRest, Goto, Executing
    <3>2. \A ref \in Ref : logs'[current[w]][ref] = "success" <=> logs[current[w]][ref] = "success"
      <4>1. CASE StartTarget(w)
        BY <3>1, <4>1 DEF StartTarget, MarkTargetRunning
      <4>2. CASE SkipRest(w)
        BY <3>1, <4>2 DEF SkipRest, MarkQueuedTargetsSkipped, Skippable
      <4> QED
        BY <2>1, <4>1, <4>2
    <3> QED
      BY <3>1, <3>2 DEF Done, Executing
  <2>2. CASE StartDeploy(w) \/ NoMoreTargets(w) \/ ReportTarget(w)
    <3>1. /\ applied' = applied /\ pc[w] \in {"start", "next", "logged"} /\ pc'[w] # "executed"
          /\ current' = current /\ logs' = logs
      BY <2>2 DEF StartDeploy, NoMoreTargets, ReportTarget, Goto, tables, storeVars
    <3> QED
      BY <3>1 DEF Done, Executing
  <2>3. CASE Heartbeat(w) \/ LoseHeartbeat(w)
    <3>1. UNCHANGED <<applied, pc, current, outcome, todo, logs>>
      BY <2>3 DEF Heartbeat, LoseHeartbeat, HeartbeatDeploy, workerVars, storeVars
    <3> QED
      BY <3>1 DEF Done, AtTarget
  <2>4. ASSUME ~StartTarget(w), ~SkipRest(w), ~StartDeploy(w), ~NoMoreTargets(w), ~ReportTarget(w),
               ~Heartbeat(w), ~LoseHeartbeat(w)
        PROVE  applied' = applied /\ pc'[w] \notin Executing
    BY <1>6, <2>4 DEF WorkerStep, Progress, Recover, AnnounceRecovered, ClaimNothing,
       TargetNotQueued, Finish, Report, StopOnLostHeartbeat, Abandon, Return, Goto, Executing
  <2> QED
    BY <2>1, <2>2, <2>3, <2>4
<1>7. CASE ~Claim(w) /\ ~Execute(w) /\ ~FinishTarget(w)
  BY <1>2, <1>6, <1>7, AppliedKept
<1> QED
  BY <1>3, <1>4, <1>5, <1>7

\* Nobody else touches the targets, or the logs of the deploy.
LEMMA AppliedStep ==
  ASSUME OneLoop, PipelineInv, RecordsFit, MarkedRunning, AppliedFits, [Next]_vars
  PROVE  AppliedFits'
<1> USE DEF PipelineInv, TypeOK, StoreTypeOK, WorkerTypeOK
<1>1. CASE \E w \in Worker : WorkerStep(w)
  BY <1>1, AppliedWorkerStep
<1>2. CASE \A w \in Worker : ~WorkerStep(w)
  <2>1. UNCHANGED workerVars
    BY <1>2 DEF Next, vars
  <2>2. ASSUME NEW w \in Worker, pc'[w] \in Executing
        PROVE  /\ pc[w] \in Executing /\ current'[w] = current[w]
               /\ \A ref \in Ref : Done(w, ref)' <=> Done(w, ref)
    <3>1. pc[w] \in Executing /\ UNCHANGED <<pc, current, todo, outcome>>
      BY <2>1, <2>2 DEF workerVars
    <3>2. current[w] \in Release /\ record[current[w]] # "none"
      BY <3>1 DEF DeployInv, ExecutesClaimed
    <3>3. logs'[current[w]] = logs[current[w]]
      BY <1>2, <2>1, <3>2, LogsOfRecords
    <3> QED
      BY <3>1, <3>3 DEF Done, AtTarget
  <2> QED
    BY <2>1, <2>2, AppliedKept DEF workerVars
<1> QED
  BY <1>1, <1>2
\* Only the end of a deploy makes a record a success and writes
\* deployment_states.
LEMMA OnlyFinish ==
  ASSUME PipelineInv, [Next]_vars, \A w \in Worker : ~Finish(w), NEW r \in Release
  PROVE  /\ state' = state
         /\ record'[r] \in {"success", "partial"} => record'[r] = record[r]
<1> USE DEF PipelineInv, TypeOK, StoreTypeOK
<1>1. ASSUME NEW w \in Worker, WorkerStep(w)
      PROVE  /\ state' = state
             /\ record'[r] \in {"success", "partial"} => record'[r] = record[r]
  <2>1. CASE Recover(w)
    BY <2>1 DEF Recover, RecoverExpiredDeploys
  <2>2. CASE Claim(w)
    BY <2>2 DEF Claim, ClaimDeploy
  <2> QED
    BY <1>1, <2>1, <2>2, QuietWorkerStep
<1>2. ASSUME NEW c \in Client, Handle(c)
      PROVE  /\ state' = state
             /\ record'[r] \in {"success", "partial"} => record'[r] = record[r]
  BY <1>2, ApiStep
<1>3. CASE \/ \E q \in Release : LeaseExpires(q)
           \/ Patch
  BY <1>3, QuietEnvironmentStep
<1>4. CASE UNCHANGED vars
  BY <1>4 DEF vars, storeVars
<1> QED
  BY <1>1, <1>2, <1>3, <1>4 DEF Next

\* A deploy that ends writes the rows of exactly the targets that run it.
LEMMA FinishReflects ==
  ASSUME PipelineInv, AppliedFits, StateReflectsTarget, NEW w \in Worker, Finish(w)
  PROVE  StateReflectsTarget'
<1> USE DEF PipelineInv, TypeOK, StoreTypeOK, WorkerTypeOK
<1> DEFINE q == current[w]
<1>1. /\ pc[w] = "finish" /\ q \in Release /\ applied' = applied /\ TargetOf[q] \in Target
  BY StoreAssumption DEF Finish, DeployInv, ExecutesClaimed, Executing
<1>2. \A ref \in Ref : applied[TargetOf[q]][ref] = q <=> logs[q][ref] = "success"
  BY <1>1 DEF AppliedFits, Done, Executing
<1>3. /\ record' = [record EXCEPT ![q] = Outcome(q)]
      /\ state' = [state EXCEPT ![TargetOf[q]] =
                     [ref \in Ref |-> IF ref \in DeployedRefs(q) THEN q ELSE @[ref]]]
  BY DEF Finish, FinishDeploy
<1> HIDE DEF q
<1> SUFFICES ASSUME NEW t \in Target, NEW ref \in Ref, applied[t][ref] # NoRelease,
                    record'[applied[t][ref]] \in {"success", "partial"}
             PROVE  state'[t][ref] = applied[t][ref]
  BY <1>1 DEF StateReflectsTarget
<1>4. applied[t][ref] \in Release /\ TargetOf[applied[t][ref]] = t
  BY DEF AppliedFits
<1>5. CASE applied[t][ref] = q
  BY <1>1, <1>2, <1>3, <1>4, <1>5 DEF DeployedRefs
<1>6. CASE applied[t][ref] # q
  <2>1. state[t][ref] = applied[t][ref]
    BY <1>1, <1>3, <1>4, <1>6 DEF StateReflectsTarget
  <2>2. t = TargetOf[q] => ref \notin DeployedRefs(q)
    BY <1>2, <1>6 DEF DeployedRefs
  <2> QED
    BY <1>1, <1>3, <2>1, <2>2
<1> QED
  BY <1>5, <1>6

\* Until a deploy ends, the tables say nothing new of the targets it is on.
LEMMA ReflectsStep ==
  ASSUME PipelineInv, WorkerOwnsDeploy, AppliedFits, StateReflectsTarget, [Next]_vars
  PROVE  StateReflectsTarget'
<1> USE DEF PipelineInv, TypeOK, StoreTypeOK, WorkerTypeOK
<1>1. CASE \E w \in Worker : Finish(w)
  BY <1>1, FinishReflects
<1>2. CASE \A w \in Worker : ~Finish(w)
  <2> SUFFICES ASSUME NEW t \in Target, NEW ref \in Ref, applied'[t][ref] # NoRelease,
                      record'[applied'[t][ref]] \in {"success", "partial"}
               PROVE  state'[t][ref] = applied'[t][ref]
    BY DEF StateReflectsTarget
  <2>1. ASSUME applied' = applied
        PROVE  state'[t][ref] = applied'[t][ref]
    <3>1. applied[t][ref] \in Release
      BY <2>1
    <3> QED
      BY <1>2, <2>1, <3>1, OnlyFinish DEF StateReflectsTarget
  <2>2. ASSUME NEW w \in Worker, Execute(w)
        PROVE  state'[t][ref] = applied'[t][ref]
    <3>1. record[current[w]] = "running" /\ record' = record /\ state' = state
      BY <2>2 DEF Execute, WorkerOwnsDeploy, Executing, storeVars
    <3>2. applied'[t][ref] \in {applied[t][ref], current[w]}
      BY <2>2 DEF Execute
    <3> QED
      BY <3>1, <3>2 DEF StateReflectsTarget
  <2>3. ASSUME NEW w \in Worker, WorkerStep(w), ~Execute(w)
        PROVE  applied' = applied
    BY <2>3 DEF WorkerStep, Progress, Recover, AnnounceRecovered, Claim, ClaimNothing, StartDeploy,
       StartTarget, TargetNotQueued, NoMoreTargets, FinishTarget, ReportTarget, SkipRest, Finish,
       Report, StopOnLostHeartbeat, Abandon, Heartbeat, LoseHeartbeat, workerVars
  <2> QED
    BY <2>1, <2>2, <2>3 DEF Next, vars, workerVars
<1> QED
  BY <1>1, <1>2

\* With one worker loop deployment_states says what the targets run as soon
\* as the deploy that put it there has ended (StateReflectsTarget).
THEOREM TargetsAreReflected ==
  ASSUME OneLoop
  PROVE  Spec => []StateReflectsTarget
<1>1. Init => AppliedFits /\ StateReflectsTarget
  <2> SUFFICES ASSUME Init
               PROVE  AppliedFits /\ StateReflectsTarget
    OBVIOUS
  <2>1. /\ \A t \in Target, ref \in Ref : applied[t][ref] = NoRelease
        /\ \A w \in Worker : pc[w] \notin Executing
    BY DEF Init, WorkerInit, Executing
  <2> QED
    BY <2>1 DEF AppliedFits, StateReflectsTarget
<1>2. PipelineInv /\ RecordsFit /\ MarkedRunning /\ WorkerOwnsDeploy /\ AppliedFits
        /\ StateReflectsTarget /\ [Next]_vars => AppliedFits' /\ StateReflectsTarget'
  BY AppliedStep, ReflectsStep
<1> QED
  BY <1>1, <1>2, PipelineHolds, RecordsAreFit, TargetsAreMarked, WorkerOwns, PTL DEF Spec
-----------------------------------------------------------------------------
(* One worker loop: deploys of the same targets end in the order in which  *)
(* they were confirmed.                                                    *)

Claimed == {"running"} \cup Executed

\* Release q was confirmed before r, for the same targets.
Before(q, r) ==
  /\ TargetOf[q] = TargetOf[r]
  /\ Snapshot(q) = Snapshot(r)
  /\ 0 < createdAt[q]
  /\ createdAt[q] < createdAt[r]

\* Claims follow the order of the confirmations, and what is being deployed
\* is the last that was claimed.
InOrder ==
  /\ \A q, r \in Release : Before(q, r) /\ record[r] \in Claimed => record[q] # "queued"
  /\ \A w \in Worker, r \in Release :
       pc[w] \in Executing /\ Before(current[w], r) => record[r] \notin Claimed

\* A record keeps its timestamp and its targets; a new one is the newest.
LEMMA SnapshotMoves ==
  ASSUME PipelineInv, RecordsFit, [Next]_vars, NEW r \in Release
  PROVE  \/ createdAt'[r] = createdAt[r] /\ Snapshot(r)' = Snapshot(r)
         \/ record[r] = "none" /\ record'[r] = "queued" /\ createdAt'[r] = now' /\ now < now'
<1>1. ASSUME NEW w \in Worker, WorkerStep(w)
      PROVE  createdAt'[r] = createdAt[r] /\ Snapshot(r)' = Snapshot(r)
  BY <1>1, WorkerClock, WorkerLogs DEF Snapshot
<1>2. ASSUME NEW c \in Client, Handle(c)
      PROVE  \/ createdAt'[r] = createdAt[r] /\ Snapshot(r)' = Snapshot(r)
             \/ record[r] = "none" /\ record'[r] = "queued" /\ createdAt'[r] = now' /\ now < now'
  BY <1>2, ApiRecord DEF Snapshot, PipelineInv
<1>3. CASE \/ \E q \in Release : LeaseExpires(q)
           \/ Patch
  BY <1>3, QuietClock DEF Snapshot
<1>4. CASE UNCHANGED vars
  BY <1>4 DEF vars, storeVars, Snapshot
<1> QED
  BY <1>1, <1>2, <1>3, <1>4 DEF Next

\* Whoever is before a claimed deploy after a step was so before it.
LEMMA BeforeIsOld ==
  ASSUME PipelineInv, RecordsFit, [Next]_vars, NEW q \in Release, NEW r \in Release,
         Before(q, r)', record'[r] \in Claimed
  PROVE  /\ Before(q, r)
         /\ createdAt'[q] = createdAt[q] /\ createdAt'[r] = createdAt[r]
         /\ Snapshot(q)' = Snapshot(q) /\ Snapshot(r)' = Snapshot(r)
<1>1. /\ createdAt[q] \in Nat /\ createdAt[r] \in Nat /\ now \in Nat /\ createdAt[r] <= now
      /\ now' \in Nat
  <2>1. TypeOK'
    BY TypeStep DEF PipelineInv
  <2> QED
    BY <2>1 DEF PipelineInv, TypeOK, StoreTypeOK, RecordsFit
<1>2. createdAt'[r] = createdAt[r] /\ Snapshot(r)' = Snapshot(r)
  BY SnapshotMoves DEF Claimed, Executed
<1>3. createdAt'[q] < createdAt'[r]
  BY DEF Before
<1>4. createdAt'[q] = createdAt[q] /\ Snapshot(q)' = Snapshot(q)
  BY <1>1, <1>2, <1>3, SnapshotMoves
<1> QED
  BY <1>2, <1>4 DEF Before

\* A deploy that is claimed has no queued one before it: that one could have
\* been claimed as well, and would have been first.
LEMMA ClaimInOrder ==
  ASSUME PipelineInv, NEW q \in Release, NEW r \in Release, Before(q, r), ClaimDeploy(r)
  PROVE  record[q] # "queued"
<1> SUFFICES ASSUME record[q] = "queued"
             PROVE  FALSE
  OBVIOUS
<1>1. release[q] = "queued"
  BY DEF PipelineInv, StatusCoupling, Summary
<1>2. Claimable(q)
  BY <1>1 DEF ClaimDeploy, NextToClaim, Claimable, Before
<1>3. createdAt[r] <= createdAt[q]
  BY <1>2 DEF ClaimDeploy, NextToClaim
<1>4. createdAt[q] \in Nat /\ createdAt[r] \in Nat
  BY DEF PipelineInv, TypeOK, StoreTypeOK
<1> QED
  BY <1>3, <1>4 DEF Before

\* Every step keeps the order.
LEMMA OrderStep ==
  ASSUME OneLoop, PipelineInv, RecordsFit, InOrder, [Next]_vars
  PROVE  InOrder'
<1> USE DEF PipelineInv, TypeOK, StoreTypeOK, WorkerTypeOK
<1>1. CASE \E w \in Worker : Claim(w)
  <2>1. PICK w \in Worker, x \in Release : /\ ClaimDeploy(x) /\ pc[w] = "claim"
                                         /\ current' = [current EXCEPT ![w] = x]
    BY <1>1 DEF Claim
  <2>2. /\ record' = [record EXCEPT ![x] = "running"] /\ record[x] = "queued"
        /\ \A v \in Worker : current'[v] = x
    BY <2>1 DEF ClaimDeploy, NextToClaim, Claimable, OneLoop
  <2>3. ASSUME NEW q \in Release, NEW r \in Release, Before(q, r)', record'[r] \in Claimed
        PROVE  record'[q] # "queued"
    <3>1. Before(q, r)
      BY <2>3, BeforeIsOld
    <3>2. CASE r = x
      BY <2>1, <2>2, <3>1, <3>2, ClaimInOrder
    <3>3. CASE r # x
      BY <2>2, <2>3, <3>1, <3>3 DEF InOrder
    <3> QED
      BY <3>2, <3>3
  <2>4. ASSUME NEW r \in Release, Before(x, r)'
        PROVE  record'[r] \notin Claimed
    <3>1. SUFFICES ASSUME record'[r] \in Claimed
                   PROVE  FALSE
      OBVIOUS
    <3>2. Before(x, r)
      BY <2>4, <3>1, BeforeIsOld
    <3>3. r # x
      BY <3>2 DEF Before
    <3> QED
      BY <2>2, <3>1, <3>2, <3>3 DEF InOrder
  <2> QED
    BY <2>2, <2>3, <2>4 DEF InOrder
<1>2. CASE \A w \in Worker : ~Claim(w)
  <2>1. ASSUME NEW r \in Release, record'[r] \in Claimed
        PROVE  record[r] \in Claimed
    <3>1. ASSUME NEW w \in Worker, WorkerStep(w)
          PROVE  record[r] \in Claimed
      <4>1. CASE Recover(w)
        BY <2>1, <4>1 DEF Recover, RecoverExpiredDeploys, Expired, Claimed
      <4>2. CASE Finish(w)
        BY <2>1, <4>2 DEF Finish, FinishDeploy, DeployInv, ExecutesClaimed, Executing, Claimed, Executed
      <4> QED
        BY <1>2, <2>1, <3>1, <4>1, <4>2, QuietWorkerStep
    <3>2. ASSUME NEW c \in Client, Handle(c)
          PROVE  record[r] \in Claimed
      BY <2>1, <3>2, ApiStep DEF Claimed, Executed
    <3>3. CASE \/ \E q \in Release : LeaseExpires(q)
               \/ Patch
      BY <2>1, <3>3, QuietEnvironmentStep
    <3>4. CASE UNCHANGED vars
      BY <2>1, <3>4 DEF vars, storeVars
    <3> QED
      BY <3>1, <3>2, <3>3, <3>4 DEF Next
  <2>2. ASSUME NEW q \in Release, record'[q] = "queued"
        PROVE  record[q] \in {"none", "queued"}
    BY <2>2, RecordMoves DEF Executed
  <2>3. ASSUME NEW q \in Release, NEW r \in Release, Before(q, r)', record'[r] \in Claimed
        PROVE  record'[q] # "queued"
    <3>1. Before(q, r) /\ record[r] \in Claimed
      BY <2>1, <2>3, BeforeIsOld
    <3>2. record[q] \notin {"none", "queued"}
      BY <3>1 DEF InOrder, Before, RecordsFit
    <3> QED
      BY <2>2, <3>2
  <2>4. ASSUME NEW w \in Worker, pc'[w] \in Executing
        PROVE  pc[w] \in Executing /\ current'[w] = current[w] /\ current[w] \in Release
    <3>1. ASSUME WorkerStep(w)
          PROVE  pc[w] \in Executing /\ current'[w] = current[w]
      BY <1>2, <2>4, <3>1 DEF WorkerStep, Progress, Recover, AnnounceRecovered, ClaimNothing,
         StartDeploy, StartTarget, TargetNotQueued, NoMoreTargets, Execute, FinishTarget,
         ReportTarget, SkipRest, Finish, Report, StopOnLostHeartbeat, Abandon, Heartbeat,
         LoseHeartbeat, Return, Goto, Executing, workerVars
    <3>2. ASSUME ~WorkerStep(w)
          PROVE  UNCHANGED workerVars
      BY <3>2 DEF OneLoop, Next, vars
    <3> QED
      BY <2>4, <3>1, <3>2 DEF workerVars, DeployInv, ExecutesClaimed
  <2>5. ASSUME NEW w \in Worker, NEW x \in Release, NEW r \in Release,
               pc'[w] \in Executing, current'[w] = x, Before(x, r)', record'[r] \in Claimed
        PROVE  FALSE
    <3>1. pc[w] \in Executing /\ current[w] = x
      BY <2>4, <2>5
    <3>2. Before(x, r) /\ record[r] \in Claimed
      BY <2>1, <2>5, BeforeIsOld
    <3> QED
      BY <3>1, <3>2 DEF InOrder
  <2>6. ASSUME NEW w \in Worker, NEW r \in Release, pc'[w] \in Executing,
               Before(current[w], r)', record'[r] \in Claimed
        PROVE  FALSE
    <3>1. current'[w] \in Release
      BY <2>4, <2>6
    <3> QED
      BY <2>5, <2>6, <3>1 DEF Before, Snapshot
  <2> QED
    BY <2>3, <2>6 DEF InOrder
<1> QED
  BY <1>1, <1>2

-----------------------------------------------------------------------------
\* The logs of a record that ended well do not change: no loop has it any more.
LEMMA FinishedLogs ==
  ASSUME PipelineInv, [Next]_vars,
         NEW r \in Release, record[r] \in {"success", "partial"}
  PROVE  logs'[r] = logs[r]
<1> USE DEF PipelineInv, TypeOK, StoreTypeOK, WorkerTypeOK
<1>1. ASSUME NEW w \in Worker, WorkerStep(w)
      PROVE  logs'[r] = logs[r]
  <2>1. CASE Recover(w)
    BY <2>1 DEF Recover, RecoverExpiredDeploys, Expired
  <2>2. CASE StartTarget(w) \/ FinishTarget(w) \/ SkipRest(w)
    <3>1. current[w] # r
      BY <2>2 DEF StartTarget, FinishTarget, SkipRest, DeployInv, ExecutesClaimed, Executing
    <3> QED
      BY <2>2, <3>1 DEF StartTarget, FinishTarget, SkipRest, MarkTargetRunning, MarkTargetFinished,
         MarkQueuedTargetsSkipped
  <2>3. ASSUME ~Recover(w), ~StartTarget(w), ~FinishTarget(w), ~SkipRest(w)
        PROVE  logs' = logs
    BY <1>1, <2>3 DEF WorkerStep, Progress, AnnounceRecovered, Claim, ClaimDeploy, ClaimNothing,
       StartDeploy, TargetNotQueued, NoMoreTargets, Execute, ReportTarget, Finish, FinishDeploy,
       Report, StopOnLostHeartbeat, Abandon, Heartbeat, LoseHeartbeat, HeartbeatDeploy, tables, storeVars
  <2> QED
    BY <2>1, <2>2, <2>3
<1>2. ASSUME NEW c \in Client, Handle(c)
      PROVE  logs'[r] = logs[r]
  BY <1>2, ApiRecord
<1>3. CASE \/ \E q \in Release : LeaseExpires(q)
           \/ Patch
  BY <1>3, QuietClock
<1>4. CASE UNCHANGED vars
  BY <1>4 DEF vars, storeVars
<1> QED
  BY <1>1, <1>2, <1>3, <1>4 DEF Next

\* A deploy that ends replaces what earlier ones left, and no later one has
\* ended before it.
LEMMA NewestStep ==
  ASSUME PipelineInv, RecordsFit, WorkerOwnsDeploy, InOrder, NewestConfirmedWins, [Next]_vars
  PROVE  NewestConfirmedWins'
<1> USE DEF PipelineInv, TypeOK, StoreTypeOK, WorkerTypeOK
<1> SUFFICES ASSUME NEW q \in Release, NEW r \in Release, Before(q, r)',
                    record'[r] \in {"success", "partial"},
                    NEW ref \in Ref, logs'[r][ref] = "success"
             PROVE  state'[TargetOf[r]][ref] # q
  BY DEF NewestConfirmedWins, Before, Snapshot
<1>1. Before(q, r) /\ q # r /\ TargetOf[r] \in Target
  <2>1. Before(q, r)
    BY BeforeIsOld DEF Claimed, Executed
  <2> QED
    BY <2>1, StoreAssumption DEF Before
<1>2. ASSUME record[r] \in {"success", "partial"}
      PROVE  state[TargetOf[r]][ref] # q
  <2>1. logs[r][ref] = "success"
    BY <1>2, FinishedLogs
  <2> QED
    BY <1>1, <1>2, <2>1 DEF NewestConfirmedWins, Before, Snapshot
<1>3. ASSUME NEW w \in Worker, Finish(w)
      PROVE  state'[TargetOf[r]][ref] # q
  <2> DEFINE x == current[w]
  <2>1. pc[w] \in Executing /\ x \in Release
    BY <1>3 DEF Finish, DeployInv, ExecutesClaimed, Executing
  <2>2. /\ record' = [record EXCEPT ![x] = Outcome(x)] /\ logs' = logs
        /\ state' = [state EXCEPT ![TargetOf[x]] =
                       [y \in Ref |-> IF y \in DeployedRefs(x) THEN x ELSE @[y]]]
    BY <1>3 DEF Finish, FinishDeploy
  <2>3. Before(x, r) => record[r] \notin Claimed
    BY <2>1 DEF InOrder
  <2> HIDE DEF x
  <2>4. CASE r = x
    BY <1>1, <2>2, <2>4 DEF DeployedRefs
  <2>5. CASE r # x
    <3>1. record[r] \in {"success", "partial"}
      BY <2>1, <2>2, <2>5
    <3>2. q # x
      BY <1>1, <2>3, <3>1 DEF Claimed, Executed
    <3>3. state'[TargetOf[r]][ref] \in {x, state[TargetOf[r]][ref]}
      BY <1>1, <2>2
    <3> QED
      BY <1>2, <3>1, <3>2, <3>3
  <2> QED
    BY <2>4, <2>5
<1>4. CASE \A w \in Worker : ~Finish(w)
  BY <1>2, <1>4, OnlyFinish
<1> QED
  BY <1>3, <1>4

\* With one worker loop, of two releases confirmed for the same targets the
\* later one has the last word (NewestConfirmedWins), although a freeze, held
\* targets and abandoned deploys keep changing what can be claimed.
THEOREM NewestWins ==
  ASSUME OneLoop
  PROVE  Spec => []NewestConfirmedWins
<1>1. Init => InOrder /\ NewestConfirmedWins
  <2> SUFFICES ASSUME Init
               PROVE  InOrder /\ NewestConfirmedWins
    OBVIOUS
  <2>1. /\ \A r \in Release : record[r] = "none"
        /\ \A w \in Worker : pc[w] \notin Executing
    BY DEF Init, StoreInit, WorkerInit, Executing
  <2> QED
    BY <2>1 DEF InOrder, NewestConfirmedWins, Claimed, Executed
<1>2. PipelineInv /\ RecordsFit /\ WorkerOwnsDeploy /\ InOrder /\ NewestConfirmedWins /\ [Next]_vars =>
        InOrder' /\ NewestConfirmedWins'
  BY OrderStep, NewestStep
<1> QED
  BY <1>1, <1>2, PipelineHolds, RecordsAreFit, WorkerOwns, PTL DEF Spec

-----------------------------------------------------------------------------
(* What has ended well stays, with any number of worker loops.             *)

\* Leases are given and taken by those who work on a record that runs, or
\* that a recovery has failed.
LEMMA LeaseOfFinished ==
  ASSUME PipelineInv, [Next]_vars, NEW r \in Release, record[r] \in {"success", "partial"}
  PROVE  lease'[r] = lease[r]
<1> USE DEF PipelineInv, TypeOK, StoreTypeOK, WorkerTypeOK
<1>1. ASSUME NEW w \in Worker, WorkerStep(w)
      PROVE  lease'[r] = lease[r]
  <2>1. CASE Claim(w)
    BY <2>1 DEF Claim, ClaimDeploy, NextToClaim, Claimable
  <2>2. CASE Finish(w)
    <3>1. current[w] # r
      BY <2>2 DEF Finish, DeployInv, ExecutesClaimed, Executing
    <3> QED
      BY <2>2, <3>1 DEF Finish, FinishDeploy
  <2>3. CASE Heartbeat(w)
    <3>1. current[w] # r
      BY <2>3 DEF Heartbeat, HeartbeatDeploy
    <3> QED
      BY <2>3, <3>1 DEF Heartbeat, HeartbeatDeploy
  <2>4. ASSUME ~Claim(w), ~Finish(w), ~Heartbeat(w)
        PROVE  lease' = lease
    BY <1>1, <2>4 DEF WorkerStep, Progress, Recover, RecoverExpiredDeploys, AnnounceRecovered,
       ClaimNothing, StartDeploy, StartTarget, TargetNotQueued, NoMoreTargets, Execute, FinishTarget,
       ReportTarget, SkipRest, Report, StopOnLostHeartbeat, Abandon, LoseHeartbeat,
       MarkTargetRunning, MarkTargetFinished, MarkQueuedTargetsSkipped, tables, storeVars
  <2> QED
    BY <2>1, <2>2, <2>3, <2>4
<1>2. ASSUME NEW c \in Client, Handle(c)
      PROVE  lease' = lease
  BY <1>2 DEF Handle, CreateBegin, CreateInsert, CreateReleaseRequest, ConfirmBegin, ConfirmPreflight,
     ConfirmAuthorize, ConfirmQueue, ConfirmAndQueueRelease, RejectBegin, RejectUpdate, RejectRelease,
     CancelBegin, CancelUpdate, CancelRelease, CancelReadBack, WriteEvent, GiveUp, Begin, tables, storeVars
<1>3. CASE \/ \E q \in Release : LeaseExpires(q)
           \/ Patch
  <2>1. ASSUME NEW q \in Release, LeaseExpires(q)
        PROVE  lease'[r] = lease[r]
    BY <2>1 DEF LeaseExpires
  <2> QED
    BY <1>3, <2>1 DEF Patch, PatchEnvironment, PatchUser, tables, storeVars
<1>4. CASE UNCHANGED vars
  BY <1>4 DEF vars, storeVars
<1> QED
  BY <1>1, <1>2, <1>3, <1>4 DEF Next

\* A record moves along its arrows; nothing of it moves once it ended well.
LEMMA OutcomeStep ==
  ASSUME PipelineInv, [Next]_vars, NEW r \in Release
  PROVE  /\ record'[r] = record[r] \/ <<record[r], record'[r]>> \in RecordSteps
         /\ release[r] \in {"rejected", "cancelled"} => release'[r] = release[r] /\ record'[r] = record[r]
         /\ record[r] \in {"success", "partial"} =>
              release'[r] = release[r] /\ logs'[r] = logs[r] /\ lease'[r] = lease[r]
<1>1. record'[r] = record[r] \/ <<record[r], record'[r]>> \in RecordSteps
  BY RecordMoves DEF RecordSteps
<1>2. record[r] \in {"success", "partial"} => release'[r] = release[r]
  <2>1. StatusCoupling /\ StatusCoupling'
    BY CouplingStep DEF PipelineInv
  <2>2. record[r] \in {"success", "partial"} => record'[r] = record[r]
    BY RecordMoves
  <2> QED
    BY <2>1, <2>2 DEF StatusCoupling
<1> QED
  BY <1>1, <1>2, WithdrawnStep, FinishedLogs, LeaseOfFinished

\* Whatever the loops left to each other, a release that was withdrawn and a
\* deploy that ended well stay as they are, and a record only moves forward
\* but for the failure of a loop that was given up too early (OutcomesLast).
THEOREM OutcomesAreLasting == Spec => OutcomesLast
<1>1. PipelineInv /\ [Next]_vars =>
        [\A r \in Release :
           /\ record'[r] = record[r] \/ <<record[r], record'[r]>> \in RecordSteps
           /\ release[r] \in {"rejected", "cancelled"} => release'[r] = release[r] /\ record'[r] = record[r]
           /\ record[r] \in {"success", "partial"} =>
                release'[r] = release[r] /\ logs'[r] = logs[r] /\ lease'[r] = lease[r]]_vars
  BY OutcomeStep
<1> QED
  BY <1>1, PipelineHolds, PTL DEF Spec, OutcomesLast

-----------------------------------------------------------------------------
(* The loops can always go on, and the deploys they work on run out.       *)

\* A set of numbers that is not empty has a least one.  The sets below its
\* members are finite, and of those there is a smallest.
LEMMA LeastNatural ==
  ASSUME NEW S \in SUBSET Nat, S # {}
  PROVE  \E n \in S : \A m \in S : n <= m
<1> DEFINE T == {0 .. n : n \in S}
           R == StrictSubsetOrdering(Nat)
<1>1. T # {} /\ T \subseteq FiniteSubsetsOf(Nat)
  <2>1. \A n \in S : IsFiniteSet(0 .. n) /\ 0 .. n \subseteq Nat
    BY FS_Interval
  <2> QED
    BY <2>1 DEF FiniteSubsetsOf
<1>2. \E x \in T : \A y \in T : <<y, x>> \notin R
  <2>1. IsWellFoundedOn(R, FiniteSubsetsOf(Nat))
    BY FS_StrictSubsetOrderingWellFounded
  <2> HIDE DEF R, T
  <2> QED
    BY <1>1, <2>1, WFMin
<1>3. PICK n \in S : \A m \in S : <<0 .. m, 0 .. n>> \notin R
  BY <1>2
<1>4. ASSUME NEW m \in S, m < n
      PROVE  FALSE
  <2>1. 0 .. m \subseteq 0 .. n /\ n \in 0 .. n /\ n \notin 0 .. m
    BY <1>4
  <2>2. <<0 .. m, 0 .. n>> \in R
    BY <2>1 DEF StrictSubsetOrdering
  <2> QED
    BY <1>3, <2>2
<1> QED
  BY <1>4

\* A target done is one target less.
LEMMA OneLess ==
  ASSUME NEW S, IsFiniteSet(S), NEW x \in S
  PROVE  Cardinality(S \ {x}) = Cardinality(S) - 1
BY FS_RemoveElement

\* A snapshot is finite, and so is what is left of it; a loop that is at a
\* target has one left.
TodoFits ==
  /\ \A r \in Release : IsFiniteSet(Snapshot(r))
  /\ \A w \in Worker :
       /\ IsFiniteSet(todo[w])
       /\ pc[w] \in {"execute", "executed"} => todo[w] # {}

\* A snapshot is written once, from the members of a target.
LEMMA SnapshotStep ==
  ASSUME PipelineInv, TodoFits, [Next]_vars, NEW r \in Release
  PROVE  IsFiniteSet(Snapshot(r)')
<1> USE DEF PipelineInv, TypeOK, StoreTypeOK
<1>1. ASSUME NEW w \in Worker, WorkerStep(w)
      PROVE  Snapshot(r)' = Snapshot(r)
  BY <1>1, WorkerLogs DEF Snapshot
<1>2. ASSUME NEW c \in Client, Handle(c)
      PROVE  IsFiniteSet(Snapshot(r)')
  <2>1. CASE ConfirmQueue(c) /\ subject[c] = r
    <3>1. PICK refs \in Memberships[TargetOf[r]] : ConfirmAndQueueRelease(r, refs)
      BY <2>1 DEF ConfirmQueue
    <3>2. IsFiniteSet(refs) /\ refs \subseteq Ref
      BY <3>1, StoreAssumption
    <3>3. Snapshot(r)' = refs
      BY <3>1, <3>2 DEF ConfirmAndQueueRelease, Snapshot
    <3> QED
      BY <3>2, <3>3
  <2>2. CASE ConfirmQueue(c) /\ subject[c] # r
    <3>1. logs'[r] = logs[r]
      BY <2>2 DEF ConfirmQueue, ConfirmAndQueueRelease
    <3> QED
      BY <3>1 DEF Snapshot, TodoFits
  <2>3. CASE ~ConfirmQueue(c)
    <3>1. logs' = logs
      BY <1>2, <2>3 DEF Handle, CreateBegin, CreateInsert, CreateReleaseRequest, ConfirmBegin,
         ConfirmPreflight, ConfirmAuthorize, RejectBegin, RejectUpdate, RejectRelease, CancelBegin,
         CancelUpdate, CancelRelease, CancelReadBack, WriteEvent, GiveUp, Begin, tables, storeVars
    <3> QED
      BY <3>1 DEF Snapshot, TodoFits
  <2> QED
    BY <2>1, <2>2, <2>3
<1>3. CASE \/ \E q \in Release : LeaseExpires(q)
           \/ Patch
  BY <1>3, QuietClock DEF Snapshot, TodoFits
<1>4. CASE UNCHANGED vars
  BY <1>4 DEF vars, storeVars, Snapshot, TodoFits
<1>5. IsFiniteSet(Snapshot(r))
  BY DEF TodoFits
<1>6. CASE \E w \in Worker : WorkerStep(w)
  BY <1>1, <1>5, <1>6
<1> QED
  BY <1>2, <1>3, <1>4, <1>6 DEF Next

\* What a step of a loop leaves it to do.
LEMMA TodoStep ==
  ASSUME PipelineInv, TodoFits, NEW w \in Worker, WorkerStep(w)
  PROVE  /\ IsFiniteSet(todo'[w])
         /\ pc'[w] \in {"execute", "executed"} => todo'[w] # {}
<1> USE DEF PipelineInv, TypeOK, StoreTypeOK, WorkerTypeOK
<1>0. IsFiniteSet(todo[w])
  BY DEF TodoFits
<1>1. CASE Claim(w)
  <2>1. pc'[w] = "start" /\ \E r \in Release : todo'[w] = Snapshot(r)
    BY <1>1 DEF Claim, Goto
  <2> QED
    BY <2>1 DEF TodoFits
<1>2. CASE FinishTarget(w)
  <2>1. pc'[w] = "logged"
    BY <1>2 DEF FinishTarget, Goto
  <2>2. PICK ref \in Ref : todo'[w] = todo[w] \ {ref}
    BY <1>2 DEF FinishTarget
  <2>3. IsFiniteSet(todo[w] \ {ref})
    BY <1>0, FS_RemoveElement
  <2> QED
    BY <2>1, <2>2, <2>3
<1>3. CASE SkipRest(w)
  BY <1>3, FS_EmptySet DEF SkipRest, Goto
<1>4. CASE \/ StartTarget(w)
           \/ Execute(w)
  BY <1>0, <1>4 DEF StartTarget, Execute, Goto, AtTarget
<1>5. CASE Heartbeat(w) \/ LoseHeartbeat(w)
  BY <1>0, <1>5 DEF Heartbeat, LoseHeartbeat, workerVars, TodoFits
<1>6. CASE \/ ClaimNothing(w)
           \/ TargetNotQueued(w)
           \/ Report(w)
           \/ StopOnLostHeartbeat(w)
           \/ Abandon(w)
  <2>1. Return(w)
    BY <1>6 DEF ClaimNothing, TargetNotQueued, Report, StopOnLostHeartbeat, Abandon
  <2> QED
    BY <2>1, FS_EmptySet DEF Return, Goto
<1>7. CASE \/ Recover(w)
           \/ AnnounceRecovered(w)
           \/ StartDeploy(w)
           \/ NoMoreTargets(w)
           \/ ReportTarget(w)
           \/ Finish(w)
  <2>1. todo'[w] = todo[w] /\ pc'[w] \notin {"execute", "executed"}
    BY <1>7 DEF Recover, AnnounceRecovered, StartDeploy, NoMoreTargets, ReportTarget, Finish, Goto
  <2> QED
    BY <1>0, <2>1
<1> QED
  BY <1>1, <1>2, <1>3, <1>4, <1>5, <1>6, <1>7 DEF WorkerStep, Progress

\* What is left to do is finite in every reachable state.
LEMMA TodoIsFit == Spec => []TodoFits
<1>1. Init => TodoFits
  <2> SUFFICES ASSUME Init
               PROVE  TodoFits
    OBVIOUS
  <2>1. /\ \A r \in Release : Snapshot(r) = {}
        /\ \A w \in Worker : todo[w] = {} /\ pc[w] = "recover"
    BY DEF Init, StoreInit, WorkerInit, Snapshot
  <2> QED
    BY <2>1, FS_EmptySet DEF TodoFits
<1>2. ASSUME PipelineInv, TodoFits, [Next]_vars
      PROVE  TodoFits'
  <2>1. ASSUME NEW v \in Worker
        PROVE  IsFiniteSet(todo'[v]) /\ (pc'[v] \in {"execute", "executed"} => todo'[v] # {})
    <3>1. CASE WorkerStep(v)
      BY <1>2, <3>1, TodoStep
    <3>2. ASSUME NEW w \in Worker, WorkerStep(w), w # v
          PROVE  todo'[v] = todo[v] /\ pc'[v] = pc[v]
      BY <1>2, <3>2, OthersLocals DEF PipelineInv
    <3>3. CASE UNCHANGED workerVars
      BY <1>2, <3>3 DEF workerVars, TodoFits
    <3> QED
      BY <1>2, <3>1, <3>2, <3>3 DEF Next, vars, TodoFits
  <2>2. \A r \in Release : IsFiniteSet(Snapshot(r)')
    BY <1>2, SnapshotStep
  <2> QED
    BY <2>1, <2>2 DEF TodoFits
<1> QED
  BY <1>1, <1>2, PipelineHolds, PTL DEF Spec

\* A loop with targets left is at the first of them, and among the deploys
\* that can be claimed one is the oldest.
LEMMA LoopsCanGoOn ==
  ASSUME PipelineInv, TodoFits
  PROVE  LoopsGoOn
<1> USE DEF PipelineInv, TypeOK, StoreTypeOK, WorkerTypeOK
<1>1. ASSUME NEW x \in Release, Claimable(x)
      PROVE  \E r \in Release : NextToClaim(r)
  <2> DEFINE S == {createdAt[r] : r \in {q \in Release : Claimable(q)}}
  <2>1. S \in SUBSET Nat /\ S # {}
    BY <1>1
  <2>2. PICK n \in S : \A m \in S : n <= m
    BY <2>1, LeastNatural
  <2>3. PICK r \in Release : Claimable(r) /\ createdAt[r] = n
    BY <2>2
  <2>4. ASSUME NEW q \in Release, Claimable(q)
        PROVE  createdAt[r] <= createdAt[q]
    BY <2>2, <2>3, <2>4
  <2> QED
    BY <2>3, <2>4 DEF NextToClaim
<1>2. ASSUME NEW w \in Worker, todo[w] # {}
      PROVE  \E ref \in Ref : AtTarget(w, ref)
  <2>1. todo[w] \in SUBSET Nat /\ todo[w] \subseteq Ref
    BY StoreAssumption
  <2>2. PICK n \in todo[w] : \A m \in todo[w] : n <= m
    BY <1>2, <2>1, LeastNatural
  <2> QED
    BY <2>1, <2>2 DEF AtTarget
<1> QED
  BY <1>1, <1>2 DEF LoopsGoOn, TodoFits

\* A record is running from its claim, which gives the lease; who takes the
\* lease away ends the record.
LEMMA LeaseStep ==
  ASSUME PipelineInv, RunningIsLeased, [Next]_vars
  PROVE  RunningIsLeased'
<1> USE DEF PipelineInv, TypeOK, StoreTypeOK, WorkerTypeOK
<1> SUFFICES ASSUME NEW r \in Release, record'[r] = "running"
             PROVE  lease'[r] \in {"live", "expired"}
  BY DEF RunningIsLeased
<1>1. record[r] = "running" => lease[r] \in {"live", "expired"}
  BY DEF RunningIsLeased
<1>2. ASSUME NEW w \in Worker, WorkerStep(w)
      PROVE  lease'[r] \in {"live", "expired"}
  <2>1. CASE Claim(w)
    <3>1. PICK x \in Release : ClaimDeploy(x)
      BY <2>1 DEF Claim
    <3>2. lease' = [lease EXCEPT ![x] = "live"] /\ record' = [record EXCEPT ![x] = "running"]
      BY <3>1 DEF ClaimDeploy
    <3> QED
      BY <1>1, <3>2
  <2>2. CASE Finish(w)
    <3>1. current[w] # r
      BY <2>2, OutcomeType DEF Finish, FinishDeploy, Executed
    <3> QED
      BY <1>1, <2>2, <3>1 DEF Finish, FinishDeploy
  <2>3. CASE Recover(w)
    BY <1>1, <2>3 DEF Recover, RecoverExpiredDeploys
  <2>4. CASE Heartbeat(w)
    <3>1. lease'[r] \in {"live", lease[r]} /\ record' = record
      BY <2>4 DEF Heartbeat, HeartbeatDeploy
    <3> QED
      BY <1>1, <3>1
  <2>5. ASSUME ~Claim(w), ~Finish(w), ~Recover(w), ~Heartbeat(w)
        PROVE  lease' = lease /\ record' = record
    BY <1>2, <2>5 DEF WorkerStep, Progress, AnnounceRecovered,
       ClaimNothing, StartDeploy, StartTarget, TargetNotQueued, NoMoreTargets, Execute, FinishTarget,
       ReportTarget, SkipRest, Report, StopOnLostHeartbeat, Abandon, LoseHeartbeat,
       MarkTargetRunning, MarkTargetFinished, MarkQueuedTargetsSkipped, tables, storeVars
  <2> QED
    BY <1>1, <2>1, <2>2, <2>3, <2>4, <2>5
<1>3. ASSUME NEW c \in Client, Handle(c)
      PROVE  lease'[r] \in {"live", "expired"}
  <2>1. lease' = lease
    BY <1>3 DEF Handle, CreateBegin, CreateInsert, CreateReleaseRequest, ConfirmBegin, ConfirmPreflight,
       ConfirmAuthorize, ConfirmQueue, ConfirmAndQueueRelease, RejectBegin, RejectUpdate, RejectRelease,
       CancelBegin, CancelUpdate, CancelRelease, CancelReadBack, WriteEvent, GiveUp, Begin, tables, storeVars
  <2>2. record[r] = "running"
    BY <1>3, ApiStep
  <2> QED
    BY <1>1, <2>1, <2>2
<1>4. ASSUME NEW q \in Release, LeaseExpires(q)
      PROVE  lease'[r] \in {"live", "expired"}
  BY <1>1, <1>4 DEF LeaseExpires
<1>5. CASE Patch
  BY <1>1, <1>5 DEF Patch, PatchEnvironment, PatchUser, tables, storeVars
<1>6. CASE UNCHANGED vars
  BY <1>1, <1>6 DEF vars, storeVars
<1> QED
  BY <1>2, <1>3, <1>4, <1>5, <1>6 DEF Next

\* The row a deploy leaves behind may be replaced by another, not removed.
LEMMA RowStep ==
  ASSUME PipelineInv, FinishedAreRecorded, [Next]_vars
  PROVE  FinishedAreRecorded'
<1> USE DEF PipelineInv, TypeOK, StoreTypeOK, WorkerTypeOK
<1> SUFFICES ASSUME NEW r \in Release, NEW ref \in Ref,
                    record'[r] \in {"success", "partial"}, logs'[r][ref] = "success"
             PROVE  state'[TargetOf[r]][ref] # NoRelease
  BY DEF FinishedAreRecorded
<1>0. TargetOf[r] \in Target /\ NoRelease \notin Release
  BY StoreAssumption
<1>1. ASSUME record[r] \in {"success", "partial"}
      PROVE  state[TargetOf[r]][ref] # NoRelease
  BY <1>1, FinishedLogs DEF FinishedAreRecorded
<1>2. ASSUME NEW w \in Worker, Finish(w)
      PROVE  state'[TargetOf[r]][ref] # NoRelease
  <2> DEFINE x == current[w]
  <2>1. x \in Release
    BY <1>2 DEF Finish, DeployInv, ExecutesClaimed, Executing
  <2>2. /\ record' = [record EXCEPT ![x] = Outcome(x)] /\ logs' = logs
        /\ state' = [state EXCEPT ![TargetOf[x]] =
                       [y \in Ref |-> IF y \in DeployedRefs(x) THEN x ELSE @[y]]]
    BY <1>2 DEF Finish, FinishDeploy
  <2> HIDE DEF x
  <2>3. CASE r = x
    <3>1. ref \in DeployedRefs(x)
      BY <2>2, <2>3 DEF DeployedRefs
    <3> QED
      BY <1>0, <2>1, <2>2, <2>3, <3>1
  <2>4. CASE r # x
    <3>1. state[TargetOf[r]][ref] # NoRelease
      BY <1>1, <2>1, <2>2, <2>4
    <3>2. state'[TargetOf[r]][ref] \in {x, state[TargetOf[r]][ref]}
      BY <1>0, <2>2
    <3> QED
      BY <1>0, <2>1, <3>1, <3>2
  <2> QED
    BY <2>3, <2>4
<1>3. CASE \A w \in Worker : ~Finish(w)
  BY <1>1, <1>3, OnlyFinish
<1> QED
  BY <1>2, <1>3

\* Everything the tables and the loops are to each other (ReleaseInv), for any
\* number of loops: beside the safety of the results, what the next tick needs
\* to find, a lease on every running record, and a loop that is never stuck.
THEOREM ReleaseHolds == Spec => []ReleaseInv
<1>1. Init => RunningIsLeased /\ FinishedAreRecorded
  BY DEF Init, StoreInit, RunningIsLeased, FinishedAreRecorded
<1>2. PipelineInv /\ RunningIsLeased /\ FinishedAreRecorded /\ [Next]_vars =>
        RunningIsLeased' /\ FinishedAreRecorded'
  BY LeaseStep, RowStep
<1>3. PipelineInv /\ TodoFits => LoopsGoOn
  BY LoopsCanGoOn
<1> QED
  BY <1>1, <1>2, <1>3, PipelineHolds, RecordsAreFit, TodoIsFit, PTL DEF Spec, ReleaseInv

\* Each step of a loop with its deploy brings it nearer to the end.
LEMMA RankStep ==
  ASSUME PipelineInv, TodoFits, NEW w \in Worker, WorkerStep(w), pc[w] \in Executing
  PROVE  /\ Rank(w)' <= Rank(w)
         /\ Progress(w) => Rank(w)' < Rank(w)
<1> USE DEF PipelineInv, TypeOK, StoreTypeOK, WorkerTypeOK
<1> DEFINE n == Cardinality(todo[w])
<1>1. IsFiniteSet(todo[w]) /\ n \in Nat /\ Cardinality({}) = 0
  BY FS_CardinalityType, FS_EmptySet DEF TodoFits
<1>2. Rank(w) \in Nat /\ Rank(w) > 0
  BY <1>1 DEF Rank, Executing
<1>3. ASSUME todo'[w] = todo[w]
      PROVE  /\ pc'[w] = "next" => Rank(w)' = 4 * n + 3
             /\ pc'[w] \in {"execute", "skip"} => Rank(w)' = 4 * n + 2
             /\ pc'[w] \in {"executed", "finish"} => Rank(w)' = 4 * n + 1
             /\ pc'[w] \notin Executing => Rank(w)' = 0
  BY <1>3 DEF Rank, Executing
<1>4. CASE \/ StartDeploy(w)
           \/ StartTarget(w)
           \/ NoMoreTargets(w)
           \/ Execute(w)
           \/ ReportTarget(w)
           \/ Finish(w)
  <2>1. /\ todo'[w] = todo[w]
        /\ <<pc[w], pc'[w]>> \in {<<"start", "next">>, <<"next", "execute">>, <<"next", "finish">>,
                                 <<"execute", "executed">>, <<"logged", "skip">>,
                                 <<"logged", "next">>, <<"finish", "report">>}
    BY <1>4 DEF StartDeploy, StartTarget, NoMoreTargets, Execute, ReportTarget, Finish, Goto
  <2>2. /\ pc[w] \in {"start", "logged"} => Rank(w) = 4 * n + 4
        /\ pc[w] = "next" => Rank(w) = 4 * n + 3
        /\ pc[w] = "execute" => Rank(w) = 4 * n + 2
        /\ pc[w] = "finish" => Rank(w) = 4 * n + 1
    BY DEF Rank
  <2>3. pc'[w] = "report" => Rank(w)' = 0
    BY <1>3, <2>1 DEF Executing
  <2> HIDE DEF n
  <2> QED
    BY <1>1, <1>3, <2>1, <2>2, <2>3
<1>5. CASE FinishTarget(w)
  <2>1. PICK ref \in todo[w] : todo'[w] = todo[w] \ {ref}
    BY <1>5 DEF FinishTarget, AtTarget
  <2>2. Cardinality(todo'[w]) = n - 1
    <3>1. Cardinality(todo[w] \ {ref}) = n - 1
      BY <1>1, OneLess
    <3> QED
      BY <2>1, <3>1
  <2>3. pc[w] = "executed" /\ pc'[w] = "logged"
    BY <1>5 DEF FinishTarget, Goto
  <2>4. Rank(w) = 4 * n + 1 /\ Rank(w)' = 4 * Cardinality(todo'[w]) + 4
    BY <2>3 DEF Rank
  <2> HIDE DEF n
  <2> QED
    BY <1>1, <2>2, <2>4
<1>6. CASE SkipRest(w)
  <2>1. pc[w] = "skip" /\ pc'[w] = "finish" /\ todo'[w] = {}
    BY <1>6 DEF SkipRest, Goto
  <2> QED
    BY <1>1, <2>1 DEF Rank
<1>7. CASE \/ TargetNotQueued(w)
           \/ StopOnLostHeartbeat(w)
           \/ Abandon(w)
  <2>1. pc'[w] = "recover"
    BY <1>7 DEF TargetNotQueued, StopOnLostHeartbeat, Abandon, Return, Goto
  <2>2. Rank(w)' = 0
    BY <2>1 DEF Rank
  <2> QED
    BY <1>2, <2>2
<1>8. CASE Heartbeat(w) \/ LoseHeartbeat(w)
  <2>1. UNCHANGED <<pc, todo>>
    BY <1>8 DEF Heartbeat, LoseHeartbeat, workerVars
  <2>2. Rank(w)' = Rank(w)
    BY <2>1 DEF Rank
  <2>3. ~Progress(w)
    BY <1>8, <2>1 DEF Progress, Recover, AnnounceRecovered, Claim, ClaimNothing, StartDeploy,
       StartTarget, TargetNotQueued, NoMoreTargets, Execute, FinishTarget, ReportTarget, SkipRest,
       Finish, Report, StopOnLostHeartbeat, Return, Goto
  <2> QED
    BY <1>2, <2>2, <2>3
<1>9. ~Recover(w) /\ ~AnnounceRecovered(w) /\ ~Claim(w) /\ ~ClaimNothing(w) /\ ~Report(w)
  BY DEF Recover, AnnounceRecovered, Claim, ClaimNothing, Report, Executing
<1> QED
  BY <1>4, <1>5, <1>6, <1>7, <1>8, <1>9 DEF WorkerStep, Progress

\* A claimed deploy comes to an end of itself: every step its loop takes with
\* it is one of a number fixed when it was claimed (DeploysRunOut), however
\* large the deploy and whoever else works on the tables.
THEOREM DeploysHaveAnEnd == Spec => DeploysRunOut
<1>1. ASSUME PipelineInv, TodoFits, [Next]_vars, NEW w \in Worker, pc[w] \in Executing
      PROVE  Rank(w)' <= Rank(w) /\ ((Progress(w) /\ ~UNCHANGED vars) => Rank(w)' < Rank(w))
  <2>1. Rank(w) \in Nat
    BY <1>1, FS_CardinalityType DEF Rank, Executing, TodoFits
  <2>2. CASE WorkerStep(w)
    BY <1>1, <2>2, RankStep
  <2>3. CASE ~WorkerStep(w)
    <3>1. pc'[w] = pc[w] /\ todo'[w] = todo[w]
      <4>1. ASSUME NEW v \in Worker, WorkerStep(v)
            PROVE  pc'[w] = pc[w] /\ todo'[w] = todo[w]
        BY <1>1, <2>3, <4>1, OthersLocals DEF PipelineInv
      <4>2. CASE UNCHANGED workerVars
        BY <4>2 DEF workerVars
      <4> QED
        BY <1>1, <4>1, <4>2 DEF Next, vars
    <3>2. Rank(w)' = Rank(w)
      BY <3>1 DEF Rank
    <3> QED
      BY <2>1, <2>3, <3>2 DEF WorkerStep
  <2> QED
    BY <2>2, <2>3
<1>2. PipelineInv /\ TodoFits /\ [Next]_vars =>
        [\A w \in Worker : pc[w] \in Executing =>
           Rank(w)' <= Rank(w) /\ (Progress(w) => Rank(w)' < Rank(w))]_vars
  BY <1>1
<1> QED
  BY <1>2, PipelineHolds, TodoIsFit, PTL DEF Spec, DeploysRunOut
=============================================================================
