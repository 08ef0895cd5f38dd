---------------------------- MODULE K8sRollout ------------------------------
(***************************************************************************)
(* Deploying to Kubernetes: the preflight check of a target, and K8s       *)
(* .Execute, which makes the same checks again, patches the image of one   *)
(* container and polls the Deployment until the rollout has an end         *)
(* (internal/executor/k8s.go).                                             *)
(*                                                                         *)
(* The targets are the containers of one Deployment.  A target has one     *)
(* execution at a time (ReleaseSystem's TargetExclusive), but those of the *)
(* Deployment's other containers change the same object.  The Deployment   *)
(* controller, and whoever else edits the cluster, are external.  The      *)
(* database is taken to answer.                                            *)
(***************************************************************************)
EXTENDS Naturals

CONSTANTS
  Container,   \* the containers of the Deployment, each deployed by a target
  Image,       \* the artifact_url of the versions
  Digest,      \* those that are immutable references
  Shared,      \* the containers that other hands may set
  Missing      \* the sets of things that may be missing at the same time

\* What is checked before the patch: the cluster with its kubeconfig, the
\* namespace, the Deployment, and a container of it.
Checked == {"cluster", "namespace", "deployment"} \cup Container

ASSUME RolloutAssumption ==
  /\ Digest \subseteq Image
  /\ "none" \notin Image
  /\ Shared \subseteq Container
  /\ Missing \subseteq SUBSET Checked

VARIABLES
  image,      \* spec.template: the image of each container
  seen,       \* status.observedGeneration >= metadata.generation
  rolled,     \* the template the controller is rolling out
  updated,    \* status.updatedReplicas >= spec.replicas
  available,  \* availableReplicas >= replicas and no unavailable replicas
  failing,    \* the condition Progressing is False
  live,       \* history: the template that last had all its replicas
  missing,    \* what is not there, disabled or not readable
  stage,      \* where a target's release is, or how its last one ended
  asked,      \* the image it deploys
  disturbed,  \* history: something went missing since its preflight began
  overwritten \* history: someone else set its container's image meanwhile

deployment == <<image, seen, rolled, updated, available, failing, live>>
release == <<stage, asked, disturbed, overwritten>>
vars == <<deployment, missing, release>>

\* "misconfigured" stands for the codes image_invalid, cluster_not_available
\* and namespace_, deployment_ and container_not_found; "failed" for
\* rollout_failed, rollout_timeout, permission_denied and executor_error.
Ended == {"idle", "success", "failed", "misconfigured"}
Checking == {"check_cluster", "check_namespace", "check_deployment", "ready"}
Executing == {"cluster", "namespace", "deployment", "patch", "wait"}
Remote == Executing \ {"cluster"}

RolloutInit ==
  /\ \E i \in Image : image = [c \in Container |-> i]
  /\ rolled = image /\ live = image
  /\ seen = TRUE /\ updated = TRUE /\ available = TRUE /\ failing = FALSE
  /\ missing = {}
  /\ stage = [c \in Container |-> "idle"]
  /\ asked = [c \in Container |-> "none"]
  /\ disturbed = [c \in Container |-> FALSE]
  /\ overwritten = [c \in Container |-> FALSE]

-----------------------------------------------------------------------------

Goto(c, s) == stage' = [stage EXCEPT ![c] = s] /\ UNCHANGED <<asked, disturbed, overwritten>>

\* The release is over; what was noted about it is forgotten.
End(c, result) ==
  /\ stage' = [stage EXCEPT ![c] = result]
  /\ asked' = [asked EXCEPT ![c] = "none"]
  /\ disturbed' = [disturbed EXCEPT ![c] = FALSE]
  /\ overwritten' = [overwritten EXCEPT ![c] = FALSE]

\* clientForTarget: the cluster and its credential are there and enabled.
ClusterFound == "cluster" \notin missing

NamespaceFound == "namespace" \notin missing

DeploymentFound == {"namespace", "deployment"} \cap missing = {}

\* Deployments.Get and deploymentHasContainer.
ContainerFound(c) == DeploymentFound /\ c \notin missing

-----------------------------------------------------------------------------
(* The preflight: what it finds missing blocks the release. *)

Preflight(c, i) ==
  /\ stage[c] \in Ended
  /\ i \in Digest
  /\ stage' = [stage EXCEPT ![c] = "check_cluster"]
  /\ asked' = [asked EXCEPT ![c] = i]
  /\ UNCHANGED <<disturbed, overwritten, deployment, missing>>

\* One of the checks, of the preflight or of the execution.
Probe(c, at, found, next, otherwise) ==
  /\ stage[c] = at
  /\ IF found THEN Goto(c, next) ELSE End(c, otherwise)
  /\ UNCHANGED <<deployment, missing>>

CheckCluster(c) == Probe(c, "check_cluster", ClusterFound, "check_namespace", "idle")
CheckNamespace(c) == Probe(c, "check_namespace", NamespaceFound, "check_deployment", "idle")

\* Mutant: the preflight does not look for the container.
CheckDeployment_AnyContainer(c) == Probe(c, "check_deployment", DeploymentFound, "ready", "idle")

CheckDeployment(c) == Probe(c, "check_deployment", ContainerFound(c), "ready", "idle")

-----------------------------------------------------------------------------
(* The execution. *)

\* The digest is looked at before anything remote.
Execute(c) == Probe(c, "ready", asked[c] \in Digest, "cluster", "misconfigured")

GetClient(c) == Probe(c, "cluster", ClusterFound, "namespace", "misconfigured")
GetNamespace(c) == Probe(c, "namespace", NamespaceFound, "deployment", "misconfigured")
GetDeployment(c) == Probe(c, "deployment", ContainerFound(c), "patch", "misconfigured")

\* Mutant: the name and the image of the container are swapped in the patch.
SetImage_Swapped(c, i) ==
  /\ image' = [x \in Container \cup {i} |-> IF x = i THEN c ELSE image[x]]
  /\ seen' = FALSE
  /\ UNCHANGED <<rolled, updated, available, failing, live>>

\* The generation grows when the template changes.
SetImage(c, i) ==
  /\ image' = [image EXCEPT ![c] = i]
  /\ seen' = (seen /\ image[c] = i)
  /\ UNCHANGED <<rolled, updated, available, failing, live>>

\* The patch, a strategic merge, also adds a container that is no longer
\* there.  Its answer may be lost.
Patch(c) ==
  /\ stage[c] = "patch"
  /\ DeploymentFound
  /\ SetImage(c, asked[c])
  /\ missing' = missing \ {c}
  /\ Goto(c, "wait") \/ End(c, "failed")

\* Mutant: the generation the controller has seen is not looked at.
RolloutComplete_AnyGeneration == updated /\ available

RolloutComplete == seen /\ updated /\ available

\* rolloutFailed looks at the condition alone.
RolloutFailed == failing

\* A poll of the Deployment; the failure is looked at first.
PollFails(c) ==
  /\ stage[c] = "wait"
  /\ DeploymentFound /\ RolloutFailed
  /\ End(c, "failed")
  /\ UNCHANGED <<deployment, missing>>

PollSucceeds(c) ==
  /\ stage[c] = "wait"
  /\ DeploymentFound /\ ~RolloutFailed /\ RolloutComplete
  /\ End(c, "success")
  /\ UNCHANGED <<deployment, missing>>

\* A request to the cluster fails: also because what it asks for is gone, it
\* is not permitted, or the cluster does not answer.
RequestFails(c) ==
  /\ stage[c] \in Remote
  /\ End(c, "failed")
  /\ UNCHANGED <<deployment, missing>>

\* Mutant: the polls do not look at the context.
Timeout_NotWhilePolling(c) ==
  /\ stage[c] \in Remote \ {"wait"}
  /\ End(c, "failed")
  /\ UNCHANGED <<deployment, missing>>

\* The deadline of timeout_seconds passes during a request or between polls.
Timeout(c) ==
  /\ stage[c] \in Remote
  /\ End(c, "failed")
  /\ UNCHANGED <<deployment, missing>>

\* The release is blocked, rejected or cancelled, or its worker is lost.
Lose(c) ==
  /\ stage[c] \notin Ended
  /\ End(c, "idle")
  /\ UNCHANGED <<deployment, missing>>

-----------------------------------------------------------------------------
(* External: the controller, and other hands. *)

\* A new template is a new ReplicaSet, which is progressing.
Observe ==
  /\ ~seen
  /\ seen' = TRUE
  /\ rolled' = image
  /\ updated' = (updated /\ rolled = image)
  /\ failing' = (failing /\ rolled = image)
  /\ UNCHANGED <<image, available, live>>

\* Pods come and go, and the deadline for progress may pass.
Progress ==
  /\ updated' \in {updated, TRUE}
  /\ available' \in BOOLEAN
  /\ failing' \in (IF updated' /\ available' THEN {FALSE} ELSE {failing, TRUE})
  /\ live' = IF updated' /\ available' THEN rolled ELSE live
  /\ UNCHANGED <<image, seen, rolled>>

Controller == (Observe \/ Progress) /\ UNCHANGED <<missing, release>>

\* Inventory requests and edits of the cluster.
Reconfigure(m) ==
  /\ missing' = m
  /\ disturbed' = [c \in Container |->
                     disturbed[c] \/ (stage[c] \notin Ended /\ ~(m \subseteq missing))]
  /\ UNCHANGED <<deployment, stage, asked, overwritten>>

\* Another tool, or another target that names the same container.
Overwrite(c, i) ==
  /\ c \in Shared
  /\ image[c] # i
  /\ SetImage(c, i)
  /\ overwritten' = [overwritten EXCEPT ![c] = (stage[c] = "wait")]
  /\ UNCHANGED <<missing, stage, asked, disturbed>>

-----------------------------------------------------------------------------

Work(c) ==
  \/ CheckCluster(c) \/ CheckNamespace(c) \/ CheckDeployment(c)
  \/ GetClient(c) \/ GetNamespace(c) \/ GetDeployment(c)
  \/ Patch(c) \/ PollFails(c) \/ PollSucceeds(c)

RolloutNext ==
  \/ Controller
  \/ \E m \in Missing : Reconfigure(m)
  \/ \E c \in Container :
       \/ \E i \in Image : Preflight(c, i) \/ Overwrite(c, i)
       \/ Execute(c) \/ Work(c) \/ RequestFails(c) \/ Timeout(c) \/ Lose(c)

\* A request that can be answered is, and the deadline passes: the context of
\* Execute ends every request and every wait.
RolloutFairness == \A c \in Container : WF_vars(Work(c)) /\ WF_vars(Timeout(c))

RolloutSpec == RolloutInit /\ [][RolloutNext]_vars /\ RolloutFairness

-----------------------------------------------------------------------------

\* The Deployment and the releases to it have their types.
RolloutTypeOK ==
  /\ image \in [Container -> Image] /\ rolled \in [Container -> Image] /\ live \in [Container -> Image]
  /\ seen \in BOOLEAN /\ updated \in BOOLEAN /\ available \in BOOLEAN /\ failing \in BOOLEAN
  /\ missing \subseteq Checked
  /\ stage \in [Container -> Ended \cup Checking \cup Executing]
  /\ asked \in [Container -> Image \cup {"none"}]
  /\ disturbed \in [Container -> BOOLEAN] /\ overwritten \in [Container -> BOOLEAN]

\* An execution that answers success has rolled its image out to all
\* replicas: the status it read is not that of an earlier template, whoever
\* patched the Deployment's other containers meanwhile.
SuccessMeansRolledOut ==
  [][\A c \in Container :
       stage[c] \notin Ended /\ stage'[c] = "success" => live[c] = asked[c] \/ overwritten[c]]_vars

\* A release that passed its preflight fails for its configuration only when
\* something went missing after it.
PreflightPredicts ==
  [][\A c \in Container :
       stage[c] \notin Ended /\ stage'[c] = "misconfigured" => disturbed[c]]_vars

\* An execution ends, also when the rollout does not.
ExecutionAnswers == \A c \in Container : stage[c] \in Executing ~> stage[c] \in Ended

-----------------------------------------------------------------------------
(* Why the answers are right: what is known at each stage.                 *)

\* The status that has been seen is that of the template.
StatusIsOfTemplate ==
  /\ seen => rolled = image
  /\ updated /\ available => live = rolled

\* While an execution waits, its image is in the template.
WaitsForItsImage == \A c \in Container : stage[c] = "wait" => image[c] = asked[c] \/ overwritten[c]

\* What a stage has behind it stays found unless something went missing.
FoundStaysFound ==
  \A c \in Container :
    /\ stage[c] \notin Ended => asked[c] \in Digest
    /\ stage[c] \notin Ended /\ ~disturbed[c] =>
         /\ stage[c] # "check_cluster" => ClusterFound
         /\ stage[c] \notin {"check_cluster", "check_namespace"} => NamespaceFound
         /\ stage[c] \in {"ready"} \cup Executing => ContainerFound(c)

RolloutInv == RolloutTypeOK /\ StatusIsOfTemplate /\ WaitsForItsImage /\ FoundStaysFound

-----------------------------------------------------------------------------
(* What the documentation says and the code does not do.                   *)

\* rollout_failed is said of a Deployment that failed to roll the patch out.
FailureIsOfThisRollout == [][\A c \in Container : PollFails(c) => seen]_vars
=============================================================================
