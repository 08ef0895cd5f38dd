------------------------- MODULE K8sRolloutProofs ---------------------------
(***************************************************************************)
(* Proofs about K8sRollout, for every set of containers, of images and of  *)
(* things that may go missing.                                             *)
(***************************************************************************)
EXTENDS K8sRollout, TLAPS

USE RolloutAssumption

\* Every step is of one of these kinds.
Passes(c, at, found, next) == stage[c] = at /\ found /\ Goto(c, next) /\ UNCHANGED <<deployment, missing>>

Ends(c, result) == stage[c] \notin Ended /\ End(c, result) /\ UNCHANGED <<deployment, missing>>

ProbeStep(c) ==
  \/ Passes(c, "check_cluster", ClusterFound, "check_namespace")
  \/ Passes(c, "check_namespace", NamespaceFound, "check_deployment")
  \/ Passes(c, "check_deployment", ContainerFound(c), "ready")
  \/ Passes(c, "ready", asked[c] \in Digest, "cluster")
  \/ Passes(c, "cluster", ClusterFound, "namespace")
  \/ Passes(c, "namespace", NamespaceFound, "deployment")
  \/ Passes(c, "deployment", ContainerFound(c), "patch")

\* A step is external, it passes a check, it patches, it begins or it ends a
\* release.
LEMMA StepKinds ==
  ASSUME RolloutNext
  PROVE  \/ Controller
         \/ \E m \in Missing : Reconfigure(m)
         \/ \E c \in Container :
              \/ \E i \in Image : Preflight(c, i) \/ Overwrite(c, i)
              \/ ProbeStep(c) \/ Patch(c) \/ \E s \in Ended : Ends(c, s)
<1>1. ASSUME NEW c \in Container, Execute(c) \/ Work(c) \/ RequestFails(c) \/ Timeout(c) \/ Lose(c)
      PROVE  ProbeStep(c) \/ Patch(c) \/ \E s \in Ended : Ends(c, s)
  <2>1. CASE Execute(c)
    BY <2>1 DEF Execute, Probe, ProbeStep, Passes, Ends, Ended
  <2>2. CASE CheckCluster(c) \/ CheckNamespace(c) \/ CheckDeployment(c)
    BY <2>2 DEF CheckCluster, CheckNamespace, CheckDeployment, Probe, ProbeStep, Passes, Ends, Ended
  <2>3. CASE GetClient(c) \/ GetNamespace(c) \/ GetDeployment(c)
    BY <2>3 DEF GetClient, GetNamespace, GetDeployment, Probe, ProbeStep, Passes, Ends, Ended
  <2>4. CASE PollFails(c) \/ PollSucceeds(c)
    BY <2>4 DEF PollFails, PollSucceeds, Ends, Ended
  <2>5. CASE RequestFails(c) \/ Timeout(c) \/ Lose(c)
    BY <2>5 DEF RequestFails, Timeout, Lose, Ends, Ended, Remote, Executing
  <2>6. QED
    BY <1>1, <2>1, <2>2, <2>3, <2>4, <2>5 DEF Work
<1>2. QED
  BY <1>1 DEF RolloutNext

-----------------------------------------------------------------------------

LEMMA TypeInit == RolloutInit => RolloutTypeOK
<1> SUFFICES ASSUME RolloutInit PROVE RolloutTypeOK
  OBVIOUS
<1>1. image \in [Container -> Image] /\ rolled \in [Container -> Image] /\ live \in [Container -> Image]
  BY DEF RolloutInit
<1>2. /\ seen \in BOOLEAN /\ updated \in BOOLEAN /\ available \in BOOLEAN /\ failing \in BOOLEAN
      /\ disturbed \in [Container -> BOOLEAN] /\ overwritten \in [Container -> BOOLEAN]
  BY DEF RolloutInit
<1>3. /\ missing \subseteq Checked
      /\ stage \in [Container -> Ended \cup Checking \cup Executing]
      /\ asked \in [Container -> Image \cup {"none"}]
  BY DEF RolloutInit, Ended
<1>4. QED
  BY <1>1, <1>2, <1>3 DEF RolloutTypeOK

LEMMA TypeStep ==
  ASSUME RolloutTypeOK, FoundStaysFound, [RolloutNext]_vars
  PROVE  RolloutTypeOK'
<1>1. CASE Controller
  BY <1>1 DEF Controller, Observe, Progress, release, RolloutTypeOK
<1>2. ASSUME NEW m \in Missing, Reconfigure(m) PROVE RolloutTypeOK'
  BY <1>2 DEF Reconfigure, deployment, RolloutTypeOK
<1>3. ASSUME NEW c \in Container, NEW i \in Image, Preflight(c, i) PROVE RolloutTypeOK'
  BY <1>3 DEF Preflight, deployment, RolloutTypeOK, Checking
<1>4. ASSUME NEW c \in Container, NEW i \in Image, Overwrite(c, i) PROVE RolloutTypeOK'
  BY <1>4 DEF Overwrite, SetImage, RolloutTypeOK
<1>5. ASSUME NEW c \in Container, ProbeStep(c) PROVE RolloutTypeOK'
  BY <1>5 DEF ProbeStep, Passes, Goto, deployment, RolloutTypeOK, Checking, Executing
<1>6. ASSUME NEW c \in Container, Patch(c) PROVE RolloutTypeOK'
  <2>1. asked[c] \in Image
    BY <1>6 DEF Patch, FoundStaysFound, Ended
  <2>2. image' \in [Container -> Image] /\ seen' \in BOOLEAN /\ missing' \subseteq Checked
    BY <1>6, <2>1 DEF Patch, SetImage, RolloutTypeOK
  <2>3. stage' \in [Container -> Ended \cup Checking \cup Executing]
    BY <1>6 DEF Patch, Goto, End, RolloutTypeOK, Executing, Ended
  <2>4. asked' \in [Container -> Image \cup {"none"}]
    BY <1>6 DEF Patch, Goto, End, RolloutTypeOK
  <2>5. disturbed' \in [Container -> BOOLEAN] /\ overwritten' \in [Container -> BOOLEAN]
    BY <1>6 DEF Patch, Goto, End, RolloutTypeOK
  <2>6. QED
    BY <1>6, <2>2, <2>3, <2>4, <2>5 DEF Patch, SetImage, RolloutTypeOK
<1>7. ASSUME NEW c \in Container, NEW s \in Ended, Ends(c, s) PROVE RolloutTypeOK'
  BY <1>7 DEF Ends, End, deployment, RolloutTypeOK
<1>8. CASE UNCHANGED vars
  BY <1>8 DEF vars, deployment, release, RolloutTypeOK
<1>9. QED
  BY <1>1, <1>2, <1>3, <1>4, <1>5, <1>6, <1>7, <1>8, StepKinds

LEMMA StatusStep ==
  ASSUME RolloutTypeOK, StatusIsOfTemplate, [RolloutNext]_vars
  PROVE  StatusIsOfTemplate'
<1>1. CASE Controller
  <2>1. CASE Observe
    BY <2>1 DEF Observe, StatusIsOfTemplate
  <2>2. CASE Progress
    BY <2>2 DEF Progress, StatusIsOfTemplate
  <2>3. QED
    BY <1>1, <2>1, <2>2 DEF Controller
<1>2. ASSUME NEW c \in Container, NEW i \in Image, SetImage(c, i) PROVE StatusIsOfTemplate'
  <2>1. seen' => seen /\ image' = image
    BY <1>2 DEF SetImage, RolloutTypeOK
  <2>2. QED
    BY <1>2, <2>1 DEF SetImage, StatusIsOfTemplate
<1>3. ASSUME UNCHANGED deployment PROVE StatusIsOfTemplate'
  BY <1>3 DEF deployment, StatusIsOfTemplate
<1>4. ASSUME NEW c \in Container, Patch(c) PROVE StatusIsOfTemplate'
  <2>1. seen' => seen /\ image' = image
    BY <1>4 DEF Patch, SetImage, RolloutTypeOK
  <2>2. QED
    BY <1>4, <2>1 DEF Patch, SetImage, StatusIsOfTemplate
<1>5. QED
  BY <1>1, <1>2, <1>3, <1>4, StepKinds
  DEF vars, Reconfigure, Preflight, Overwrite, ProbeStep, Passes, Ends

LEMMA WaitStep ==
  ASSUME RolloutTypeOK, WaitsForItsImage, [RolloutNext]_vars
  PROVE  WaitsForItsImage'
<1> SUFFICES ASSUME NEW c \in Container, stage'[c] = "wait"
             PROVE  image'[c] = asked'[c] \/ overwritten'[c]
  BY DEF WaitsForItsImage
<1>1. CASE Controller \/ (\E m \in Missing : Reconfigure(m)) \/ UNCHANGED vars
  BY <1>1 DEF Controller, Observe, Progress, Reconfigure, vars, release, deployment, WaitsForItsImage
<1>2. ASSUME NEW d \in Container, NEW i \in Image, Overwrite(d, i)
      PROVE  image'[c] = asked'[c] \/ overwritten'[c]
  BY <1>2 DEF Overwrite, SetImage, RolloutTypeOK, WaitsForItsImage
<1>3. ASSUME NEW d \in Container, NEW i \in Image, Preflight(d, i)
      PROVE  image'[c] = asked'[c] \/ overwritten'[c]
  BY <1>3 DEF Preflight, deployment, RolloutTypeOK, WaitsForItsImage
<1>4. ASSUME NEW d \in Container, ProbeStep(d)
      PROVE  image'[c] = asked'[c] \/ overwritten'[c]
  BY <1>4 DEF ProbeStep, Passes, Goto, deployment, RolloutTypeOK, WaitsForItsImage
<1>5. ASSUME NEW d \in Container, Patch(d)
      PROVE  image'[c] = asked'[c] \/ overwritten'[c]
  <2>1. CASE c = d
    BY <1>5, <2>1 DEF Patch, SetImage, Goto, End, RolloutTypeOK
  <2>2. CASE c # d
    BY <1>5, <2>2 DEF Patch, SetImage, Goto, End, RolloutTypeOK, WaitsForItsImage
  <2>3. QED
    BY <2>1, <2>2
<1>6. ASSUME NEW d \in Container, NEW s \in Ended, Ends(d, s)
      PROVE  image'[c] = asked'[c] \/ overwritten'[c]
  BY <1>6 DEF Ends, End, Ended, deployment, RolloutTypeOK, WaitsForItsImage
<1>7. QED
  BY <1>1, <1>2, <1>3, <1>4, <1>5, <1>6, StepKinds

-----------------------------------------------------------------------------

\* What is known of one container's release.
Found(c) ==
  /\ stage[c] \notin Ended => asked[c] \in Digest
  /\ stage[c] \notin Ended /\ ~disturbed[c] =>
       /\ stage[c] # "check_cluster" => ClusterFound
       /\ stage[c] \notin {"check_cluster", "check_namespace"} => NamespaceFound
       /\ stage[c] \in {"ready"} \cup Executing => ContainerFound(c)

\* Nothing went missing, and the release is where it was.
LEMMA StaysFound ==
  ASSUME NEW c \in Container, Found(c), missing' \subseteq missing,
         stage'[c] = stage[c], asked'[c] = asked[c], disturbed'[c] = disturbed[c]
  PROVE  Found(c)'
BY DEF Found, ClusterFound, NamespaceFound, ContainerFound, DeploymentFound

LEMMA FoundStep ==
  ASSUME RolloutTypeOK, FoundStaysFound, [RolloutNext]_vars
  PROVE  FoundStaysFound'
<1> SUFFICES ASSUME NEW c \in Container PROVE Found(c)'
  BY DEF FoundStaysFound, Found
<1>0. Found(c)
  BY DEF FoundStaysFound, Found
<1>1. CASE Controller \/ UNCHANGED vars
  BY <1>0, <1>1, StaysFound DEF Controller, vars, release
<1>2. ASSUME NEW m \in Missing, Reconfigure(m) PROVE Found(c)'
  <2>1. CASE m \subseteq missing \/ disturbed[c] \/ stage[c] \in Ended
    BY <1>0, <1>2, <2>1
    DEF Reconfigure, RolloutTypeOK, Found, ClusterFound, NamespaceFound, ContainerFound, DeploymentFound
  <2>2. CASE ~(m \subseteq missing) /\ stage[c] \notin Ended
    BY <1>0, <1>2, <2>2 DEF Reconfigure, RolloutTypeOK, Found
  <2>3. QED
    BY <2>1, <2>2
<1>3. ASSUME NEW d \in Container, NEW i \in Image, Overwrite(d, i) PROVE Found(c)'
  BY <1>0, <1>3, StaysFound DEF Overwrite
<1>4. ASSUME NEW d \in Container, NEW i \in Image, Preflight(d, i) PROVE Found(c)'
  <2>1. CASE c = d
    BY <1>4, <2>1 DEF Preflight, RolloutTypeOK, Found, Executing
  <2>2. CASE c # d
    BY <1>0, <1>4, <2>2, StaysFound DEF Preflight, RolloutTypeOK
  <2>3. QED
    BY <2>1, <2>2
<1>5. ASSUME NEW d \in Container, ProbeStep(d) PROVE Found(c)'
  <2>1. CASE c = d
    <3>1. missing' = missing /\ asked' = asked /\ disturbed' = disturbed /\ stage[c] \notin Ended
      BY <1>5, <2>1 DEF ProbeStep, Passes, Goto, Ended
    <3>2. /\ ClusterFound' = ClusterFound
          /\ NamespaceFound' = NamespaceFound
          /\ ContainerFound(c)' = ContainerFound(c)
      BY <3>1 DEF ClusterFound, NamespaceFound, ContainerFound, DeploymentFound
    <3>3. PICK s : /\ stage' = [stage EXCEPT ![c] = s]
                   /\ \/ stage[c] = "check_cluster" /\ s = "check_namespace" /\ ClusterFound
                      \/ stage[c] = "check_namespace" /\ s = "check_deployment" /\ NamespaceFound
                      \/ stage[c] = "check_deployment" /\ s = "ready" /\ ContainerFound(c)
                      \/ stage[c] \in {"ready"} \cup Executing /\ s \in Executing
      BY <1>5, <2>1 DEF ProbeStep, Passes, Goto, Executing
    <3>4. stage'[c] = s
      BY <3>3 DEF RolloutTypeOK
    <3>5. QED
      BY <1>0, <3>1, <3>2, <3>3, <3>4 DEF Found, Executing
  <2>2. CASE c # d
    BY <1>0, <1>5, <2>2, StaysFound DEF ProbeStep, Passes, Goto, RolloutTypeOK
  <2>3. QED
    BY <2>1, <2>2
<1>6. ASSUME NEW d \in Container, Patch(d) PROVE Found(c)'
  <2>1. CASE c = d /\ End(d, "failed")
    BY <2>1 DEF End, RolloutTypeOK, Found, Ended
  <2>2. CASE c = d /\ Goto(d, "wait")
    <3>1. stage[c] = "patch" /\ stage'[c] = "wait" /\ asked' = asked /\ disturbed' = disturbed
      BY <1>6, <2>2 DEF Patch, Goto, RolloutTypeOK
    <3>2. missing' \subseteq missing
      BY <1>6 DEF Patch
    <3>3. QED
      BY <1>0, <3>1, <3>2
      DEF Found, Ended, Executing, ClusterFound, NamespaceFound, ContainerFound, DeploymentFound
  <2>3. CASE c # d
    BY <1>0, <1>6, <2>3, StaysFound DEF Patch, Goto, End, RolloutTypeOK
  <2>4. QED
    BY <1>6, <2>1, <2>2, <2>3 DEF Patch
<1>7. ASSUME NEW d \in Container, NEW s \in Ended, Ends(d, s) PROVE Found(c)'
  <2>1. CASE c = d
    BY <1>7, <2>1 DEF Ends, End, RolloutTypeOK, Found
  <2>2. CASE c # d
    BY <1>0, <1>7, <2>2, StaysFound DEF Ends, End, RolloutTypeOK
  <2>3. QED
    BY <2>1, <2>2
<1>8. QED
  BY <1>1, <1>2, <1>3, <1>4, <1>5, <1>6, <1>7, StepKinds

-----------------------------------------------------------------------------

\* What is known at each stage of an execution holds throughout.
THEOREM RolloutHolds == RolloutSpec => []RolloutInv
<1>1. RolloutInit => RolloutInv
  BY TypeInit
  DEF RolloutInit, RolloutInv, StatusIsOfTemplate, WaitsForItsImage, FoundStaysFound, Ended
<1>2. RolloutInv /\ [RolloutNext]_vars => RolloutInv'
  BY TypeStep, StatusStep, WaitStep, FoundStep DEF RolloutInv
<1>3. QED
  BY <1>1, <1>2, PTL DEF RolloutSpec

\* A step of a release is the only one to change its stage.
LEMMA OwnStage ==
  ASSUME RolloutTypeOK, [RolloutNext]_vars, NEW c \in Container, stage'[c] # stage[c]
  PROVE  \/ \E i \in Image : Preflight(c, i) \/ Overwrite(c, i)
         \/ Execute(c) \/ Work(c) \/ RequestFails(c) \/ Timeout(c) \/ Lose(c)
<1>1. PICK d \in Container :
        \/ \E i \in Image : Preflight(d, i) \/ Overwrite(d, i)
        \/ Execute(d) \/ Work(d) \/ RequestFails(d) \/ Timeout(d) \/ Lose(d)
  BY DEF RolloutNext, Controller, Reconfigure, vars, release
<1>2. ASSUME NEW at, NEW found, NEW next, NEW otherwise, Probe(d, at, found, next, otherwise)
      PROVE  \E s : stage' = [stage EXCEPT ![d] = s]
  BY <1>2 DEF Probe, Goto, End
<1>3. Execute(d) => \E s : stage' = [stage EXCEPT ![d] = s]
  BY <1>2 DEF Execute
<1>4. CheckCluster(d) \/ CheckNamespace(d) \/ CheckDeployment(d) => \E s : stage' = [stage EXCEPT ![d] = s]
  BY <1>2 DEF CheckCluster, CheckNamespace, CheckDeployment
<1>5. GetClient(d) \/ GetNamespace(d) \/ GetDeployment(d) => \E s : stage' = [stage EXCEPT ![d] = s]
  BY <1>2 DEF GetClient, GetNamespace, GetDeployment
<1>6. Patch(d) \/ PollFails(d) \/ PollSucceeds(d) => \E s : stage' = [stage EXCEPT ![d] = s]
  BY DEF Patch, PollFails, PollSucceeds, Goto, End
<1>7. RequestFails(d) \/ Timeout(d) \/ Lose(d) => \E s : stage' = [stage EXCEPT ![d] = s]
  BY DEF RequestFails, Timeout, Lose, End
<1>8. (\E i \in Image : Preflight(d, i)) => \E s : stage' = [stage EXCEPT ![d] = s]
  BY DEF Preflight
<1>9. ~\E i \in Image : Overwrite(d, i)
  BY DEF Overwrite
<1>10. c = d
  BY <1>1, <1>3, <1>4, <1>5, <1>6, <1>7, <1>8, <1>9 DEF Work, RolloutTypeOK
<1>11. QED
  BY <1>1, <1>10

\* SuccessMeansRolledOut: an execution that answers success has rolled its
\* image out to all replicas, whoever patched the other containers meanwhile.
THEOREM SuccessIsRolledOut == RolloutSpec => SuccessMeansRolledOut
<1>1. ASSUME RolloutInv, [RolloutNext]_vars, NEW c \in Container,
             stage[c] \notin Ended, stage'[c] = "success"
      PROVE  live[c] = asked[c] \/ overwritten[c]
  <2>1. PollSucceeds(c)
    <3>1. stage'[c] # stage[c]
      BY <1>1 DEF Ended
    <3>2. \/ \E i \in Image : Preflight(c, i) \/ Overwrite(c, i)
          \/ Execute(c) \/ Work(c) \/ RequestFails(c) \/ Timeout(c) \/ Lose(c)
      BY <1>1, <3>1, OwnStage DEF RolloutInv
    <3>3. ~(\E i \in Image : Preflight(c, i) \/ Overwrite(c, i)) /\ ~(RequestFails(c) \/ Timeout(c) \/ Lose(c))
      BY <1>1, <3>1 DEF Preflight, Overwrite, RequestFails, Timeout, Lose, End, RolloutInv, RolloutTypeOK
    <3>4. ~(Execute(c) \/ CheckCluster(c) \/ CheckNamespace(c) \/ CheckDeployment(c))
      BY <1>1 DEF Execute, CheckCluster, CheckNamespace, CheckDeployment, Probe, Goto, End, RolloutInv, RolloutTypeOK
    <3>5. ~(GetClient(c) \/ GetNamespace(c) \/ GetDeployment(c) \/ Patch(c) \/ PollFails(c))
      BY <1>1
      DEF GetClient, GetNamespace, GetDeployment, Probe, Patch, PollFails, Goto, End, RolloutInv, RolloutTypeOK
    <3>6. QED
      BY <3>2, <3>3, <3>4, <3>5 DEF Work
  <2>2. live = image
    BY <1>1, <2>1 DEF PollSucceeds, RolloutComplete, RolloutInv, StatusIsOfTemplate
  <2>3. QED
    BY <1>1, <2>1, <2>2 DEF PollSucceeds, RolloutInv, WaitsForItsImage
<1>2. RolloutInv /\ [RolloutNext]_vars =>
        [\A c \in Container :
           stage[c] \notin Ended /\ stage'[c] = "success" => live[c] = asked[c] \/ overwritten[c]]_vars
  BY <1>1
<1>3. QED
  BY <1>2, RolloutHolds, PTL DEF RolloutSpec, SuccessMeansRolledOut

\* PreflightPredicts: a release that passed its preflight fails for its
\* configuration only when something went missing after it.
THEOREM PreflightIsReliable == RolloutSpec => PreflightPredicts
<1>1. ASSUME RolloutInv, [RolloutNext]_vars, NEW c \in Container,
             stage[c] \notin Ended, stage'[c] = "misconfigured"
      PROVE  disturbed[c]
  <2>1. /\ stage[c] # stage'[c]
        /\ asked[c] \in Digest
        /\ disturbed[c] \in BOOLEAN
    BY <1>1 DEF Ended, RolloutInv, RolloutTypeOK, FoundStaysFound
  <2>2. \/ \E i \in Image : Preflight(c, i) \/ Overwrite(c, i)
        \/ Execute(c) \/ Work(c) \/ RequestFails(c) \/ Timeout(c) \/ Lose(c)
    BY <1>1, <2>1, OwnStage DEF RolloutInv
  <2>3. ~(\E i \in Image : Preflight(c, i) \/ Overwrite(c, i)) /\ ~(RequestFails(c) \/ Timeout(c) \/ Lose(c))
    BY <1>1, <2>1 DEF Preflight, Overwrite, RequestFails, Timeout, Lose, End, RolloutInv, RolloutTypeOK
  <2>4. ~(Execute(c) \/ CheckCluster(c) \/ CheckNamespace(c) \/ CheckDeployment(c))
    BY <1>1, <2>1
    DEF Execute, CheckCluster, CheckNamespace, CheckDeployment, Probe, Goto, End, RolloutInv, RolloutTypeOK
  <2>5. ~(Patch(c) \/ PollFails(c) \/ PollSucceeds(c))
    BY <1>1 DEF Patch, PollFails, PollSucceeds, Goto, End, RolloutInv, RolloutTypeOK
  <2>6. CASE GetClient(c)
    BY <1>1, <2>6 DEF GetClient, Probe, Goto, RolloutInv, RolloutTypeOK, FoundStaysFound
  <2>7. CASE GetNamespace(c)
    BY <1>1, <2>7 DEF GetNamespace, Probe, Goto, RolloutInv, RolloutTypeOK, FoundStaysFound
  <2>8. CASE GetDeployment(c)
    BY <1>1, <2>8 DEF GetDeployment, Probe, Goto, RolloutInv, RolloutTypeOK, FoundStaysFound, Executing
  <2>9. QED
    BY <2>2, <2>3, <2>4, <2>5, <2>6, <2>7, <2>8 DEF Work
<1>2. RolloutInv /\ [RolloutNext]_vars =>
        [\A c \in Container :
           stage[c] \notin Ended /\ stage'[c] = "misconfigured" => disturbed[c]]_vars
  BY <1>1
<1>3. QED
  BY <1>2, RolloutHolds, PTL DEF RolloutSpec, PreflightPredicts

\* The cluster and the executions keep their types (RolloutTypeOK).
THEOREM RolloutTypeCorrect == RolloutSpec => []RolloutTypeOK
<1>1. RolloutInv => RolloutTypeOK
  BY DEF RolloutInv
<1> QED
  BY <1>1, RolloutHolds, PTL
=============================================================================
