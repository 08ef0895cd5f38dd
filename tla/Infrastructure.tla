-------------------------- MODULE Infrastructure ----------------------------
(***************************************************************************)
(* The inventory a deployment runs on: credentials, servers and their      *)
(* gateways, Kubernetes clusters and deployment targets.  A request checks *)
(* what its row names by statements of their own and writes the whole row  *)
(* later; only the foreign key from a target's Kubernetes row to its       *)
(* cluster is checked again by the database.                               *)
(*                                                                         *)
(* A patch may name every column, so the row it asks for is any row: what  *)
(* it read of the old one only fills columns it leaves out.                *)
(***************************************************************************)

CONSTANTS
  Client,      \* requests being served at the same time
  Credential,  \* ids of credentials
  TypeOf,      \* the type of each, which no request can change
  Server,      \* ids of servers
  Cluster,     \* ids of Kubernetes clusters
  Target,      \* ids of deployment targets
  None,        \* no reference, no row yet
  Gone         \* a row that was deleted: its id never comes back

ASSUME InfrastructureAssumption ==
  /\ TypeOf \in [Credential -> {"password", "private_key", "kubeconfig"}]
  /\ None # Gone
  /\ \A absent \in {None, Gone} :
       /\ absent \notin Credential /\ absent \notin Server /\ absent \notin Cluster
       /\ absent \notin {"enabled", "disabled"}

VARIABLES
  credential,  \* credentials: None, Gone, or whether it is enabled
  server,      \* servers
  cluster,     \* k8s_clusters
  target,      \* deployment_targets with their ssh and k8s rows
  request,     \* what each request has still to check and to write
  crossed,     \* history: the rows that were being written while the
               \* credential they name was deleted
  overtaken    \* history: the requests behind their gateway check since which
               \* another one has written a server

vars == <<credential, server, cluster, target, request, crossed, overtaken>>

\* A server that uses no credential has auth_type none.
ServerRow ==
  [credential : Credential \cup {None}, role : {"gateway", "application"},
   gateway : Server \cup {None}, enabled : BOOLEAN]

ClusterRow == [credential : Credential, enabled : BOOLEAN]

\* ssh: there is a row in ssh_deployment_targets; cluster: the cluster of the
\* row in k8s_deployment_targets, if there is one.
TargetRow ==
  [executor : {"mock", "ssh", "k8s"}, artifact : {"version_only", "oci_image"},
   ssh : BOOLEAN, cluster : Cluster \cup {None}]

Request ==
  [table : {"server"}, step : {"gateway", "write"}, create : BOOLEAN, id : Server, row : ServerRow]
    \cup [table : {"cluster"}, step : {"write"}, create : BOOLEAN, id : Cluster, row : ClusterRow]
    \cup [table : {"target"}, step : {"write"}, create : BOOLEAN, id : Target, row : TargetRow]

ASSUME RowAssumption ==
  \A absent \in {None, Gone} :
    absent \notin ServerRow /\ absent \notin ClusterRow /\ absent \notin TargetRow /\ absent \notin Request

Init ==
  /\ credential = [k \in Credential |-> None]
  /\ server = [s \in Server |-> None]
  /\ cluster = [k \in Cluster |-> None]
  /\ target = [t \in Target |-> None]
  /\ request = [c \in Client |-> None]
  /\ crossed = {}
  /\ overtaken = {}

-----------------------------------------------------------------------------

Servers == {s \in Server : server[s] # None}
Clusters == {k \in Cluster : cluster[k] \notin {None, Gone}}
Targets == {t \in Target : target[t] # None}

\* What the rows of the tables and the requests behind their checks name.
NamedBy(c) == request[c] # None /\ request[c].table \in {"server", "cluster"}
InFlight(k) == {request[c].id : c \in {d \in Client : NamedBy(d) /\ request[d].row.credential = k}}

\* DeleteCredential's two counts.  Mutant: clusters are not counted.
References_ServersOnly(k) == {s \in Servers : server[s].credential = k}
References(k) ==
  {s \in Servers : server[s].credential = k} \cup {q \in Clusters : cluster[q].credential = k}

Ask(c, table, first, isNew, id, row) ==
  /\ request[c] = None
  /\ request' = [request EXCEPT ![c] =
       [table |-> table, step |-> first, create |-> isNew, id |-> id, row |-> row]]
  /\ UNCHANGED <<credential, server, cluster, target, crossed, overtaken>>

Done(c) == request' = [request EXCEPT ![c] = None]

AtWrite(c, table) ==
  request[c] # None /\ request[c].table = table /\ request[c].step = "write"

-----------------------------------------------------------------------------
(* Credentials *)

CreateCredential(k) ==
  /\ credential[k] = None
  /\ credential' = [credential EXCEPT ![k] = "enabled"]
  /\ UNCHANGED <<server, cluster, target, request, crossed, overtaken>>

\* Mutant: the arguments of the statement are in the wrong order.
UpdateCredential_Swapped(k, enabled) ==
  /\ credential[k] \in {"enabled", "disabled"}
  /\ credential' = [credential EXCEPT ![k] = TypeOf[k]]
  /\ UNCHANGED <<server, cluster, target, request, crossed, overtaken>>

UpdateCredential(k, enabled) ==
  /\ credential[k] \in {"enabled", "disabled"}
  /\ credential' = [credential EXCEPT ![k] = enabled]
  /\ UNCHANGED <<server, cluster, target, request, crossed, overtaken>>

\* One transaction: the counts and the deletion.
DeleteCredential(k) ==
  /\ credential[k] \in {"enabled", "disabled"}
  /\ References(k) = {}
  /\ credential' = [credential EXCEPT ![k] = Gone]
  /\ crossed' = crossed \cup InFlight(k)
  /\ UNCHANGED <<server, cluster, target, request, overtaken>>

-----------------------------------------------------------------------------
(* Servers *)

\* validateServerCredential; the type is not compared.
ServerCredentialOk(row) == row.credential # None => credential[row.credential] = "enabled"

\* createServer and patchServer up to the check of the credential.
AskServer(c, s, row) ==
  /\ server[s] = None => row.enabled
  /\ ServerCredentialOk(row)
  /\ Ask(c, "server", "gateway", server[s] = None, s, row)

UsableGateway(g) == g \in Servers /\ server[g].role = "gateway" /\ server[g].enabled

Dependents(s) == {d \in Servers \ {s} : server[d].gateway = s}

\* Mutant: a gateway may use another one, and one in use may be disabled.
GatewayOk_Chained(s, row) ==
  row.gateway # None => row.gateway # s /\ UsableGateway(row.gateway)

\* validateServerGateway: the servers behind s are only looked at when the row
\* names no gateway.
GatewayOk(s, row) ==
  /\ row.role = "gateway" => row.gateway = None
  /\ row.gateway = None /\ Dependents(s) # {} => row.role = "gateway" /\ row.enabled
  /\ row.gateway # None => row.gateway # s /\ UsableGateway(row.gateway)

CheckGateway(c) ==
  /\ request[c] # None /\ request[c].step = "gateway"
  /\ request' = [request EXCEPT ![c] =
       IF GatewayOk(request[c].id, request[c].row) THEN [request[c] EXCEPT !.step = "write"] ELSE None]
  /\ UNCHANGED <<credential, server, cluster, target, crossed, overtaken>>

\* The insert, which fails on an id that is taken, or the update.
WriteServer(c) ==
  /\ AtWrite(c, "server")
  /\ server' = IF request[c].create /\ request[c].id \in Servers THEN server
               ELSE [server EXCEPT ![request[c].id] = request[c].row]
  /\ Done(c)
  /\ overtaken' = IF server' = server THEN overtaken \ {c}
                  ELSE {d \in Client \ {c} : AtWrite(d, "server")}
  /\ UNCHANGED <<credential, cluster, target, crossed>>

-----------------------------------------------------------------------------
(* Kubernetes clusters *)

\* validateK8sClusterCredential, for a new cluster and for every patch.
ClusterCredentialOk(row) ==
  credential[row.credential] = "enabled" /\ TypeOf[row.credential] = "kubeconfig"

AskCluster(c, k, row) ==
  /\ cluster[k] # Gone
  /\ cluster[k] = None => row.enabled
  /\ ClusterCredentialOk(row)
  /\ Ask(c, "cluster", "write", cluster[k] = None, k, row)

\* An update of a cluster that was deleted in between changes no row.
WriteCluster(c) ==
  /\ AtWrite(c, "cluster")
  /\ cluster' = IF request[c].create = (cluster[request[c].id] = None) /\ cluster[request[c].id] # Gone
                THEN [cluster EXCEPT ![request[c].id] = request[c].row]
                ELSE cluster
  /\ Done(c)
  /\ UNCHANGED <<credential, server, target, crossed, overtaken>>

\* One transaction: the count and the deletion.
DeleteK8sCluster(k) ==
  /\ k \in Clusters
  /\ \A t \in Targets : target[t].cluster # k
  /\ cluster' = [cluster EXCEPT ![k] = Gone]
  /\ UNCHANGED <<credential, server, target, request, crossed, overtaken>>

-----------------------------------------------------------------------------
(* Deployment targets *)

TargetConfigOk(row) ==
  /\ row.executor = "k8s" => row.artifact = "oci_image" /\ row.cluster # None
  /\ row.executor = "ssh" => row.ssh

\* A new target of another executor may carry a Kubernetes row that is not
\* checked here.
AskTarget(c, t, row) ==
  /\ TargetConfigOk(row)
  /\ row.cluster \in Clusters \cup {None} \/ (target[t] = None /\ row.executor # "k8s")
  /\ Ask(c, "target", "write", target[t] = None, t, row)

\* A patch keeps the row of the executor alone, a new target all it names.
Stored(q) ==
  IF q.create THEN q.row
  ELSE [q.row EXCEPT !.ssh = @ /\ q.row.executor = "ssh",
                     !.cluster = IF q.row.executor = "k8s" THEN @ ELSE None]

\* Mutant: a schema without the foreign key.
ClusterKeyHolds_NoKey(row) == row.cluster \in Cluster \cup {None}

\* The foreign key k8s_deployment_targets.cluster_id.
ClusterKeyHolds(row) == row.cluster \in Clusters \cup {None}

\* One transaction; a key that does not hold or an id that is taken ends it
\* without a trace.
WriteTarget(c) ==
  /\ AtWrite(c, "target")
  /\ target' = IF ClusterKeyHolds(Stored(request[c])) /\ (request[c].create => request[c].id \notin Targets)
               THEN [target EXCEPT ![request[c].id] = Stored(request[c])]
               ELSE target
  /\ Done(c)
  /\ UNCHANGED <<credential, server, cluster, crossed, overtaken>>

-----------------------------------------------------------------------------

\* The process ends, or the client goes away: nothing more is written.
Abandon(c) ==
  /\ request[c] # None
  /\ Done(c)
  /\ overtaken' = overtaken \ {c}
  /\ UNCHANGED <<credential, server, cluster, target, crossed>>

Handle(c) ==
  \/ \E s \in Server, row \in ServerRow : AskServer(c, s, row)
  \/ \E k \in Cluster, row \in ClusterRow : AskCluster(c, k, row)
  \/ \E t \in Target, row \in TargetRow : AskTarget(c, t, row)
  \/ CheckGateway(c) \/ WriteServer(c) \/ WriteCluster(c) \/ WriteTarget(c)
  \/ Abandon(c)

Next ==
  \/ \E c \in Client : Handle(c)
  \/ \E k \in Credential : \/ CreateCredential(k)
                           \/ \E enabled \in {"enabled", "disabled"} : UpdateCredential(k, enabled)
                           \/ DeleteCredential(k)
  \/ \E k \in Cluster : DeleteK8sCluster(k)

Spec == Init /\ [][Next]_vars

-----------------------------------------------------------------------------

\* The tables and the requests have their types.
TypeOK ==
  /\ credential \in [Credential -> {None, Gone, "enabled", "disabled"}]
  /\ server \in [Server -> ServerRow \cup {None}]
  /\ cluster \in [Cluster -> ClusterRow \cup {None, Gone}]
  /\ target \in [Target -> TargetRow \cup {None}]
  /\ request \in [Client -> Request \cup {None}]
  /\ crossed \subseteq Server \cup Cluster
  /\ overtaken \subseteq Client

\* No foreign key leads from servers and clusters to credentials: a row whose
\* credential is gone was being written while it was deleted, and that is the
\* only way (CreateServer, UpdateServer, CreateK8sCluster, UpdateK8sCluster
\* against DeleteCredential).
CredentialLostInFlight ==
  /\ \A s \in Servers : server[s].credential # None =>
       credential[server[s].credential] \in {"enabled", "disabled"} \/ s \in crossed
  /\ \A k \in Clusters :
       credential[cluster[k].credential] \in {"enabled", "disabled"} \/ k \in crossed

\* The cluster a target deploys to is there and is reached with a kubeconfig,
\* although it may be patched, or deleted, between the check of the target's
\* request and its write.
TargetReachesCluster ==
  \A t \in Targets : target[t].cluster # None =>
    /\ target[t].cluster \in Clusters
    /\ TypeOf[cluster[target[t].cluster].credential] = "kubeconfig"

\* A target always has the configuration row of its executor, and a
\* Kubernetes target takes images.
TargetIsConfigured ==
  \A t \in Targets :
    /\ target[t].executor = "ssh" => target[t].ssh
    /\ target[t].executor = "k8s" => target[t].cluster # None /\ target[t].artifact = "oci_image"

\* Nothing a release needs of its target's rows is ever missing, whatever
\* requests crossed the one that wrote them (CreateDeploymentTarget,
\* UpdateDeploymentTarget against the cluster's handlers).
TargetIsDeployable == TargetReachesCluster /\ TargetIsConfigured

\* A gateway is reached directly: whatever patches cross, no server that is a
\* gateway has a gateway, and the gateway a server names is a server.
GatewayIsDirect ==
  \A s \in Servers : server[s].gateway # None =>
    /\ server[s].role = "application"
    /\ server[s].gateway \in Servers \ {s}

\* What validateServerGateway is for: a server that others are behind is an
\* enabled gateway.
Holds(s) == Dependents(s) # {} => UsableGateway(s)

\* It is lost in two ways only: by the write of a request that another one has
\* overtaken since the check of its gateway, or by one that puts the gateway
\* itself behind another, for which nobody looks at the servers behind it.
GatewayLostInFlight ==
  [][\A s \in Server : Holds(s) /\ ~Holds(s)' =>
       \E c \in Client :
         /\ WriteServer(c)
         /\ c \in overtaken \/ (request[c].id = s /\ request[c].row.gateway # None)]_vars

-----------------------------------------------------------------------------
(* What is left of the checks of a request when its row is written.        *)

\* The credential of a row is there, or went while the row was written.
Kept(k, id) == k # None => credential[k] \in {"enabled", "disabled"} \/ id \in crossed

\* The rows asked for are as they were found when they were checked.
ServerAsked(q) ==
  /\ Kept(q.row.credential, q.id)
  /\ q.step = "write" /\ q.row.gateway # None =>
       q.row.role = "application" /\ q.row.gateway \in Servers \ {q.id}

ClusterAsked(q) ==
  Kept(q.row.credential, q.id) /\ TypeOf[q.row.credential] = "kubeconfig"

\* What is still true of the rows that requests are about to write.
RequestsHold ==
  \A c \in Client : request[c] # None =>
    /\ request[c].table = "server" => ServerAsked(request[c])
    /\ request[c].table = "cluster" => ClusterAsked(request[c])
    /\ request[c].table = "target" => TargetConfigOk(request[c].row)

\* What the check of a gateway found is so until another server is written.
GatewaysHold ==
  \A c \in Client \ overtaken : AtWrite(c, "server") => GatewayOk(request[c].id, request[c].row)

\* The two halves of TargetReachesCluster, each kept by its own writers.
ClusterHasKubeconfig ==
  \A k \in Clusters : TypeOf[cluster[k].credential] = "kubeconfig"

TargetClusterExists ==
  \A t \in Targets : target[t].cluster \in Clusters \cup {None}

\* The invariant, preserved by every step.
InfrastructureInv ==
  /\ TypeOK
  /\ RequestsHold
  /\ GatewaysHold
  /\ CredentialLostInFlight
  /\ ClusterHasKubeconfig
  /\ TargetClusterExists
  /\ TargetIsConfigured
  /\ GatewayIsDirect

-----------------------------------------------------------------------------
(* What the documentation says and the code does not do.                   *)

\* A server that others are behind stays an enabled gateway.
UsedGatewayStays == \A s \in Servers : Holds(s)
=============================================================================
