------------------------ MODULE InfrastructureProofs ------------------------
(***************************************************************************)
(* The invariants of Infrastructure, for any number of requests, rows and  *)
(* credentials.  What a request has checked is only a promise about the    *)
(* moment of the check; InfrastructureInv says what is left of it when the *)
(* row is written.                                                         *)
(***************************************************************************)
EXTENDS Infrastructure, TLAPS

\* A request is one of three kinds, told apart by its table.
LEMMA RequestKinds ==
  ASSUME NEW q \in Request
  PROVE  /\ q # None
         /\ \/ /\ q.table = "server" /\ q.step \in {"gateway", "write"} /\ q.id \in Server
               /\ q.row \in ServerRow /\ q.create \in BOOLEAN
            \/ /\ q.table = "cluster" /\ q.step = "write" /\ q.id \in Cluster
               /\ q.row \in ClusterRow /\ q.create \in BOOLEAN
            \/ /\ q.table = "target" /\ q.step = "write" /\ q.id \in Target
               /\ q.row \in TargetRow /\ q.create \in BOOLEAN
<1>1. q # None
  BY RowAssumption
<1> QED
  BY <1>1 DEF Request

\* What is stored of a target is a row, and configured when what was asked is.
LEMMA StoredIsConfigured ==
  ASSUME NEW q \in Request, q.table = "target", TargetConfigOk(q.row)
  PROVE  /\ Stored(q) \in TargetRow
         /\ TargetConfigOk(Stored(q))
<1>1. q.row \in TargetRow
  BY RequestKinds
<1>2. CASE q.create
  BY <1>1, <1>2 DEF Stored
<1>3. CASE ~q.create
  <2>1. Stored(q) = [executor |-> q.row.executor, artifact |-> q.row.artifact,
                     ssh |-> (q.row.ssh /\ q.row.executor = "ssh"),
                     cluster |-> IF q.row.executor = "k8s" THEN q.row.cluster ELSE None]
    BY <1>1, <1>3 DEF Stored, TargetRow
  <2> QED
    BY <1>1, <2>1 DEF TargetRow, TargetConfigOk
<1> QED
  BY <1>2, <1>3

\* Requests only gain servers, and credentials and the history keep what they
\* say of a row unless a credential is deleted.
LEMMA KeptStays ==
  ASSUME TypeOK, Next, NEW k, NEW id,
         k \in Credential \cup {None}, Kept(k, id),
         \A q \in Credential : k = q /\ DeleteCredential(q) => id \in InFlight(q)
  PROVE  Kept(k, id)'
<1> USE InfrastructureAssumption DEF Kept, TypeOK
<1>1. CASE UNCHANGED <<credential, crossed>>
  BY <1>1
<1>2. ASSUME NEW q \in Credential, CreateCredential(q)
      PROVE  Kept(k, id)'
  BY <1>2 DEF CreateCredential
<1>3. ASSUME NEW q \in Credential, NEW enabled \in {"enabled", "disabled"}, UpdateCredential(q, enabled)
      PROVE  Kept(k, id)'
  BY <1>3 DEF UpdateCredential
<1>4. ASSUME NEW q \in Credential, DeleteCredential(q)
      PROVE  Kept(k, id)'
  <2>1. id \in crossed => id \in crossed'
    BY <1>4 DEF DeleteCredential
  <2>2. CASE k = q
    BY <1>4, <2>2 DEF DeleteCredential
  <2>3. CASE k # q
    BY <1>4, <2>1, <2>3 DEF DeleteCredential
  <2> QED
    BY <2>2, <2>3
<1>5. ASSUME NEW c \in Client, Handle(c)
      PROVE  UNCHANGED <<credential, crossed>>
  BY <1>5 DEF Handle, AskServer, AskCluster, AskTarget, Ask, CheckGateway, WriteServer,
     WriteCluster, WriteTarget, Abandon
<1>6. ASSUME NEW q \in Cluster, DeleteK8sCluster(q)
      PROVE  UNCHANGED <<credential, crossed>>
  BY <1>6 DEF DeleteK8sCluster
<1> QED
  BY <1>1, <1>2, <1>3, <1>4, <1>5, <1>6 DEF Next

\* A request that is not touched stays what it is: no server leaves the table.
LEMMA RequestStays ==
  ASSUME InfrastructureInv, Next, NEW c \in Client, request'[c] = request[c],
         request[c] # None, Servers \subseteq Servers'
  PROVE  /\ request[c].table = "server" => ServerAsked(request[c])'
         /\ request[c].table = "cluster" => ClusterAsked(request[c])'
         /\ request[c].table = "target" => TargetConfigOk(request[c].row)
<1> DEFINE q == request[c]
<1>1. /\ TypeOK /\ q \in Request
      /\ q.table = "server" => ServerAsked(q)
      /\ q.table = "cluster" => ClusterAsked(q)
      /\ q.table = "target" => TargetConfigOk(q.row)
  BY DEF InfrastructureInv, RequestsHold, TypeOK
<1>2. ASSUME q.table \in {"server", "cluster"}, Kept(q.row.credential, q.id)
      PROVE  Kept(q.row.credential, q.id)'
  <2>1. q.row.credential \in Credential \cup {None}
    BY <1>1, <1>2, RequestKinds DEF ServerRow, ClusterRow
  <2>2. \A k \in Credential : q.row.credential = k => q.id \in InFlight(k)
    BY <1>2 DEF InFlight, NamedBy
  <2>3. Kept(q.row.credential, q.id)
    BY <1>2
  <2>4. \A k, id : /\ k \in Credential \cup {None} /\ Kept(k, id)
                   /\ \A p \in Credential : k = p /\ DeleteCredential(p) => id \in InFlight(p)
                   => (credential'[k] \in {"enabled", "disabled"} \/ id \in crossed' \/ k = None)
    BY <1>1, KeptStays DEF Kept
  <2>5. \/ credential'[q.row.credential] \in {"enabled", "disabled"}
        \/ q.id \in crossed' \/ q.row.credential = None
    BY <2>1, <2>2, <2>3, <2>4
  <2> QED
    BY <2>5 DEF Kept
<1> QED
  BY <1>1, <1>2 DEF ServerAsked, ClusterAsked

\* A request is accepted with what its checks saw, or moves on to its write.
LEMMA RequestStep ==
  ASSUME InfrastructureInv, NEW c \in Client,
         \/ \E s \in Server, row \in ServerRow : AskServer(c, s, row)
         \/ \E k \in Cluster, row \in ClusterRow : AskCluster(c, k, row)
         \/ \E t \in Target, row \in TargetRow : AskTarget(c, t, row)
         \/ CheckGateway(c) \/ Abandon(c)
  PROVE  /\ UNCHANGED <<credential, server, cluster, target, crossed>>
         /\ \A d \in Client \ {c} : request'[d] = request[d]
         /\ request' \in [Client -> Request \cup {None}]
         /\ request'[c] # None =>
              /\ request'[c].table = "server" => ServerAsked(request'[c])
              /\ request'[c].table = "cluster" => ClusterAsked(request'[c])
              /\ request'[c].table = "target" => TargetConfigOk(request'[c].row)
<1> USE InfrastructureAssumption, RowAssumption DEF InfrastructureInv, TypeOK
<1>1. ASSUME NEW s \in Server, NEW row \in ServerRow, AskServer(c, s, row)
      PROVE  /\ UNCHANGED <<credential, server, cluster, target, crossed>>
             /\ request' = [request EXCEPT ![c] = [table |-> "server", step |-> "gateway",
                  create |-> (server[s] = None), id |-> s, row |-> row]]
             /\ Kept(row.credential, s)
  BY <1>1 DEF AskServer, Ask, ServerCredentialOk, Kept
<1>2. ASSUME NEW k \in Cluster, NEW row \in ClusterRow, AskCluster(c, k, row)
      PROVE  /\ UNCHANGED <<credential, server, cluster, target, crossed>>
             /\ request' = [request EXCEPT ![c] = [table |-> "cluster", step |-> "write",
                  create |-> (cluster[k] = None), id |-> k, row |-> row]]
             /\ Kept(row.credential, k) /\ TypeOf[row.credential] = "kubeconfig"
  BY <1>2 DEF AskCluster, Ask, ClusterCredentialOk, Kept
<1>3. ASSUME NEW t \in Target, NEW row \in TargetRow, AskTarget(c, t, row)
      PROVE  /\ UNCHANGED <<credential, server, cluster, target, crossed>>
             /\ request' = [request EXCEPT ![c] = [table |-> "target", step |-> "write",
                  create |-> (target[t] = None), id |-> t, row |-> row]]
             /\ TargetConfigOk(row)
  BY <1>3 DEF AskTarget, Ask
<1>4. CASE CheckGateway(c)
  <2> DEFINE q == request[c]
  <2>1. /\ UNCHANGED <<credential, server, cluster, target, crossed>>
        /\ q \in Request /\ q.step = "gateway" /\ q # None
        /\ request' = [request EXCEPT ![c] =
             IF GatewayOk(q.id, q.row) THEN [q EXCEPT !.step = "write"] ELSE None]
    BY <1>4 DEF CheckGateway
  <2>2. /\ q.table = "server" /\ q.row \in ServerRow /\ q.id \in Server /\ q.create \in BOOLEAN
        /\ Kept(q.row.credential, q.id)
    BY <2>1, RequestKinds DEF RequestsHold, ServerAsked
  <2>3. [q EXCEPT !.step = "write"] =
          [table |-> "server", step |-> "write", create |-> q.create, id |-> q.id, row |-> q.row]
    BY <2>1, <2>2 DEF Request
  <2>4. CASE GatewayOk(q.id, q.row)
    <3> DEFINE p == [table |-> "server", step |-> "write", create |-> q.create, id |-> q.id, row |-> q.row]
    <3>1. request' = [request EXCEPT ![c] = p]
      BY <2>1, <2>3, <2>4
    <3>2. p \in Request
      BY <2>2 DEF Request
    <3>3. q.row.gateway # None =>
            q.row.role = "application" /\ q.row.gateway \in Servers \ {q.id}
      BY <2>2, <2>4 DEF GatewayOk, UsableGateway, ServerRow
    <3>4. ServerAsked(p)
      BY <2>2, <3>3 DEF ServerAsked
    <3> QED
      BY <2>1, <3>1, <3>2, <3>4
  <2>5. CASE ~GatewayOk(q.id, q.row)
    BY <2>1, <2>5
  <2> QED
    BY <2>4, <2>5
<1>5. CASE Abandon(c)
  BY <1>5 DEF Abandon, Done
<1>6. ASSUME NEW s \in Server, NEW row \in ServerRow, AskServer(c, s, row)
      PROVE  [table |-> "server", step |-> "gateway", create |-> (server[s] = None),
              id |-> s, row |-> row] \in Request
  BY DEF Request
<1>7. ASSUME NEW k \in Cluster, NEW row \in ClusterRow
      PROVE  [table |-> "cluster", step |-> "write", create |-> (cluster[k] = None),
              id |-> k, row |-> row] \in Request
  BY DEF Request
<1>8. ASSUME NEW t \in Target, NEW row \in TargetRow
      PROVE  [table |-> "target", step |-> "write", create |-> (target[t] = None),
              id |-> t, row |-> row] \in Request
  BY DEF Request
<1> QED
  BY <1>1, <1>2, <1>3, <1>4, <1>5, <1>6, <1>7, <1>8 DEF ServerAsked, ClusterAsked

\* What the checks of gateways found stays so while no server is written.
LEMMA GatewaysStay ==
  ASSUME InfrastructureInv, UNCHANGED server, NEW c \in Client, overtaken \ {c} \subseteq overtaken',
         \A d \in Client \ {c} : request'[d] = request[d],
         AtWrite(c, "server")' => GatewayOk(request'[c].id, request'[c].row)
  PROVE  GatewaysHold'
<1>1. ASSUME NEW s, NEW row
      PROVE  GatewayOk(s, row)' <=> GatewayOk(s, row)
  BY DEF GatewayOk, Dependents, UsableGateway, Servers
<1>2. ASSUME NEW d \in Client \ overtaken', AtWrite(d, "server")'
      PROVE  GatewayOk(request'[d].id, request'[d].row)
  <2>1. CASE d = c
    BY <1>2, <2>1
  <2>2. CASE d # c
    BY <1>2, <2>2 DEF InfrastructureInv, GatewaysHold, AtWrite
  <2> QED
    BY <2>1, <2>2
<1> QED
  BY <1>1, <1>2 DEF GatewaysHold

\* Without a write or a request nothing changes for them.
LEMMA GatewaysUntouched ==
  ASSUME InfrastructureInv, UNCHANGED <<server, request, overtaken>>
  PROVE  GatewaysHold'
<1>1. ASSUME NEW s, NEW row
      PROVE  GatewayOk(s, row)' <=> GatewayOk(s, row)
  BY DEF GatewayOk, Dependents, UsableGateway, Servers
<1> QED
  BY <1>1 DEF InfrastructureInv, GatewaysHold, AtWrite

\* The write of a server overtakes the requests behind their checks.
LEMMA GatewaysWritten ==
  ASSUME InfrastructureInv, NEW c \in Client, WriteServer(c)
  PROVE  overtaken' \subseteq Client /\ GatewaysHold'
<1>1. \A d \in Client \ {c} : request'[d] = request[d]
  BY DEF WriteServer, Done, InfrastructureInv, TypeOK
<1>2. ~AtWrite(c, "server")'
  BY DEF WriteServer, Done, AtWrite, InfrastructureInv, TypeOK
<1>3. CASE server' = server
  <2>1. overtaken' = overtaken \ {c}
    BY <1>3 DEF WriteServer
  <2> QED
    BY <1>1, <1>2, <1>3, <2>1, GatewaysStay DEF InfrastructureInv, TypeOK
<1>4. CASE server' # server
  <2>1. overtaken' = {d \in Client \ {c} : AtWrite(d, "server")}
    BY <1>4 DEF WriteServer
  <2>2. \A d \in Client \ overtaken' : ~AtWrite(d, "server")'
    BY <1>1, <1>2, <2>1 DEF AtWrite
  <2> QED
    BY <2>1, <2>2 DEF GatewaysHold
<1> QED
  BY <1>3, <1>4

\* Neither the write of a cluster nor that of a target is a server's.
LEMMA GatewaysElsewhere ==
  ASSUME InfrastructureInv, NEW c \in Client, WriteCluster(c) \/ WriteTarget(c)
  PROVE  overtaken' = overtaken /\ GatewaysHold'
<1>1. UNCHANGED <<server, overtaken>> /\ Done(c)
  BY DEF WriteCluster, WriteTarget
<1>2. request'[c] = None /\ \A d \in Client \ {c} : request'[d] = request[d]
  BY <1>1 DEF Done, InfrastructureInv, TypeOK
<1> QED
  BY <1>1, <1>2, GatewaysStay DEF AtWrite

\* A request is behind the check of its gateway only with what it found.
LEMMA GatewaysChecked ==
  ASSUME InfrastructureInv, NEW c \in Client,
         \/ \E s \in Server, row \in ServerRow : AskServer(c, s, row)
         \/ \E k \in Cluster, row \in ClusterRow : AskCluster(c, k, row)
         \/ \E t \in Target, row \in TargetRow : AskTarget(c, t, row)
         \/ CheckGateway(c) \/ Abandon(c)
  PROVE  overtaken' \subseteq Client /\ GatewaysHold'
<1> USE DEF InfrastructureInv, TypeOK
<1>1. UNCHANGED server /\ overtaken \ {c} \subseteq overtaken' /\ overtaken' \subseteq Client
  BY DEF AskServer, AskCluster, AskTarget, Ask, CheckGateway, Abandon
<1>2. \A d \in Client \ {c} : request'[d] = request[d]
  BY DEF AskServer, AskCluster, AskTarget, Ask, CheckGateway, Abandon, Done
<1>3. AtWrite(c, "server")' => GatewayOk(request'[c].id, request'[c].row)
  <2>1. CASE CheckGateway(c)
    <3>1. request[c] \in Request /\ request[c].step = "gateway"
      BY <2>1 DEF CheckGateway
    <3>2. /\ [request[c] EXCEPT !.step = "write"].id = request[c].id
          /\ [request[c] EXCEPT !.step = "write"].row = request[c].row
      BY <3>1 DEF Request
    <3> QED
      BY <2>1, <3>2 DEF CheckGateway, AtWrite
  <2>2. CASE ~CheckGateway(c)
    BY <2>2 DEF AskServer, AskCluster, AskTarget, Ask, Abandon, Done, AtWrite
  <2> QED
    BY <2>1, <2>2
<1> QED
  BY <1>1, <1>2, <1>3, GatewaysStay

\* What a write leaves of the requests, and of the tables it does not touch.
LEMMA WriteFrame ==
  ASSUME InfrastructureInv, Next, NEW c \in Client, Done(c), Servers \subseteq Servers'
  PROVE  /\ request' \in [Client -> Request \cup {None}]
         /\ RequestsHold'
<1>1. /\ request \in [Client -> Request \cup {None}]
      /\ request' = [request EXCEPT ![c] = None]
  BY DEF Done, InfrastructureInv, TypeOK
<1>2. ASSUME NEW d \in Client, request'[d] # None
      PROVE  request'[d] = request[d] /\ request[d] # None
  BY <1>1, <1>2
<1>3. RequestsHold'
  BY <1>2, RequestStays DEF RequestsHold, ServerAsked, ClusterAsked
<1> QED
  BY <1>1, <1>3

LEMMA WriteServerStep ==
  ASSUME InfrastructureInv, Next, NEW c \in Client, WriteServer(c)
  PROVE  InfrastructureInv'
<1> USE InfrastructureAssumption, RowAssumption
<1> DEFINE q == request[c]
<1>1. /\ q \in Request /\ q # None /\ q.table = "server" /\ q.step = "write"
      /\ server' = IF q.create /\ q.id \in Servers THEN server ELSE [server EXCEPT ![q.id] = q.row]
      /\ Done(c)
      /\ UNCHANGED <<credential, cluster, target, crossed>>
  BY DEF WriteServer, AtWrite, InfrastructureInv, TypeOK
<1>2. q.id \in Server /\ q.row \in ServerRow /\ ServerAsked(q)
  BY <1>1, RequestKinds DEF InfrastructureInv, RequestsHold
<1>3. server \in [Server -> ServerRow \cup {None}] /\ server' \in [Server -> ServerRow \cup {None}]
  BY <1>1, <1>2 DEF InfrastructureInv, TypeOK
<1>4. \A s \in Server : server'[s] = server[s] \/ (s = q.id /\ server'[s] = q.row)
  BY <1>1, <1>2, <1>3
<1>5. Servers \subseteq Servers'
  BY <1>2, <1>3, <1>4 DEF Servers
<1>6. TypeOK' /\ RequestsHold' /\ GatewaysHold'
  BY <1>1, <1>3, <1>5, WriteFrame, GatewaysWritten DEF InfrastructureInv, TypeOK
<1>7. ASSUME NEW s \in Servers', server'[s].credential # None
      PROVE  credential'[server'[s].credential] \in {"enabled", "disabled"} \/ s \in crossed'
  BY <1>1, <1>2, <1>4, <1>7 DEF InfrastructureInv, CredentialLostInFlight, Servers, ServerAsked, Kept
<1>8. CredentialLostInFlight'
  BY <1>1, <1>7 DEF InfrastructureInv, CredentialLostInFlight, Clusters
<1>9. ASSUME NEW s \in Servers', server'[s].gateway # None
      PROVE  server'[s].role = "application" /\ server'[s].gateway \in Servers' \ {s}
  BY <1>1, <1>2, <1>4, <1>5, <1>9 DEF InfrastructureInv, GatewayIsDirect, Servers, ServerAsked
<1>10. GatewayIsDirect'
  BY <1>9 DEF GatewayIsDirect
<1>11. ClusterHasKubeconfig' /\ TargetClusterExists' /\ TargetIsConfigured'
  BY <1>1 DEF InfrastructureInv, ClusterHasKubeconfig, TargetClusterExists, TargetIsConfigured, Clusters, Targets
<1> QED
  BY <1>6, <1>8, <1>10, <1>11 DEF InfrastructureInv

LEMMA WriteClusterStep ==
  ASSUME InfrastructureInv, Next, NEW c \in Client, WriteCluster(c)
  PROVE  InfrastructureInv'
<1> USE InfrastructureAssumption, RowAssumption
<1> DEFINE q == request[c]
<1>1. /\ q \in Request /\ q # None /\ q.table = "cluster"
      /\ cluster' = cluster \/ cluster' = [cluster EXCEPT ![q.id] = q.row]
      /\ Done(c)
      /\ UNCHANGED <<credential, server, target, crossed>>
  BY DEF WriteCluster, AtWrite, InfrastructureInv, TypeOK
<1>2. q.id \in Cluster /\ q.row \in ClusterRow /\ ClusterAsked(q)
  BY <1>1, RequestKinds DEF InfrastructureInv, RequestsHold
<1>3. /\ cluster \in [Cluster -> ClusterRow \cup {None, Gone}]
      /\ cluster' \in [Cluster -> ClusterRow \cup {None, Gone}]
  BY <1>1, <1>2 DEF InfrastructureInv, TypeOK
<1>4. \A k \in Cluster : cluster'[k] = cluster[k] \/ (k = q.id /\ cluster'[k] = q.row)
  BY <1>1, <1>2, <1>3
<1>5. Clusters \subseteq Clusters'
  BY <1>2, <1>3, <1>4 DEF Clusters
<1>6. TypeOK' /\ RequestsHold' /\ GatewaysHold'
  BY <1>1, <1>3, WriteFrame, GatewaysElsewhere DEF InfrastructureInv, TypeOK, Servers
<1>7. ASSUME NEW k \in Clusters'
      PROVE  /\ credential'[cluster'[k].credential] \in {"enabled", "disabled"} \/ k \in crossed'
             /\ TypeOf[cluster'[k].credential] = "kubeconfig"
  <2>1. CASE cluster'[k] = cluster[k]
    BY <1>1, <1>7, <2>1 DEF InfrastructureInv, CredentialLostInFlight, ClusterHasKubeconfig, Clusters
  <2>2. CASE k = q.id /\ cluster'[k] = q.row
    BY <1>1, <1>2, <2>2 DEF ClusterAsked, Kept, ClusterRow
  <2> QED
    BY <1>4, <1>7, <2>1, <2>2 DEF Clusters
<1>8. CredentialLostInFlight' /\ ClusterHasKubeconfig'
  BY <1>1, <1>7 DEF InfrastructureInv, CredentialLostInFlight, ClusterHasKubeconfig, Servers
<1>9. TargetClusterExists' /\ TargetIsConfigured' /\ GatewayIsDirect'
  BY <1>1, <1>5 DEF InfrastructureInv, TargetClusterExists, TargetIsConfigured, GatewayIsDirect, Targets, Servers
<1> QED
  BY <1>6, <1>8, <1>9 DEF InfrastructureInv

\* The foreign key looks at the clusters when the row is written.
LEMMA WriteTargetStep ==
  ASSUME InfrastructureInv, Next, NEW c \in Client, WriteTarget(c)
  PROVE  InfrastructureInv'
<1> USE InfrastructureAssumption, RowAssumption
<1> DEFINE q == request[c]
<1>1. /\ q \in Request /\ q # None /\ q.table = "target"
      /\ \/ target' = target
         \/ ClusterKeyHolds(Stored(q)) /\ target' = [target EXCEPT ![q.id] = Stored(q)]
      /\ Done(c)
      /\ UNCHANGED <<credential, server, cluster, crossed>>
  BY DEF WriteTarget, AtWrite, InfrastructureInv, TypeOK
<1>2. q.id \in Target /\ Stored(q) \in TargetRow /\ TargetConfigOk(Stored(q))
  BY <1>1, RequestKinds, StoredIsConfigured DEF InfrastructureInv, RequestsHold
<1>3. target \in [Target -> TargetRow \cup {None}] /\ target' \in [Target -> TargetRow \cup {None}]
  BY <1>1, <1>2 DEF InfrastructureInv, TypeOK
<1>4. \A t \in Target : \/ target'[t] = target[t]
                        \/ t = q.id /\ target'[t] = Stored(q) /\ ClusterKeyHolds(Stored(q))
  BY <1>1, <1>2, <1>3
<1>5. TypeOK' /\ RequestsHold' /\ GatewaysHold'
  BY <1>1, <1>3, WriteFrame, GatewaysElsewhere DEF InfrastructureInv, TypeOK, Servers
<1>6. ASSUME NEW t \in Targets'
      PROVE  /\ target'[t].cluster \in Clusters' \cup {None}
             /\ target'[t].executor = "ssh" => target'[t].ssh
             /\ target'[t].executor = "k8s" =>
                  target'[t].cluster # None /\ target'[t].artifact = "oci_image"
  <2>1. t \in Target /\ Clusters' = Clusters /\ target'[t] # None
    BY <1>1, <1>6 DEF Targets, Clusters
  <2>2. CASE target'[t] = target[t]
    BY <2>1, <2>2 DEF InfrastructureInv, TargetClusterExists, TargetIsConfigured, Targets
  <2>3. CASE target'[t] = Stored(q) /\ ClusterKeyHolds(Stored(q))
    BY <1>2, <2>1, <2>3 DEF ClusterKeyHolds, TargetConfigOk
  <2> QED
    BY <1>4, <2>1, <2>2, <2>3
<1>7. TargetClusterExists' /\ TargetIsConfigured'
  BY <1>6 DEF TargetClusterExists, TargetIsConfigured
<1>8. CredentialLostInFlight' /\ ClusterHasKubeconfig' /\ GatewayIsDirect'
  BY <1>1 DEF InfrastructureInv, CredentialLostInFlight, ClusterHasKubeconfig, GatewayIsDirect, Servers, Clusters
<1> QED
  BY <1>5, <1>7, <1>8 DEF InfrastructureInv

\* A credential appears, is switched, or goes when no row names it.
LEMMA CredentialStep ==
  ASSUME InfrastructureInv, Next, NEW k \in Credential,
         \/ CreateCredential(k)
         \/ \E enabled \in {"enabled", "disabled"} : UpdateCredential(k, enabled)
         \/ DeleteCredential(k)
  PROVE  InfrastructureInv'
<1> USE InfrastructureAssumption, RowAssumption
<1>1. /\ credential' \in [Credential -> {None, Gone, "enabled", "disabled"}]
      /\ crossed \subseteq crossed' /\ crossed' \subseteq Server \cup Cluster
      /\ UNCHANGED <<server, cluster, target, request, overtaken>>
  <2>1. CASE CreateCredential(k)
    BY <2>1 DEF CreateCredential, InfrastructureInv, TypeOK
  <2>2. ASSUME NEW enabled \in {"enabled", "disabled"}, UpdateCredential(k, enabled)
        PROVE  <1>1!1 /\ <1>1!2 /\ <1>1!3
    BY <2>2 DEF UpdateCredential, InfrastructureInv, TypeOK
  <2>3. CASE DeleteCredential(k)
    <3>1. ASSUME NEW c \in Client, NamedBy(c)
          PROVE  request[c].id \in Server \cup Cluster
      <4>1. request[c] \in Request
        BY <3>1 DEF NamedBy, InfrastructureInv, TypeOK
      <4> QED
        BY <3>1, <4>1, RequestKinds DEF NamedBy
    <3>2. InFlight(k) \subseteq Server \cup Cluster
      BY <3>1 DEF InFlight
    <3> QED
      BY <2>3, <3>2 DEF DeleteCredential, InfrastructureInv, TypeOK
  <2> QED
    BY <2>1, <2>2, <2>3
<1>2. ASSUME NEW q \in Credential, credential[q] \in {"enabled", "disabled"},
             References(q) # {}
      PROVE  credential'[q] \in {"enabled", "disabled"}
  BY <1>2 DEF CreateCredential, UpdateCredential, DeleteCredential, InfrastructureInv, TypeOK
<1>3. TypeOK'
  BY <1>1 DEF InfrastructureInv, TypeOK
<1>4. RequestsHold'
  <2>1. Servers' = Servers /\ request' = request
    BY <1>1 DEF Servers
  <2>2. ASSUME NEW c \in Client, request[c] # None
        PROVE  /\ request[c].table = "server" => ServerAsked(request[c])'
               /\ request[c].table = "cluster" => ClusterAsked(request[c])'
               /\ request[c].table = "target" => TargetConfigOk(request[c].row)
    BY <2>1, <2>2, RequestStays
  <2> QED
    BY <2>1, <2>2 DEF RequestsHold, TargetConfigOk
<1>5. CredentialLostInFlight'
  <2>1. ASSUME NEW s \in Servers, server[s].credential # None
        PROVE  credential'[server[s].credential] \in {"enabled", "disabled"} \/ s \in crossed'
    <3>1. server[s].credential \in Credential /\ s \in References(server[s].credential)
      BY <2>1 DEF InfrastructureInv, TypeOK, Servers, ServerRow, References
    <3> QED
      BY <1>1, <1>2, <2>1, <3>1 DEF InfrastructureInv, CredentialLostInFlight
  <2>2. ASSUME NEW q \in Clusters
        PROVE  credential'[cluster[q].credential] \in {"enabled", "disabled"} \/ q \in crossed'
    <3>1. cluster[q].credential \in Credential /\ q \in References(cluster[q].credential)
      BY <2>2 DEF InfrastructureInv, TypeOK, Clusters, ClusterRow, References
    <3> QED
      BY <1>1, <1>2, <2>2, <3>1 DEF InfrastructureInv, CredentialLostInFlight
  <2> QED
    BY <1>1, <2>1, <2>2 DEF CredentialLostInFlight, Servers, Clusters
<1>6. ClusterHasKubeconfig' /\ TargetClusterExists' /\ TargetIsConfigured' /\ GatewayIsDirect'
  BY <1>1 DEF InfrastructureInv, ClusterHasKubeconfig, TargetClusterExists, TargetIsConfigured,
     GatewayIsDirect, Servers, Clusters, Targets
<1>7. GatewaysHold'
  BY <1>1, GatewaysUntouched
<1> QED
  BY <1>3, <1>4, <1>5, <1>6, <1>7 DEF InfrastructureInv

\* A cluster goes when no target names it.
LEMMA DeleteClusterStep ==
  ASSUME InfrastructureInv, Next, NEW k \in Cluster, DeleteK8sCluster(k)
  PROVE  InfrastructureInv'
<1> USE InfrastructureAssumption, RowAssumption
<1>1. /\ \A t \in Targets : target[t].cluster # k
      /\ cluster' = [cluster EXCEPT ![k] = Gone]
      /\ UNCHANGED <<credential, server, target, request, crossed, overtaken>>
  BY DEF DeleteK8sCluster
<1>2. TypeOK' /\ Clusters' = Clusters \ {k} /\ \A q \in Clusters' : cluster'[q] = cluster[q]
  BY <1>1 DEF InfrastructureInv, TypeOK, Clusters
<1>3. RequestsHold'
  BY <1>1 DEF InfrastructureInv, RequestsHold, ServerAsked, ClusterAsked, Kept, Servers
<1>4. CredentialLostInFlight' /\ ClusterHasKubeconfig'
  BY <1>1, <1>2 DEF InfrastructureInv, CredentialLostInFlight, ClusterHasKubeconfig, Servers
<1>5. TargetClusterExists' /\ TargetIsConfigured' /\ GatewayIsDirect'
  BY <1>1, <1>2 DEF InfrastructureInv, TargetClusterExists, TargetIsConfigured, GatewayIsDirect,
     Targets, Servers
<1>6. GatewaysHold'
  BY <1>1, GatewaysUntouched
<1> QED
  BY <1>2, <1>3, <1>4, <1>5, <1>6 DEF InfrastructureInv

\* A step of a request that writes no table.
LEMMA AskStep ==
  ASSUME InfrastructureInv, Next, NEW c \in Client,
         \/ \E s \in Server, row \in ServerRow : AskServer(c, s, row)
         \/ \E k \in Cluster, row \in ClusterRow : AskCluster(c, k, row)
         \/ \E t \in Target, row \in TargetRow : AskTarget(c, t, row)
         \/ CheckGateway(c) \/ Abandon(c)
  PROVE  InfrastructureInv'
<1>1. /\ UNCHANGED <<credential, server, cluster, target, crossed>>
      /\ \A d \in Client \ {c} : request'[d] = request[d]
      /\ request' \in [Client -> Request \cup {None}]
      /\ request'[c] # None =>
           /\ request'[c].table = "server" => ServerAsked(request'[c])
           /\ request'[c].table = "cluster" => ClusterAsked(request'[c])
           /\ request'[c].table = "target" => TargetConfigOk(request'[c].row)
  BY RequestStep
<1>2. ASSUME NEW d \in Client, request'[d] # None
      PROVE  /\ request'[d].table = "server" => ServerAsked(request'[d])
             /\ request'[d].table = "cluster" => ClusterAsked(request'[d])
             /\ request'[d].table = "target" => TargetConfigOk(request'[d].row)
  BY <1>1, <1>2 DEF InfrastructureInv, RequestsHold
<1>3. RequestsHold'
  BY <1>1, <1>2 DEF RequestsHold, ServerAsked, ClusterAsked, TargetConfigOk, Kept, Servers
<1>4. TypeOK' /\ GatewaysHold'
  BY <1>1, GatewaysChecked DEF InfrastructureInv, TypeOK
<1>5. /\ CredentialLostInFlight' /\ ClusterHasKubeconfig' /\ TargetClusterExists'
      /\ TargetIsConfigured' /\ GatewayIsDirect'
  BY <1>1 DEF InfrastructureInv, CredentialLostInFlight, ClusterHasKubeconfig, TargetClusterExists,
     TargetIsConfigured, GatewayIsDirect, Servers, Clusters, Targets
<1> QED
  BY <1>3, <1>4, <1>5 DEF InfrastructureInv

\* The invariant holds of every interleaving of requests (all handlers of
\* credentials, servers, clusters and deployment targets).
THEOREM InfrastructureHolds == Spec => []InfrastructureInv
<1> USE InfrastructureAssumption
<1>1. Init => InfrastructureInv
  BY DEF Init, InfrastructureInv, TypeOK, RequestsHold, GatewaysHold, AtWrite, CredentialLostInFlight, ClusterHasKubeconfig,
     TargetClusterExists, TargetIsConfigured, GatewayIsDirect, Servers, Clusters, Targets
<1>2. InfrastructureInv /\ [Next]_vars => InfrastructureInv'
  <2> SUFFICES ASSUME InfrastructureInv, [Next]_vars
               PROVE  InfrastructureInv'
    OBVIOUS
  <2>1. ASSUME NEW c \in Client, Handle(c), Next
        PROVE  InfrastructureInv'
    BY <2>1, AskStep, WriteServerStep, WriteClusterStep, WriteTargetStep DEF Handle
  <2>2. CASE UNCHANGED vars
    <3>1. UNCHANGED <<credential, server, cluster, target, request, crossed, overtaken>>
      BY <2>2 DEF vars
    <3>2. TypeOK' /\ RequestsHold' /\ GatewaysHold'
      BY <3>1, GatewaysUntouched DEF InfrastructureInv, TypeOK, RequestsHold, ServerAsked, ClusterAsked, Kept, Servers
    <3>3. /\ CredentialLostInFlight' /\ ClusterHasKubeconfig' /\ TargetClusterExists'
          /\ TargetIsConfigured' /\ GatewayIsDirect'
      BY <3>1 DEF InfrastructureInv, CredentialLostInFlight, ClusterHasKubeconfig,
         TargetClusterExists, TargetIsConfigured, GatewayIsDirect, Servers, Clusters, Targets
    <3> QED
      BY <3>2, <3>3 DEF InfrastructureInv
  <2> QED
    BY <2>1, <2>2, CredentialStep, DeleteClusterStep DEF Next
<1> QED
  BY <1>1, <1>2, PTL DEF Spec

\* No reference to a credential dangles but the ones whose row was being
\* written while the credential was deleted.
THEOREM CredentialsLostInFlight == Spec => []CredentialLostInFlight
<1>1. InfrastructureInv => CredentialLostInFlight
  BY DEF InfrastructureInv
<1> QED
  BY <1>1, InfrastructureHolds, PTL

\* Whatever crosses the request that wrote it, a target's cluster is there and
\* is reached with a kubeconfig, and the target has its executor's row.
THEOREM TargetsAreDeployable == Spec => []TargetIsDeployable
<1>1. InfrastructureInv => TargetIsDeployable
  BY DEF InfrastructureInv, TargetIsDeployable, TargetReachesCluster, TargetClusterExists, ClusterHasKubeconfig
<1> QED
  BY <1>1, InfrastructureHolds, PTL

\* A server that is a gateway has no gateway, whatever patches cross.
THEOREM GatewaysAreDirect == Spec => []GatewayIsDirect
<1>1. InfrastructureInv => GatewayIsDirect
  BY DEF InfrastructureInv
<1> QED
  BY <1>1, InfrastructureHolds, PTL

\* An insert or an update of a server from a check that is still good, and
\* that does not put a gateway behind another, keeps the gateways in use.
LEMMA WriteHolds ==
  ASSUME InfrastructureInv, NEW c \in Client, WriteServer(c), NEW s \in Server, Holds(s),
         c \notin overtaken, request[c].id = s => request[c].row.gateway = None
  PROVE  Holds(s)'
<1> USE InfrastructureAssumption, RowAssumption
<1> DEFINE q == request[c]
<1>1. /\ q \in Request /\ q # None /\ q.table = "server"
      /\ server' = server \/ server' = [server EXCEPT ![q.id] = q.row]
      /\ GatewayOk(q.id, q.row)
  BY DEF WriteServer, AtWrite, InfrastructureInv, TypeOK, GatewaysHold
<1>2. q.id \in Server /\ q.row \in ServerRow /\ q.row # None
  BY <1>1, RequestKinds
<1>3. CASE server' = server
  BY <1>3 DEF Holds, Dependents, UsableGateway, Servers
<1>4. CASE server' = [server EXCEPT ![q.id] = q.row]
  <2> HIDE DEF q
  <2>1. server'[q.id] = q.row /\ \A d \in Server \ {q.id} : server'[d] = server[d]
    BY <1>2, <1>4 DEF InfrastructureInv, TypeOK
  <2>2. CASE q.id = s
    <3>1. Dependents(s)' = Dependents(s)
      BY <2>1, <2>2 DEF Dependents, Servers
    <3>2. q.row.gateway = None
      BY <2>2 DEF q
    <3>3. Dependents(s) # {} => q.row.role = "gateway" /\ q.row.enabled
      BY <1>1, <2>2, <3>2 DEF GatewayOk
    <3> QED
      BY <1>2, <2>1, <2>2, <3>1, <3>3 DEF Holds, UsableGateway, Servers
  <2>3. CASE q.id # s
    <3>1. UsableGateway(s)' <=> UsableGateway(s)
      BY <2>1, <2>3 DEF UsableGateway, Servers
    <3>2. Dependents(s)' \subseteq Dependents(s) \/ q.row.gateway = s
      BY <1>2, <2>1 DEF Dependents, Servers
    <3>3. s # None
      OBVIOUS
    <3>4. q.row.gateway = s => UsableGateway(s)
      BY <1>1, <3>3 DEF GatewayOk
    <3> QED
      BY <3>1, <3>2, <3>4 DEF Holds
  <2> QED
    BY <2>2, <2>3
<1> QED
  BY <1>1, <1>3, <1>4

\* A server in use as a gateway stays an enabled gateway, but for requests that
\* cross and for a write that gives the gateway a gateway
\* (GatewayLostInFlight; validateServerGateway and the two writes behind it).
THEOREM GatewaysLostInFlight == Spec => GatewayLostInFlight
<1>1. InfrastructureInv /\ [Next]_vars =>
        [\A s \in Server : Holds(s) /\ ~Holds(s)' =>
           \E c \in Client :
             /\ WriteServer(c)
             /\ c \in overtaken \/ (request[c].id = s /\ request[c].row.gateway # None)]_vars
  <2> SUFFICES ASSUME InfrastructureInv, Next, NEW s \in Server, Holds(s), ~Holds(s)'
               PROVE  \E c \in Client :
                        /\ WriteServer(c)
                        /\ c \in overtaken \/ (request[c].id = s /\ request[c].row.gateway # None)
    OBVIOUS
  <2>1. server' # server
    BY DEF Holds, Dependents, UsableGateway, Servers
  <2>2. PICK c \in Client : WriteServer(c)
    BY <2>1 DEF Next, Handle, AskServer, AskCluster, AskTarget, Ask, CheckGateway, WriteCluster,
       WriteTarget, Abandon, CreateCredential, UpdateCredential, DeleteCredential, DeleteK8sCluster
  <2> QED
    BY <2>2, WriteHolds
<1> QED
  BY <1>1, InfrastructureHolds, PTL DEF Spec, GatewayLostInFlight

\* Rows and requests keep their types (TypeOK).
THEOREM InfrastructureTypeCorrect == Spec => []TypeOK
<1>1. InfrastructureInv => TypeOK
  BY DEF InfrastructureInv
<1> QED
  BY <1>1, InfrastructureHolds, PTL
=============================================================================
