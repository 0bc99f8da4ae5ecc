------------------------- MODULE ClusterReadsProofs -------------------------
(***************************************************************************)
(* Theorems about ClusterReads, for every value of its constants: any      *)
(* kinds and contents, any number of requests, connections and changes.    *)
(***************************************************************************)
EXTENDS ClusterReads, TLAPS

-----------------------------------------------------------------------------
(* Sequences: logs, and what the handlers read.                            *)

LEMMA AppendType ==
  ASSUME NEW S, NEW s \in Seq(S), NEW c \in S
  PROVE  Append(s, c) \in Seq(S) /\ Len(Append(s, c)) = Len(s) + 1
OBVIOUS

LEMMA AppendAt ==
  ASSUME NEW S, NEW s \in Seq(S), NEW c \in S, NEW i \in 1 .. Len(s) + 1
  PROVE  Append(s, c)[i] = IF i <= Len(s) THEN s[i] ELSE c
OBVIOUS

IsRoute(h) == Len(h) \in Nat /\ DOMAIN h = 1 .. Len(h)

LEMMA Tuples ==
  /\ \A a : IsRoute(<<a>>)
  /\ \A a, b : IsRoute(<<a, b>>)
  /\ \A a, b, c, d : IsRoute(<<a, b, c, d>>)
BY DEF IsRoute

\* A handler is a sequence of reads.
LEMMA RouteTypes == \A h \in Routes : IsRoute(h)
<1>1. IsRoute(GetClusterOverview) /\ IsRoute(GetClusterNode) /\ IsRoute(GetClusterNodeMetrics)
  BY Tuples DEF GetClusterOverview, GetClusterNode, GetClusterNodeMetrics
<1>2. \A k \in kindToGVR : IsRoute(GetClusterGenericResources(k))
  BY Tuples DEF GetClusterGenericResources
<1>3. /\ IsRoute(GetClusterNamespaces) /\ IsRoute(GetClusterNamespaceDetail)
      /\ IsRoute(GetClusterNodes) /\ IsRoute(GetClusterPods)
      /\ IsRoute(GetClusterPodDetail) /\ IsRoute(GetClusterDeployments)
      /\ IsRoute(GetClusterDeploymentDetail) /\ IsRoute(GetClusterDaemonSets)
      /\ IsRoute(GetClusterDaemonSetDetail) /\ IsRoute(GetClusterStatefulSets)
      /\ IsRoute(GetClusterStatefulSetDetail) /\ IsRoute(GetClusterReplicaSets)
      /\ IsRoute(GetClusterReplicaSetDetail) /\ IsRoute(GetClusterJobs)
      /\ IsRoute(GetClusterJobDetail) /\ IsRoute(GetClusterCronJobs)
      /\ IsRoute(GetClusterCronJobDetail) /\ IsRoute(GetClusterServices)
      /\ IsRoute(GetClusterServiceDetail) /\ IsRoute(GetClusterPodMetrics)
  BY Tuples DEF GetClusterNamespaces, GetClusterNamespaceDetail, GetClusterNodes,
     GetClusterPods, GetClusterPodDetail, GetClusterDeployments, GetClusterDeploymentDetail,
     GetClusterDaemonSets, GetClusterDaemonSetDetail, GetClusterStatefulSets,
     GetClusterStatefulSetDetail, GetClusterReplicaSets, GetClusterReplicaSetDetail,
     GetClusterJobs, GetClusterJobDetail, GetClusterCronJobs, GetClusterCronJobDetail,
     GetClusterServices, GetClusterServiceDetail, GetClusterPodMetrics
<1>4. /\ IsRoute(GetClusterIngresses) /\ IsRoute(GetClusterIngressDetail)
      /\ IsRoute(GetClusterIngressClasses) /\ IsRoute(GetClusterIngressClassDetail)
      /\ IsRoute(GetClusterNetworkPolicies) /\ IsRoute(GetClusterNetworkPolicyDetail)
      /\ IsRoute(GetClusterConfigMaps) /\ IsRoute(GetClusterConfigMapDetail)
      /\ IsRoute(GetClusterSecrets) /\ IsRoute(GetClusterSecretDetail)
      /\ IsRoute(GetClusterPersistentVolumes) /\ IsRoute(GetClusterPVDetail)
      /\ IsRoute(GetClusterPersistentVolumeClaims) /\ IsRoute(GetClusterPVCDetail)
      /\ IsRoute(GetClusterStorageClasses) /\ IsRoute(GetClusterStorageClassDetail)
  BY Tuples DEF GetClusterIngresses, GetClusterIngressDetail, GetClusterIngressClasses,
     GetClusterIngressClassDetail, GetClusterNetworkPolicies, GetClusterNetworkPolicyDetail,
     GetClusterConfigMaps, GetClusterConfigMapDetail, GetClusterSecrets,
     GetClusterSecretDetail, GetClusterPersistentVolumes, GetClusterPVDetail,
     GetClusterPersistentVolumeClaims, GetClusterPVCDetail, GetClusterStorageClasses,
     GetClusterStorageClassDetail
<1>5. /\ IsRoute(GetClusterClusterRoles) /\ IsRoute(GetClusterClusterRoleDetailView)
      /\ IsRoute(GetClusterClusterRoleBindings)
      /\ IsRoute(GetClusterClusterRoleBindingDetailView)
      /\ IsRoute(GetClusterRolesView) /\ IsRoute(GetClusterRoleDetailView)
      /\ IsRoute(GetClusterRoleBindingsView) /\ IsRoute(GetClusterRoleBindingDetailView)
      /\ IsRoute(GetClusterServiceAccounts) /\ IsRoute(GetClusterServiceAccountDetail)
      /\ IsRoute(GetClusterHPAs) /\ IsRoute(GetClusterHPADetail)
      /\ IsRoute(GetClusterEvents) /\ IsRoute(GetClusterEventsForResource)
  BY Tuples DEF GetClusterClusterRoles, GetClusterClusterRoleDetailView,
     GetClusterClusterRoleBindings, GetClusterClusterRoleBindingDetailView,
     GetClusterRolesView, GetClusterRoleDetailView, GetClusterRoleBindingsView,
     GetClusterRoleBindingDetailView, GetClusterServiceAccounts,
     GetClusterServiceAccountDetail, GetClusterHPAs, GetClusterHPADetail,
     GetClusterEvents, GetClusterEventsForResource
<1>6. QED
  BY <1>1, <1>2, <1>3, <1>4, <1>5 DEF Routes

LEMMA HandlerTypes ==
  ASSUME NEW h \in Routes
  PROVE  Len(h) \in Nat /\ DOMAIN h = 1 .. Len(h) /\ \A i \in 1 .. Len(h) : h[i].kind \in Subjects(h)
BY RouteTypes DEF IsRoute, Subjects

LEMMA SingleType ==
  ASSUME NEW S, NEW c \in S
  PROVE  <<c>> \in Seq(S) /\ Len(<<c>>) = 1
OBVIOUS

LEMMA ContentTypes ==
  ASSUME TypeOK, NEW k \in Kinds, NEW i \in 0 .. Len(log[k])
  PROVE  Seen(k, i) \subseteq UNION AnyContent
<1>1. \A j \in 1 .. Len(log[k]) : log[k][j] \in Contents[k]
  BY DEF TypeOK
<1>2. CASE i = 0
  BY <1>2 DEF Seen
<1>3. CASE i # 0
  <2>1. Seen(k, i) \in Contents[k]
    BY <1>1, <1>3 DEF Seen, TypeOK
  <2>2. QED
    BY <2>1 DEF AnyContent
<1>4. QED
  BY <1>2, <1>3

\* The connection of the client that is registered.
LEMMA ClientTypes ==
  ASSUME TypeOK, PositionsOK, client # NoConn
  PROVE  client \in Conns /\ client \in 1 .. made
BY BoundsAssumption DEF TypeOK, PositionsOK, Conns, NoConn

-----------------------------------------------------------------------------
(* What the cluster and the connections do leaves every request as true as *)
(* it was: logs and caches only move on.                                   *)

WorldMoves ==
    /\ made <= made'
    /\ \A k \in Kinds : /\ Len(log[k]) <= Len(log'[k])
                        /\ \A p \in 0 .. Len(log[k]) : Seen(k, p)' = Seen(k, p)
    /\ \A c \in 1 .. made, k \in Kinds : lister[c][k] <= lister'[c][k]

LEMMA ShownKept ==
  ASSUME TypeOK, TypeOK', WorldMoves, NEW q, NEW i, NEW found,
         q.handler[i].kind \in Kinds, q.since[i] \in Nat, ShownSince(q, i, found)
  PROVE  ShownSince(q, i, found)'
<1> DEFINE k == q.handler[i].kind
<1>1. PICK p \in q.since[i] .. Len(log[k]) :
         found \in Answers(q.handler[i], Found(q, i, Seen(k, p)))
  BY DEF ShownSince
<1>2. Len(log[k]) \in Nat /\ Len(log'[k]) \in Nat
  BY DEF TypeOK
<1>3. p \in 0 .. Len(log[k]) /\ p \in q.since[i] .. Len(log'[k])
  BY <1>1, <1>2 DEF WorldMoves
<1>4. Seen(k, p)' = Seen(k, p)
  BY <1>3 DEF WorldMoves
<1>5. found \in Answers(q.handler[i], Found(q, i, Seen(k, p)'))
  BY <1>1, <1>4
<1>6. QED
  BY <1>3, <1>5 DEF ShownSince, Found, Answers

\* What a read answers is part of what there is to find.
LEMMA AnswersType == ASSUME NEW read, NEW s, NEW found \in Answers(read, s) PROVE found \subseteq s
  BY DEF Answers

\* The reads a handler has made are among those it makes.
LEMMA AskedTypes ==
  ASSUME TypeOK, NEW q, AskedOK(q)
  PROVE  /\ Len(q.handler) \in Nat /\ DOMAIN q.handler = 1 .. Len(q.handler)
         /\ Len(q.read) \in Nat /\ DOMAIN q.read = 1 .. Len(q.read)
         /\ DOMAIN q.read \subseteq DOMAIN q.handler
         /\ \A i \in DOMAIN q.handler : q.handler[i].kind \in Kinds /\ q.since[i] \in Nat
         /\ q.conn \in Conns
<1>1. q.handler \in Routes /\ Subjects(q.handler) \subseteq Kinds
  BY DEF AskedOK
<1>2. /\ Len(q.handler) \in Nat /\ DOMAIN q.handler = 1 .. Len(q.handler)
      /\ \A i \in DOMAIN q.handler : q.handler[i].kind \in Kinds
  BY <1>1, HandlerTypes
<1>3. Len(q.read) \in Nat /\ DOMAIN q.read = 1 .. Len(q.read) /\ Len(q.read) <= Len(q.handler)
  BY DEF AskedOK
<1>4. q.conn \in Conns
  BY BoundsAssumption DEF AskedOK, TypeOK, Conns
<1>5. QED
  BY <1>2, <1>3, <1>4 DEF AskedOK

LEMMA RequestKept ==
  ASSUME TypeOK, TypeOK', WorldMoves, NEW q, RequestOK(q)
  PROVE  RequestOK(q)'
<1>1. CASE q.pc \notin {"reading", "answered"}
  BY <1>1 DEF RequestOK
<1>2. CASE q.pc \in {"reading", "answered"}
  <2>1. AskedOK(q)
    BY <1>2 DEF RequestOK
  <2>2. /\ Len(q.handler) \in Nat /\ DOMAIN q.handler = 1 .. Len(q.handler)
        /\ Len(q.read) \in Nat /\ DOMAIN q.read = 1 .. Len(q.read)
        /\ DOMAIN q.read \subseteq DOMAIN q.handler
        /\ \A i \in DOMAIN q.handler : q.handler[i].kind \in Kinds /\ q.since[i] \in Nat
        /\ q.conn \in Conns
    BY <2>1, AskedTypes
  <2>3. \A i \in DOMAIN q.read : ShownSince(q, i, q.read[i])'
    <3>1. ASSUME NEW i \in DOMAIN q.read PROVE ShownSince(q, i, q.read[i])'
      <4>1. ShownSince(q, i, q.read[i])
        BY <2>1 DEF AskedOK
      <4>2. QED
        BY <2>2, <4>1, ShownKept
    <3>2. QED
      BY <3>1
  <2>4. ASSUME NEW i \in DOMAIN q.handler PROVE q.since[i] <= Reached(q, i)'
    <3> DEFINE k == q.handler[i].kind
    <3>1. k \in Kinds /\ q.since[i] \in Nat /\ q.since[i] <= Reached(q, i)
      BY <2>1, <2>2 DEF AskedOK
    <3>2. /\ Len(log[k]) \in Nat /\ Len(log'[k]) \in Nat
          /\ lister[q.conn][k] \in Nat /\ lister'[q.conn][k] \in Nat
      BY <2>2, <3>1 DEF TypeOK
    <3>3. Len(log[k]) <= Len(log'[k]) /\ lister[q.conn][k] <= lister'[q.conn][k]
      BY <2>1, <3>1 DEF WorldMoves, AskedOK
    <3> HIDE DEF k
    <3>4. Reached(q, i) \in Nat /\ Reached(q, i)' \in Nat /\ Reached(q, i) <= Reached(q, i)'
      BY <3>2, <3>3 DEF Reached, k
    <3>5. QED
      BY <3>1, <3>4
  <2>5. q.conn \in 1 .. made'
    BY <2>1 DEF AskedOK, WorldMoves, TypeOK
  <2>6. AskedOK(q)'
    BY <2>1, <2>3, <2>4, <2>5 DEF AskedOK
  <2>7. CASE q.pc = "answered" /\ q.status = 404 /\ Upcoming(q).from = "cache"
    <3>1. Truthful(q) /\ Len(q.read) < Len(q.handler)
      BY <2>7 DEF RequestOK
    <3>2. ShownSince(q, Len(q.read) + 1, {}) /\ Len(q.read) + 1 \in DOMAIN q.handler
      BY <2>2, <2>7, <3>1 DEF Truthful
    <3>3. ShownSince(q, Len(q.read) + 1, {})'
      BY <2>2, <3>2, ShownKept
    <3>4. Truthful(q)'
      BY <2>3, <2>7, <3>3 DEF Truthful
    <3>5. QED
      BY <2>6, <3>1, <3>4 DEF RequestOK
  <2>8. CASE ~(q.pc = "answered" /\ q.status = 404 /\ Upcoming(q).from = "cache")
    <3>1. q.pc = "answered" => Truthful(q)'
      BY <2>3, <2>8 DEF RequestOK, Truthful, Upcoming
    <3>2. QED
      BY <2>6, <3>1 DEF RequestOK
  <2>9. QED
    BY <2>7, <2>8
<1>3. QED
  BY <1>1, <1>2

LEMMA RequestsKept ==
  ASSUME IInv, TypeOK', WorldMoves, UNCHANGED req
  PROVE  RequestsOK'
<1>1. \A q \in {req[r] : r \in Requests} : RequestOK(q)'
  BY RequestKept DEF IInv, RequestsOK
<1>2. QED
  BY <1>1 DEF IInv, RequestsOK

-----------------------------------------------------------------------------
(* The inductive invariant, one lemma per shape of step.                   *)

LEMMA InitInv == Init => IInv
<1> SUFFICES ASSUME Init PROVE IInv
  OBVIOUS
<1>1. PICK c \in [Kinds -> AnyContent] :
        /\ \A k \in Kinds : c[k] \in Contents[k]
        /\ log = [k \in Kinds |-> <<c[k]>>]
  BY DEF Init
<1>2. /\ log \in [Kinds -> Seq(AnyContent)]
      /\ \A k \in Kinds : log[k] \in Seq(Contents[k]) /\ Len(log[k]) = 1
  <2>1. \A k \in Kinds : /\ c[k] \in AnyContent /\ c[k] \in Contents[k]
                          /\ <<c[k]>> \in Seq(AnyContent) /\ <<c[k]>> \in Seq(Contents[k])
                          /\ Len(<<c[k]>>) = 1
    BY <1>1, SingleType
  <2>2. \A k \in Kinds : log[k] = <<c[k]>>
    BY <1>1
  <2>3. QED
    BY <1>1, <2>1, <2>2
<1>3. Idle.pc = "idle"
  BY DEF Idle
<1>4. req = [r \in Requests |-> Idle] /\ \A r \in Requests : req[r].pc = "idle"
  BY <1>3 DEF Init
<1>5. TypeOK
  <2>1. /\ made \in 0 .. MaxConns /\ client \in running \cup {NoConn}
        /\ informers \in [Conns -> SUBSET startClusterInformers]
        /\ running \subseteq Conns /\ lister \in [Conns -> [Kinds -> Nat]]
    BY BoundsAssumption DEF Init
  <2>2. ASSUME NEW k \in Kinds PROVE Len(log[k]) > 0
    <3>1. Len(log[k]) = 1
      BY <1>2
    <3>2. QED
      BY <3>1
  <2>3. QED
    BY <1>2, <1>4, <2>1, <2>2 DEF TypeOK
<1>6. PositionsOK
  BY <1>2 DEF Init, PositionsOK, NoConn
<1>7. RequestsOK
  BY <1>4 DEF RequestsOK, RequestOK
<1>8. QED
  BY <1>5, <1>6, <1>7 DEF IInv

\* A change at the end of a log leaves its earlier positions as they were.
LEMMA AppendKeeps ==
  ASSUME TypeOK, NEW k \in Kinds, NEW c \in Contents[k],
         log' = [log EXCEPT ![k] = Append(log[k], c)]
  PROVE  /\ log' \in [Kinds -> Seq(AnyContent)]
         /\ \A x \in Kinds : /\ log'[x] \in Seq(Contents[x]) /\ Len(log'[x]) > 0
                             /\ Len(log[x]) <= Len(log'[x])
                             /\ \A p \in 0 .. Len(log[x]) : Seen(x, p)' = Seen(x, p)
<1>1. log[k] \in Seq(Contents[k]) /\ log[k] \in Seq(AnyContent) /\ Len(log[k]) > 0
  BY DEF TypeOK
<1>2. log'[k] = Append(log[k], c) /\ \A x \in Kinds \ {k} : log'[x] = log[x]
  BY DEF TypeOK
<1>3. log'[k] \in Seq(Contents[k]) /\ Len(log'[k]) = Len(log[k]) + 1
  <2>1. Append(log[k], c) \in Seq(Contents[k]) /\ Len(Append(log[k], c)) = Len(log[k]) + 1
    BY <1>1, AppendType
  <2>2. QED
    BY <1>2, <2>1
<1>4. c \in AnyContent
  BY DEF AnyContent
<1>5. Append(log[k], c) \in Seq(AnyContent)
  BY <1>1, <1>4, AppendType
<1>6. log' \in [Kinds -> Seq(AnyContent)]
  BY <1>5 DEF TypeOK
<1>7. ASSUME NEW x \in Kinds
      PROVE  /\ log'[x] \in Seq(Contents[x]) /\ Len(log'[x]) > 0
             /\ Len(log[x]) <= Len(log'[x])
  <2>1. CASE x = k
    BY <1>1, <1>3, <2>1
  <2>2. CASE x # k
    <3>1. log'[x] = log[x]
      BY <1>2, <2>2
    <3>2. QED
      BY <3>1 DEF TypeOK
  <2>3. QED
    BY <2>1, <2>2
<1>8. ASSUME NEW x \in Kinds, NEW p \in 0 .. Len(log[x])
      PROVE  Seen(x, p)' = Seen(x, p)
  <2>1. CASE x = k /\ p # 0
    <3>1. p \in 1 .. Len(log[k])
      BY <1>1, <2>1
    <3>2. Append(log[k], c)[p] = log[k][p]
      BY <1>1, <3>1, AppendAt
    <3>3. QED
      BY <1>2, <2>1, <3>2 DEF Seen
  <2>2. CASE x # k \/ p = 0
    BY <1>2, <2>2 DEF Seen
  <2>3. QED
    BY <2>1, <2>2
<1>9. QED
  BY <1>6, <1>7, <1>8

LEMMA ChangeInv == ASSUME IInv, NEW k \in Kinds, Change(k) PROVE IInv'
<1>1. PICK c \in Contents[k] : log' = [log EXCEPT ![k] = Append(log[k], c)]
  BY DEF Change
<1>2. UNCHANGED <<made, client, informers, running, lister, req>>
  BY DEF Change, clients
<1>3. /\ log' \in [Kinds -> Seq(AnyContent)]
      /\ \A x \in Kinds : /\ log'[x] \in Seq(Contents[x]) /\ Len(log'[x]) > 0
                          /\ Len(log[x]) <= Len(log'[x])
                          /\ \A p \in 0 .. Len(log[x]) : Seen(x, p)' = Seen(x, p)
  BY <1>1, AppendKeeps DEF IInv
<1>4. TypeOK'
  BY <1>2, <1>3 DEF IInv, TypeOK
<1>5. PositionsOK'
  <2>1. \A x \in Kinds : Len(log[x]) \in Nat /\ Len(log'[x]) \in Nat
    BY <1>4 DEF IInv, TypeOK
  <2>2. \A c1 \in Conns, x \in Kinds : lister[c1][x] \in Nat
    BY DEF IInv, TypeOK
  <2>3. QED
    BY <1>2, <1>3, <2>1, <2>2 DEF IInv, PositionsOK
<1>6. WorldMoves
  <2>1. \A c1 \in 1 .. made, x \in Kinds : lister[c1][x] \in Nat
    BY BoundsAssumption DEF IInv, TypeOK, Conns
  <2>2. made \in Nat
    BY DEF IInv, TypeOK
  <2>3. QED
    BY <1>2, <1>3, <2>1, <2>2 DEF WorldMoves
<1>7. QED
  BY <1>2, <1>4, <1>5, <1>6, RequestsKept DEF IInv

\* Steps of the connections: the API server is left alone.
LEMMA ConnectionsInv ==
  ASSUME IInv, TypeOK', PositionsOK', UNCHANGED <<log, req>>, made <= made',
         \A c \in 1 .. made, k \in Kinds : lister[c][k] <= lister'[c][k]
  PROVE  IInv'
<1>1. \A k \in Kinds : /\ Len(log[k]) <= Len(log'[k])
                       /\ \A p \in 0 .. Len(log[k]) : Seen(k, p)' = Seen(k, p)
  BY DEF IInv, TypeOK, Seen
<1>2. WorldMoves
  BY <1>1 DEF WorldMoves
<1>3. QED
  BY <1>2, RequestsKept DEF IInv

LEMMA ConnectInv ==
  ASSUME IInv, NEW kinds, kinds \subseteq startClusterInformers, Connect(kinds)
  PROVE  IInv'
<1> DEFINE c == made + 1
<1>1. PICK at \in [Kinds -> 0 .. MaxChanges + 1] :
        /\ \A k \in Kinds : at[k] \in IF k \in kinds THEN 1 .. Len(log[k]) ELSE {0}
        /\ lister' = [lister EXCEPT ![c] = at]
  BY DEF Connect
<1>2. /\ made < MaxConns /\ made' = c /\ client' = c
      /\ informers' = [informers EXCEPT ![c] = kinds]
      /\ running' = running \cup {c}
      /\ UNCHANGED <<log, req>>
  BY DEF Connect
<1>3. c \in Conns /\ made \in Nat /\ c \notin 1 .. made /\ 1 .. made \subseteq Conns /\ made <= c
  BY <1>2, BoundsAssumption DEF IInv, TypeOK, Conns
<1> HIDE DEF c
<1>4. at \in [Kinds -> Nat]
  BY BoundsAssumption
<1>5. \A x \in Conns : lister'[x] = IF x = c THEN at ELSE lister[x]
  BY <1>1 DEF IInv, TypeOK
<1>6. lister' \in [Conns -> [Kinds -> Nat]]
  BY <1>1, <1>4 DEF IInv, TypeOK
<1>7. informers' \in [Conns -> SUBSET startClusterInformers]
  BY <1>2 DEF IInv, TypeOK
<1>8. made' \in 0 .. MaxConns
  BY <1>2, BoundsAssumption DEF IInv, TypeOK, c
<1>9. TypeOK'
  BY <1>2, <1>3, <1>6, <1>7, <1>8 DEF IInv, TypeOK
<1>10. PositionsOK'
  <2>1. \A k \in Kinds : Len(log[k]) \in Nat /\ at[k] <= Len(log[k])
    BY <1>1 DEF IInv, TypeOK
  <2>2. client' <= made'
    BY <1>2, <1>3 DEF c
  <2>3. QED
    BY <1>2, <1>5, <2>1, <2>2 DEF IInv, PositionsOK
<1>11. \A x \in 1 .. made, k \in Kinds : lister[x][k] <= lister'[x][k]
  <2>1. \A x \in 1 .. made, k \in Kinds : lister'[x][k] = lister[x][k] /\ lister[x][k] \in Nat
    BY <1>3, <1>5 DEF IInv, TypeOK
  <2>2. QED
    BY <2>1
<1>12. QED
  BY <1>2, <1>3, <1>9, <1>10, <1>11, ConnectionsInv

LEMMA UnlistedInv ==
  ASSUME IInv, RemoveCluster \/ \E c \in Conns : InformersStop(c)
  PROVE  IInv'
<1>1. UNCHANGED <<log, made, informers, lister, req>>
  BY DEF RemoveCluster, InformersStop
<1>2. /\ running' \subseteq Conns /\ client' \in running' \cup {NoConn} /\ client' <= made
  BY DEF RemoveCluster, InformersStop, IInv, TypeOK, PositionsOK, NoConn
<1>3. TypeOK' /\ PositionsOK'
  BY <1>1, <1>2 DEF IInv, TypeOK, PositionsOK
<1>4. \A x \in 1 .. made, k \in Kinds : lister[x][k] \in Nat
  BY BoundsAssumption DEF IInv, TypeOK, Conns
<1>5. made <= made' /\ \A x \in 1 .. made, k \in Kinds : lister[x][k] <= lister'[x][k]
  BY <1>1, <1>4 DEF IInv, TypeOK
<1>6. QED
  BY <1>1, <1>3, <1>5, ConnectionsInv

LEMMA WatchEventInv ==
  ASSUME IInv, NEW c \in Conns, NEW k \in Kinds, WatchEvent(c, k)
  PROVE  IInv'
<1>1. PICK i \in lister[c][k] + 1 .. Len(log[k]) :
        lister' = [lister EXCEPT ![c] = [lister[c] EXCEPT ![k] = i]]
  BY DEF WatchEvent
<1>2. UNCHANGED <<log, made, client, informers, running, req>>
  BY DEF WatchEvent
<1>3. lister[c] \in [Kinds -> Nat] /\ Len(log[k]) \in Nat
  BY DEF IInv, TypeOK
<1>4. i \in Nat /\ lister[c][k] <= i /\ i <= Len(log[k])
  BY <1>1, <1>3
<1> DEFINE f == [lister[c] EXCEPT ![k] = i]
<1>5. f \in [Kinds -> Nat] /\ \A x \in Kinds : f[x] = IF x = k THEN i ELSE lister[c][x]
  BY <1>3, <1>4
<1>6. lister' = [lister EXCEPT ![c] = f]
  BY <1>1
<1> HIDE DEF f
<1>7. lister' \in [Conns -> [Kinds -> Nat]] /\ \A x \in Conns : lister'[x] = IF x = c THEN f ELSE lister[x]
  BY <1>5, <1>6 DEF IInv, TypeOK
<1>8. TypeOK'
  BY <1>2, <1>7 DEF IInv, TypeOK
<1>9. PositionsOK'
  BY <1>2, <1>4, <1>5, <1>7 DEF IInv, PositionsOK
<1>10. \A x \in Conns, y \in Kinds : lister[x][y] <= lister'[x][y]
  <2>1. \A x \in Conns, y \in Kinds : lister[x][y] \in Nat
    BY DEF IInv, TypeOK
  <2>2. QED
    BY <1>4, <1>5, <1>7, <2>1
<1>11. made <= made' /\ 1 .. made \subseteq Conns
  BY <1>2, BoundsAssumption DEF IInv, TypeOK, Conns
<1>12. QED
  BY <1>2, <1>8, <1>9, <1>10, <1>11, ConnectionsInv

-----------------------------------------------------------------------------
(* Steps of a request.                                                     *)

LEMMA ReadingFields ==
  ASSUME NEW h, NEW a, NEW c, NEW s, NEW d, NEW q, q = Reading(h, a, c, s, d)
  PROVE  /\ q.pc = "reading" /\ q.handler = h /\ q.arg = a /\ q.conn = c
         /\ q.since = s /\ q.read = d
BY DEF Reading

LEMMA AnsweredFields ==
  ASSUME NEW q, NEW status, NEW a, a = Answered(q, status)
  PROVE  /\ a.pc = "answered" /\ a.handler = q.handler /\ a.arg = q.arg /\ a.conn = q.conn
         /\ a.since = q.since /\ a.read = q.read /\ a.status = status
BY DEF Answered

\* What is said of a request depends on what it asks alone.
LEMMA SameQuestion ==
  ASSUME NEW q, NEW a, a.handler = q.handler, a.arg = q.arg, a.since = q.since,
         a.conn = q.conn
  PROVE  /\ \A i, f : ShownSince(a, i, f) <=> ShownSince(q, i, f)
         /\ \A i : Reached(a, i) = Reached(q, i)
BY DEF ShownSince, Reached, Found

PCs == {"idle", "refused", "reading", "answered", "open", "polling", "closed", "broken"}

\* A step of one request.
LEMMA RequestMoves ==
  ASSUME IInv, NEW r \in Requests, NEW q, req' = [req EXCEPT ![r] = q],
         UNCHANGED <<log, clients>>, q.pc \in PCs, RequestOK(q)
  PROVE  IInv'
<1>1. \A x \in Requests : req'[x] = IF x = r THEN q ELSE req[x]
  BY DEF IInv, RequestsOK
<1>2. TypeOK'
  BY <1>1 DEF IInv, TypeOK, PCs, clients
<1>3. PositionsOK'
  BY DEF IInv, PositionsOK, clients
<1>4. \A x : RequestOK(x)' <=> RequestOK(x)
  BY DEF RequestOK, AskedOK, Truthful, ShownSince, Found, Seen, Reached, Upcoming, clients
<1>5. \A x \in {req'[y] : y \in Requests} : RequestOK(x)'
  BY <1>1, <1>4 DEF IInv, RequestsOK
<1>6. req' = [x \in Requests |-> req'[x]]
  BY DEF IInv, RequestsOK
<1>7. QED
  BY <1>2, <1>3, <1>5, <1>6 DEF IInv, RequestsOK

\* The steps that lead to no answer, those of a log among them.
LEMMA PlainMoves ==
  ASSUME IInv, NEW r \in Requests, NEW q, req' = [req EXCEPT ![r] = q],
         UNCHANGED <<log, clients>>, q.pc \in PCs \ {"reading", "answered"}
  PROVE  IInv'
<1>1. RequestOK(q)
  BY DEF RequestOK
<1>2. QED
  BY <1>1, RequestMoves

LEMMA LogMoves ==
  ASSUME IInv, NEW r \in Requests, NEW pc \in {"open", "polling", "closed", "broken"},
         NEW follow, NEW watched, NEW whole, NEW total, NEW got, NEW shown,
         req' = [req EXCEPT ![r] = Log(pc, follow, watched, whole, total, got, shown)],
         UNCHANGED <<log, clients>>
  PROVE  IInv'
<1> DEFINE q == Log(pc, follow, watched, whole, total, got, shown)
<1>1. q.pc = pc
  BY DEF Log
<1>2. req' = [req EXCEPT ![r] = q]
  OBVIOUS
<1> HIDE DEF q
<1>3. q.pc \in PCs \ {"reading", "answered"}
  BY <1>1 DEF PCs
<1>4. QED
  BY <1>2, <1>3, PlainMoves

LEMMA StreamStepInv ==
  ASSUME IInv, NEW r \in Requests,
         \/ StreamClusterLogs(r) \/ Write(r) \/ Stream(r) \/ BreakOff(r) \/ StopWatching(r)
         \/ Leave(r)
  PROVE  IInv'
<1>1. CASE Leave(r)
  <2>1. Idle.pc \in PCs \ {"reading", "answered"}
    BY DEF Idle, PCs
  <2>2. QED
    BY <1>1, <2>1, PlainMoves DEF Leave
<1>2. CASE StreamClusterLogs(r)
  <2> DEFINE watched == TRUE
  <2>1. \E follow, whole, total :
          req' = [req EXCEPT ![r] = Log("open", follow, watched, whole, total, 0, 0)]
    BY <1>2 DEF StreamClusterLogs
  <2> HIDE DEF watched
  <2>2. UNCHANGED <<log, clients>>
    BY <1>2 DEF StreamClusterLogs
  <2>3. QED
    BY <2>1, <2>2, LogMoves
<1>3. CASE Write(r)
  <2> DEFINE t == req[r]
             yes == TRUE
             no == FALSE
  <2>1. \/ req' = [req EXCEPT ![r] =
             Log("open", t.follow, t.watched, no, t.total + 1, t.got, t.shown)]
        \/ req' = [req EXCEPT ![r] =
             Log("open", t.follow, t.watched, yes, t.total, t.got, t.shown)]
    BY <1>3 DEF Write
  <2> HIDE DEF yes, no
  <2>2. UNCHANGED <<log, clients>>
    BY <1>3 DEF Write
  <2>3. QED
    BY <2>1, <2>2, LogMoves
<1>4. CASE Receive(r)
  BY <1>4, LogMoves DEF Receive
<1>5. CASE SendLine(r)
  BY <1>5, LogMoves DEF SendLine
<1>6. CASE EndOfLog(r)
  <2>1. CASE req[r].follow
    BY <1>6, <2>1, LogMoves DEF EndOfLog
  <2>2. CASE ~req[r].follow
    BY <1>6, <2>2, LogMoves DEF EndOfLog
  <2>3. QED
    BY <2>1, <2>2
<1>7. CASE Cancel(r)
  BY <1>7, LogMoves DEF Cancel
<1>8. CASE BreakOff(r)
  BY <1>8, LogMoves DEF BreakOff
<1>9. CASE StopWatching(r)
  BY <1>9, LogMoves DEF StopWatching, Streaming
<1>10. QED
  BY <1>1, <1>2, <1>3, <1>4, <1>5, <1>6, <1>7, <1>8, <1>9 DEF Stream

LEMMA MiddlewareInv ==
  ASSUME IInv, NEW r \in Requests, ClusterMiddleware(r)
  PROVE  IInv'
<1>1. UNCHANGED <<log, clients>>
  BY DEF ClusterMiddleware
<1>2. CASE req' = [req EXCEPT ![r] = Refused]
  <2>1. Refused.pc \in PCs \ {"reading", "answered"}
    BY DEF Refused, PCs
  <2>2. QED
    BY <1>1, <1>2, <2>1, PlainMoves
<1>3. CASE client # NoConn /\ req' # [req EXCEPT ![r] = Refused]
  <2>1. PICK h \in Routes, arg \in Args :
          /\ Subjects(h) \subseteq Kinds
          /\ req' = [req EXCEPT ![r] = Reading(h, arg, client, Since(h), <<>>)]
    BY <1>3 DEF ClusterMiddleware
  <2> DEFINE q == Reading(h, arg, client, Since(h), <<>>)
  <2>2. /\ q.pc = "reading" /\ q.handler = h /\ q.conn = client
        /\ q.since = Since(h) /\ q.read = <<>>
    BY ReadingFields
  <2>3. req' = [req EXCEPT ![r] = q]
    BY <2>1
  <2> HIDE DEF q
  <2>4. client \in Conns /\ client \in 1 .. made
    BY <1>3, ClientTypes DEF IInv
  <2>5. /\ Len(h) \in Nat /\ DOMAIN h = 1 .. Len(h)
        /\ \A i \in DOMAIN h : h[i].kind \in Kinds
    BY <2>1, HandlerTypes
  <2>6. ASSUME NEW i \in DOMAIN q.handler
        PROVE  q.since[i] \in Nat /\ q.since[i] <= Reached(q, i)
    <3>1. q.since[i] = IF h[i].from = "cache" THEN lister[client][h[i].kind]
                       ELSE Len(log[h[i].kind])
      BY <2>2 DEF Since
    <3>2. q.since[i] = Reached(q, i)
      BY <2>2, <3>1 DEF Reached
    <3>3. lister[client][h[i].kind] \in Nat /\ Len(log[h[i].kind]) \in Nat
      BY <2>2, <2>4, <2>5 DEF IInv, TypeOK
    <3>4. q.since[i] \in Nat
      BY <3>1, <3>3
    <3>5. QED
      BY <3>2, <3>4
  <2>7. /\ q.read \in Seq(SUBSET UNION AnyContent) /\ Len(q.read) = 0 /\ DOMAIN q.read = {}
    BY <2>2
  <2>8. AskedOK(q)
    BY <2>1, <2>2, <2>4, <2>5, <2>6, <2>7 DEF AskedOK
  <2>9. RequestOK(q) /\ q.pc \in PCs
    BY <2>2, <2>8 DEF RequestOK, PCs
  <2>10. QED
    BY <1>1, <2>3, <2>9, RequestMoves
<1>4. QED
  BY <1>2, <1>3 DEF ClusterMiddleware

\* A request that is being answered was asked, and is read in order.
LEMMA ReadingOK ==
  ASSUME IInv, NEW r \in Requests, req[r].pc = "reading"
  PROVE  AskedOK(req[r])
BY DEF IInv, RequestsOK, RequestOK

\* The answer to a request: an end of it before its last read is not a 200.
LEMMA AnswerInv ==
  ASSUME IInv, NEW r \in Requests, req[r].pc = "reading", UNCHANGED <<log, clients>>,
         NEW status, req' = [req EXCEPT ![r] = Answered(req[r], status)],
         (status = 200) <=> Len(req[r].read) = Len(req[r].handler),
         status = 404 /\ Upcoming(req[r]).from = "cache"
            => ShownSince(req[r], Len(req[r].read) + 1, {})
  PROVE  IInv'
<1> DEFINE q == req[r]
           a == Answered(q, status)
<1>1. /\ a.pc = "answered" /\ a.handler = q.handler /\ a.arg = q.arg /\ a.conn = q.conn
      /\ a.since = q.since /\ a.read = q.read /\ a.status = status
  BY AnsweredFields
<1>2. AskedOK(q)
  BY ReadingOK
<1>3. req' = [req EXCEPT ![r] = a]
  OBVIOUS
<1>4. Len(q.read) \in Nat /\ Len(q.handler) \in Nat
  BY <1>2, AskedTypes DEF IInv
<1> HIDE DEF a
<1>5. /\ \A i, f : ShownSince(a, i, f) <=> ShownSince(q, i, f)
      /\ \A i : Reached(a, i) = Reached(q, i)
  BY <1>1, SameQuestion
<1>6. AskedOK(a)
  BY <1>1, <1>2, <1>5 DEF AskedOK
<1>7. \A i \in DOMAIN a.read : ShownSince(a, i, a.read[i])
  BY <1>6 DEF AskedOK
<1>8. Upcoming(a) = Upcoming(q)
  BY <1>1 DEF Upcoming
<1>9. Truthful(a)
  BY <1>1, <1>5, <1>7, <1>8 DEF Truthful
<1>10. Len(a.read) <= Len(a.handler)
  BY <1>6 DEF AskedOK
<1>11. a.status # 200 => Len(a.read) < Len(a.handler)
  BY <1>1, <1>4, <1>10
<1>12. RequestOK(a) /\ a.pc \in PCs
  BY <1>1, <1>6, <1>9, <1>11 DEF RequestOK, PCs
<1>13. QED
  BY <1>3, <1>12, RequestMoves

LEMMA TakeInv ==
  ASSUME IInv, NEW r \in Requests, Unfinished(req[r]), UNCHANGED <<log, clients>>,
         NEW p \in Nat, p <= Len(log[Upcoming(req[r]).kind]),
         req[r].since[Len(req[r].read) + 1] <= p,
         Take(r, Seen(Upcoming(req[r]).kind, p))
  PROVE  IInv'
<1> DEFINE q == req[r]
           n == Len(q.read) + 1
           k == Upcoming(q).kind
<1>a. PICK found \in Answers(Upcoming(q), Found(q, n, Seen(k, p))) : Took(r, found)
  BY DEF Take
<1>1. q.pc = "reading" /\ AskedOK(q) /\ Len(q.read) < Len(q.handler)
  BY ReadingOK DEF Unfinished
<1>2. /\ Len(q.handler) \in Nat /\ DOMAIN q.handler = 1 .. Len(q.handler)
      /\ Len(q.read) \in Nat /\ DOMAIN q.read = 1 .. Len(q.read)
      /\ \A i \in DOMAIN q.handler : q.handler[i].kind \in Kinds /\ q.since[i] \in Nat
  BY <1>1, AskedTypes DEF IInv
<1>3. /\ n \in DOMAIN q.handler /\ k = q.handler[n].kind /\ k \in Kinds /\ q.since[n] \in Nat
      /\ Upcoming(q) = q.handler[n]
  BY <1>1, <1>2 DEF Upcoming
<1>4. Len(log[k]) \in Nat
  BY <1>3 DEF IInv, TypeOK
<1>5. p \in q.since[n] .. Len(log[k]) /\ p \in 0 .. Len(log[k])
  BY <1>3, <1>4
<1>6. ShownSince(q, n, found)
  BY <1>a, <1>3, <1>5 DEF ShownSince
<1>7. found \subseteq UNION AnyContent
  <2>1. Seen(k, p) \subseteq UNION AnyContent
    BY <1>3, <1>5, ContentTypes DEF IInv
  <2>2. QED
    BY <1>a, <2>1, AnswersType DEF Found
<1>8. CASE found = {} /\ req' = [req EXCEPT ![r] = Answered(q, 404)]
  <2> DEFINE status == 404
  <2>1. status # 200 /\ Len(q.read) # Len(q.handler)
    BY <1>1, <1>2
  <2>2. ShownSince(q, n, {})
    BY <1>6, <1>8
  <2>3. req' = [req EXCEPT ![r] = Answered(q, status)]
    BY <1>8
  <2> HIDE DEF status
  <2>4. QED
    BY <1>1, <2>1, <2>2, <2>3, AnswerInv
<1>9. CASE req' = [req EXCEPT ![r] =
              Reading(q.handler, q.arg, q.conn, q.since, Append(q.read, found))]
  <2> DEFINE more == Append(q.read, found)
             b == Reading(q.handler, q.arg, q.conn, q.since, more)
  <2> HIDE DEF more
  <2>1. /\ b.pc = "reading" /\ b.handler = q.handler /\ b.arg = q.arg /\ b.conn = q.conn
        /\ b.since = q.since /\ b.read = more
    BY ReadingFields
  <2>2. req' = [req EXCEPT ![r] = b]
    BY <1>9 DEF more
  <2> HIDE DEF b
  <2>3. /\ \A i, f : ShownSince(b, i, f) <=> ShownSince(q, i, f)
        /\ \A i : Reached(b, i) = Reached(q, i)
    BY <2>1, SameQuestion
  <2>4. q.read \in Seq(SUBSET UNION AnyContent)
    BY <1>1 DEF AskedOK
  <2>5. b.read \in Seq(SUBSET UNION AnyContent) /\ Len(b.read) = n
    BY <1>7, <2>1, <2>4, AppendType DEF more
  <2>6. Len(b.read) <= Len(b.handler)
    BY <1>1, <1>2, <2>1, <2>5
  <2>7. ASSUME NEW i \in DOMAIN b.read PROVE ShownSince(b, i, b.read[i])
    <3>1. i \in 1 .. Len(q.read) + 1
      BY <2>5
    <3>2. b.read[i] = IF i <= Len(q.read) THEN q.read[i] ELSE found
      BY <1>7, <2>1, <2>4, <3>1, AppendAt DEF more
    <3>3. CASE i <= Len(q.read)
      <4>1. i \in DOMAIN q.read /\ b.read[i] = q.read[i]
        BY <1>2, <3>1, <3>2, <3>3
      <4>2. QED
        BY <1>1, <2>3, <4>1 DEF AskedOK
    <3>4. CASE ~(i <= Len(q.read))
      <4>1. i = n /\ b.read[i] = found
        BY <1>2, <3>1, <3>2, <3>4
      <4>2. QED
        BY <1>6, <2>3, <4>1
    <3>5. QED
      BY <3>3, <3>4
  <2>8. AskedOK(b)
    BY <1>1, <2>1, <2>3, <2>5, <2>6, <2>7 DEF AskedOK
  <2>9. RequestOK(b) /\ b.pc \in PCs
    BY <2>1, <2>8 DEF RequestOK, PCs
  <2>10. QED
    BY <2>2, <2>9, RequestMoves
<1>10. QED
  BY <1>a, <1>8, <1>9 DEF Took

LEMMA ListCachedInv ==
  ASSUME IInv, NEW r \in Requests, ListCached(r)
  PROVE  IInv'
<1> DEFINE q == req[r]
           k == Upcoming(q).kind
           n == Len(q.read) + 1
           p == lister[q.conn][k]
<1>1. /\ Unfinished(q) /\ Upcoming(q).from = "cache" /\ Take(r, Seen(k, p))
      /\ UNCHANGED <<log, clients>>
  BY DEF ListCached
<1>2. AskedOK(q) /\ Len(q.read) < Len(q.handler)
  BY <1>1, ReadingOK DEF Unfinished
<1>3. /\ Len(q.handler) \in Nat /\ DOMAIN q.handler = 1 .. Len(q.handler)
      /\ Len(q.read) \in Nat /\ q.conn \in Conns
      /\ \A i \in DOMAIN q.handler : q.handler[i].kind \in Kinds
  BY <1>2, AskedTypes DEF IInv
<1>4. n \in DOMAIN q.handler /\ k \in Kinds /\ Upcoming(q) = q.handler[n]
  BY <1>2, <1>3 DEF Upcoming
<1>5. p \in Nat /\ p <= Len(log[k])
  BY <1>3, <1>4 DEF IInv, TypeOK, PositionsOK
<1>6. q.since[n] <= p
  BY <1>1, <1>2, <1>4 DEF AskedOK, Reached
<1>7. QED
  BY <1>1, <1>5, <1>6, TakeInv

LEMMA FetchInv ==
  ASSUME IInv, NEW r \in Requests, Fetch(r)
  PROVE  IInv'
<1> DEFINE q == req[r]
           k == Upcoming(q).kind
           n == Len(q.read) + 1
           p == Len(log[k])
<1>1. Unfinished(q) /\ Upcoming(q).from # "cache" /\ UNCHANGED <<log, clients>>
  BY DEF Fetch
<1>2. q.pc = "reading" /\ AskedOK(q) /\ Len(q.read) < Len(q.handler)
  BY <1>1, ReadingOK DEF Unfinished
<1>3. /\ Len(q.handler) \in Nat /\ DOMAIN q.handler = 1 .. Len(q.handler)
      /\ Len(q.read) \in Nat
      /\ \A i \in DOMAIN q.handler : q.handler[i].kind \in Kinds
  BY <1>2, AskedTypes DEF IInv
<1>4. n \in DOMAIN q.handler /\ k \in Kinds /\ Upcoming(q) = q.handler[n]
  BY <1>2, <1>3 DEF Upcoming
<1>5. p \in Nat /\ p > 0 /\ p <= Len(log[k])
  BY <1>4 DEF IInv, TypeOK
<1>6. q.since[n] <= p
  BY <1>1, <1>2, <1>4 DEF AskedOK, Reached
<1>7. CASE Take(r, Latest(k))
  <2>1. Latest(k) = Seen(k, p)
    BY <1>5 DEF Latest, Seen
  <2>2. Take(r, Seen(k, p))
    BY <1>7, <2>1
  <2>3. QED
    BY <1>1, <1>5, <1>6, <2>2, TakeInv
<1>8. CASE req' = [req EXCEPT ![r] = Answered(q, IF Upcoming(q).by = Named THEN 404 ELSE 500)]
  <2> DEFINE status == IF Upcoming(q).by = Named THEN 404 ELSE 500
  <2>1. status # 200 /\ Len(q.read) # Len(q.handler)
    BY <1>2, <1>3
  <2>2. Upcoming(q).from # "cache"
    BY <1>1
  <2>3. req' = [req EXCEPT ![r] = Answered(q, status)]
    BY <1>8
  <2> HIDE DEF status
  <2>4. QED
    BY <1>1, <1>2, <2>1, <2>2, <2>3, AnswerInv
<1>9. QED
  BY <1>7, <1>8 DEF Fetch

LEMMA RespondInv ==
  ASSUME IInv, NEW r \in Requests, Respond(r)
  PROVE  IInv'
<1> DEFINE status == 200
<1>1. /\ req[r].pc = "reading" /\ UNCHANGED <<log, clients>>
      /\ Len(req[r].read) = Len(req[r].handler)
      /\ req' = [req EXCEPT ![r] = Answered(req[r], status)]
  BY DEF Respond
<1>2. status = 200 <=> Len(req[r].read) = Len(req[r].handler)
  BY <1>1
<1>3. status # 404
  OBVIOUS
<1> HIDE DEF status
<1>4. status = 404 /\ Upcoming(req[r]).from = "cache"
        => ShownSince(req[r], Len(req[r].read) + 1, {})
  BY <1>3
<1>5. QED
  BY <1>1, <1>2, <1>4, AnswerInv

LEMMA StutterInv == ASSUME IInv, UNCHANGED vars PROVE IInv'
<1>1. UNCHANGED <<log, made, client, informers, running, lister, req>>
  BY DEF vars, clients
<1>2. TypeOK' /\ PositionsOK'
  BY <1>1 DEF IInv, TypeOK, PositionsOK
<1>3. made <= made' /\ \A c \in 1 .. made, k \in Kinds : lister[c][k] <= lister'[c][k]
  <2>1. \A c \in 1 .. made, k \in Kinds : lister[c][k] \in Nat
    BY BoundsAssumption DEF IInv, TypeOK, Conns
  <2>2. QED
    BY <1>1, <2>1 DEF IInv, TypeOK
<1>4. QED
  BY <1>1, <1>2, <1>3, ConnectionsInv

LEMMA NextInv == ASSUME IInv, Next PROVE IInv'
<1>1. CASE \E k \in Kinds : Change(k)
  BY <1>1, ChangeInv
<1>2. CASE InitInClusterCluster
  <2>1. InitInCluster \subseteq startClusterInformers
    BY DEF InitInCluster
  <2>2. QED
    BY <1>2, <2>1, ConnectInv DEF InitInClusterCluster
<1>3. CASE AddClustersFromKubeconfig
  BY <1>3, ConnectInv DEF AddClustersFromKubeconfig
<1>4. CASE RemoveCluster
  BY <1>4, UnlistedInv
<1>5. CASE \E c \in Conns : InformersStop(c) \/ \E k \in Kinds : WatchEvent(c, k)
  BY <1>5, UnlistedInv, WatchEventInv
<1>6. ASSUME NEW r \in Requests,
             \/ ClusterMiddleware(r) \/ ListCached(r) \/ Fetch(r) \/ Respond(r) \/ Leave(r)
             \/ StreamClusterLogs(r) \/ Write(r) \/ Stream(r) \/ BreakOff(r) \/ StopWatching(r)
      PROVE  IInv'
  BY <1>6, MiddlewareInv, ListCachedInv, FetchInv, RespondInv, StreamStepInv
<1>7. QED
  BY <1>1, <1>2, <1>3, <1>4, <1>5, <1>6 DEF Next

-----------------------------------------------------------------------------
(* No cache is ever ahead of the API server, and whatever a request has    *)
(* still to read is no older than when it came in: positions of caches and *)
(* logs only grow, and a handler keeps the connection it was given.        *)
THEOREM Inductive == Spec => []IInv
<1>1. Init => IInv
  BY InitInv
<1>2. IInv /\ [Next]_vars => IInv'
  BY NextInv, StutterInv
<1>3. QED
  BY <1>1, <1>2, PTL DEF Spec

(* A registered client is one whose informers run, each cache and each log *)
(* is of its kind, and every request is in one of its stages.              *)
THEOREM TypeCorrect == Spec => []TypeOK
<1>1. IInv => TypeOK
  BY DEF IInv
<1>2. QED
  BY Inductive, <1>1, PTL

(* No answer of a read-only handler shows a state from before its request  *)
(* came in, of the API server or of the cache it asked, for all handlers,  *)
(* also those that combine several kinds, however often the cluster is     *)
(* removed and connected again meanwhile; and none leaves out any of what  *)
(* it selects, but for what lies beyond the first page of GetClusterEvents.*)
THEOREM AnswersAreRecentEver == Spec => []AnswersAreRecent
<1>1. IInv => AnswersAreRecent
  BY DEF IInv, RequestsOK, RequestOK, AnswersAreRecent
<1>2. QED
  BY Inductive, <1>1, PTL

-----------------------------------------------------------------------------
(* The caches the handlers list have informers.                            *)

IsFed(h) == \A i \in DOMAIN h : h[i].from = "cache" => h[i].kind \in InitInCluster

LEMMA ReadTypes ==
  ASSUME NEW k, NEW by
  PROVE  /\ Listed(k, by).kind = k /\ Listed(k, by).from = "cache"
         /\ Fetched(k, by).kind = k /\ Fetched(k, by).from = "server"
         /\ FirstPage(k, by).kind = k /\ FirstPage(k, by).from = "page"
BY DEF Listed, Fetched, FirstPage

LEMMA FedTuples ==
  /\ \A k \in InitInCluster : \A by : IsFed(<<Listed(k, by)>>)
  /\ \A k, by : IsFed(<<Fetched(k, by)>>) /\ IsFed(<<FirstPage(k, by)>>)
  /\ \A k, l \in InitInCluster : \A by, of :
        IsFed(<<Listed(k, by), Listed(l, of)>>)
  /\ \A l \in InitInCluster : \A k, by, of :
        IsFed(<<Fetched(k, by), Listed(l, of)>>)
  /\ \A k, l, m, n \in InitInCluster : \A by :
        IsFed(<<Listed(k, by), Listed(l, by), Listed(m, by), Listed(n, by)>>)
BY ReadTypes DEF IsFed

\* The list of start-up has every kind a handler lists.
LEMMA RoutesFed == \A h \in Routes : IsFed(h)
<1>1. /\ IsFed(GetClusterOverview)
      /\ IsFed(GetClusterNode)
      /\ IsFed(GetClusterNodeMetrics)
  BY FedTuples DEF InitInCluster, startClusterInformers,
     GetClusterOverview, GetClusterNode, GetClusterNodeMetrics
<1>2. \A k \in kindToGVR : IsFed(GetClusterGenericResources(k))
  BY FedTuples DEF GetClusterGenericResources
<1>3. /\ IsFed(GetClusterNamespaces)
      /\ IsFed(GetClusterNamespaceDetail)
      /\ IsFed(GetClusterNodes)
      /\ IsFed(GetClusterPods)
      /\ IsFed(GetClusterPodDetail)
      /\ IsFed(GetClusterDeployments)
      /\ IsFed(GetClusterDeploymentDetail)
      /\ IsFed(GetClusterDaemonSets)
      /\ IsFed(GetClusterDaemonSetDetail)
      /\ IsFed(GetClusterStatefulSets)
      /\ IsFed(GetClusterStatefulSetDetail)
      /\ IsFed(GetClusterReplicaSets)
      /\ IsFed(GetClusterReplicaSetDetail)
      /\ IsFed(GetClusterJobs)
      /\ IsFed(GetClusterJobDetail)
      /\ IsFed(GetClusterCronJobs)
      /\ IsFed(GetClusterCronJobDetail)
      /\ IsFed(GetClusterServices)
      /\ IsFed(GetClusterServiceDetail)
      /\ IsFed(GetClusterPodMetrics)
  BY FedTuples DEF InitInCluster, startClusterInformers,
     GetClusterNamespaces, GetClusterNamespaceDetail, GetClusterNodes,
     GetClusterPods, GetClusterPodDetail, GetClusterDeployments,
     GetClusterDeploymentDetail, GetClusterDaemonSets, GetClusterDaemonSetDetail,
     GetClusterStatefulSets, GetClusterStatefulSetDetail, GetClusterReplicaSets,
     GetClusterReplicaSetDetail, GetClusterJobs, GetClusterJobDetail,
     GetClusterCronJobs, GetClusterCronJobDetail, GetClusterServices,
     GetClusterServiceDetail, GetClusterPodMetrics
<1>4. /\ IsFed(GetClusterIngresses)
      /\ IsFed(GetClusterIngressDetail)
      /\ IsFed(GetClusterIngressClasses)
      /\ IsFed(GetClusterIngressClassDetail)
      /\ IsFed(GetClusterNetworkPolicies)
      /\ IsFed(GetClusterNetworkPolicyDetail)
      /\ IsFed(GetClusterConfigMaps)
      /\ IsFed(GetClusterConfigMapDetail)
      /\ IsFed(GetClusterSecrets)
      /\ IsFed(GetClusterSecretDetail)
      /\ IsFed(GetClusterPersistentVolumes)
      /\ IsFed(GetClusterPVDetail)
      /\ IsFed(GetClusterPersistentVolumeClaims)
      /\ IsFed(GetClusterPVCDetail)
      /\ IsFed(GetClusterStorageClasses)
      /\ IsFed(GetClusterStorageClassDetail)
  BY FedTuples DEF InitInCluster, startClusterInformers,
     GetClusterIngresses, GetClusterIngressDetail, GetClusterIngressClasses,
     GetClusterIngressClassDetail, GetClusterNetworkPolicies,
     GetClusterNetworkPolicyDetail, GetClusterConfigMaps,
     GetClusterConfigMapDetail, GetClusterSecrets, GetClusterSecretDetail,
     GetClusterPersistentVolumes, GetClusterPVDetail,
     GetClusterPersistentVolumeClaims, GetClusterPVCDetail,
     GetClusterStorageClasses, GetClusterStorageClassDetail
<1>5. /\ IsFed(GetClusterClusterRoles)
      /\ IsFed(GetClusterClusterRoleDetailView)
      /\ IsFed(GetClusterClusterRoleBindings)
      /\ IsFed(GetClusterClusterRoleBindingDetailView)
      /\ IsFed(GetClusterRolesView)
      /\ IsFed(GetClusterRoleDetailView)
      /\ IsFed(GetClusterRoleBindingsView)
      /\ IsFed(GetClusterRoleBindingDetailView)
      /\ IsFed(GetClusterServiceAccounts)
      /\ IsFed(GetClusterServiceAccountDetail)
      /\ IsFed(GetClusterHPAs)
      /\ IsFed(GetClusterHPADetail)
      /\ IsFed(GetClusterEvents)
      /\ IsFed(GetClusterEventsForResource)
  BY FedTuples DEF InitInCluster, startClusterInformers,
     GetClusterClusterRoles, GetClusterClusterRoleDetailView,
     GetClusterClusterRoleBindings, GetClusterClusterRoleBindingDetailView,
     GetClusterRolesView, GetClusterRoleDetailView, GetClusterRoleBindingsView,
     GetClusterRoleBindingDetailView, GetClusterServiceAccounts,
     GetClusterServiceAccountDetail, GetClusterHPAs, GetClusterHPADetail,
     GetClusterEvents, GetClusterEventsForResource
<1>6. QED
  BY <1>1, <1>2, <1>3, <1>4, <1>5 DEF Routes

LEMMA ListedFed == ListedKinds \subseteq InitInCluster /\ ListedKinds \subseteq Kinds
BY RoutesFed DEF ListedKinds, IsFed

LEMMA ConnectFed ==
  ASSUME IInv, FedOK, NEW kinds, ListedKinds \subseteq kinds, Connect(kinds)
  PROVE  FedOK'
<1> DEFINE c == made + 1
<1>1. PICK at \in [Kinds -> 0 .. MaxChanges + 1] :
        /\ \A k \in Kinds : at[k] \in IF k \in kinds THEN 1 .. Len(log[k]) ELSE {0}
        /\ lister' = [lister EXCEPT ![c] = at]
  BY DEF Connect
<1>2. made < MaxConns /\ made' = c /\ informers' = [informers EXCEPT ![c] = kinds]
  BY DEF Connect
<1>3. c \in Conns /\ 1 .. c = (1 .. made) \cup {c} /\ 1 .. made \subseteq Conns /\ c \notin 1 .. made
  BY <1>2, BoundsAssumption DEF IInv, TypeOK, Conns
<1> HIDE DEF c
<1>4. \A x \in Conns : /\ lister'[x] = IF x = c THEN at ELSE lister[x]
                      /\ informers'[x] = IF x = c THEN kinds ELSE informers[x]
  BY <1>1, <1>2 DEF IInv, TypeOK
<1>5. \A k \in ListedKinds : k \in kinds /\ at[k] > 0
  BY <1>1, ListedFed DEF IInv, TypeOK
<1>6. ASSUME NEW x \in 1 .. c, NEW k \in ListedKinds PROVE Fed(x, k)'
  <2>1. CASE x = c
    BY <1>3, <1>4, <1>5, <2>1 DEF Fed
  <2>2. CASE x \in 1 .. made
    <3>1. x # c /\ x \in Conns /\ Fed(x, k)
      BY <1>3, <2>2 DEF FedOK
    <3>2. QED
      BY <1>4, <3>1 DEF Fed
  <2>3. QED
    BY <1>3, <2>1, <2>2
<1>7. QED
  BY <1>2, <1>6 DEF FedOK, ListedKinds

LEMMA WatchEventFed ==
  ASSUME IInv, FedOK, NEW c \in Conns, NEW k \in Kinds, WatchEvent(c, k)
  PROVE  FedOK'
<1>1. PICK i \in lister[c][k] + 1 .. Len(log[k]) :
        lister' = [lister EXCEPT ![c] = [lister[c] EXCEPT ![k] = i]]
  BY DEF WatchEvent
<1>2. made' = made /\ informers' = informers /\ 1 .. made \subseteq Conns
  BY BoundsAssumption DEF WatchEvent, IInv, TypeOK, Conns
<1>3. lister \in [Conns -> [Kinds -> Nat]] /\ Len(log[k]) \in Nat
  BY DEF IInv, TypeOK
<1>4. i > 0
  BY <1>1, <1>3
<1>5. \A x \in Conns, y \in Kinds : lister'[x][y] = IF x = c /\ y = k THEN i ELSE lister[x][y]
  BY <1>1, <1>3
<1>6. ASSUME NEW x \in 1 .. made, NEW y \in ListedKinds PROVE Fed(x, y)'
  <2>1. x \in Conns /\ y \in Kinds /\ Fed(x, y)
    BY <1>2, ListedFed DEF FedOK
  <2>2. lister'[x][y] = i \/ lister'[x][y] = lister[x][y]
    BY <1>5, <2>1
  <2>3. QED
    BY <1>2, <1>4, <2>1, <2>2 DEF Fed
<1>7. QED
  BY <1>2, <1>6 DEF FedOK, ListedKinds

LEMMA OtherFed ==
  ASSUME FedOK, UNCHANGED <<made, informers, lister>>
  PROVE  FedOK'
BY DEF FedOK, Fed, ListedKinds

LEMMA NextFed ==
  ASSUME IInv, FedOK, [Next]_vars
  PROVE  FedOK'
<1>1. CASE InitInClusterCluster \/ AddClustersFromKubeconfig
  <2>1. ListedKinds \subseteq InitInCluster /\ ListedKinds \subseteq startClusterInformers
    BY ListedFed DEF InitInCluster
  <2>2. QED
    BY <1>1, <2>1, ConnectFed DEF InitInClusterCluster, AddClustersFromKubeconfig
<1>2. CASE \E c \in Conns, k \in Kinds : WatchEvent(c, k)
  BY <1>2, WatchEventFed
<1>3. CASE RemoveCluster \/ \E c \in Conns : InformersStop(c)
  <2>1. UNCHANGED <<made, informers, lister>>
    BY <1>3 DEF RemoveCluster, InformersStop
  <2>2. QED
    BY <2>1, OtherFed
<1>4. CASE \E k \in Kinds : Change(k)
  BY <1>4, OtherFed DEF Change, clients
<1>5. CASE \E r \in Requests :
        \/ ClusterMiddleware(r) \/ ListCached(r) \/ Fetch(r) \/ Respond(r) \/ Leave(r)
        \/ StreamClusterLogs(r) \/ Write(r) \/ Stream(r) \/ BreakOff(r) \/ StopWatching(r)
  <2>1. UNCHANGED clients
    BY <1>5 DEF ClusterMiddleware, ListCached, Fetch, Respond, Leave, StreamClusterLogs,
       Write, Stream, Receive, SendLine, EndOfLog, Cancel, BreakOff, StopWatching
  <2>2. QED
    BY <2>1, OtherFed DEF clients
<1>6. CASE UNCHANGED vars
  BY <1>6, OtherFed DEF vars, clients
<1>7. QED
  BY <1>1, <1>2, <1>3, <1>4, <1>5, <1>6 DEF Next

(* No handler ever lists a cache that has no informer or that has not had  *)
(* its first list: the shorter list of informers of the in-cluster         *)
(* connection has every kind that any of the handlers lists.               *)
THEOREM ReadsAreFedAlways == Spec => []ReadsAreFed
<1>1. Init => FedOK
  BY DEF Init, FedOK
<1>2. IInv /\ FedOK /\ [Next]_vars => FedOK'
  BY NextFed
<1>3. IInv /\ FedOK => ReadsAreFed
  <2> SUFFICES ASSUME IInv, FedOK,
                      NEW q \in {req[r] : r \in Requests}, q.pc = "reading",
                      NEW i \in DOMAIN q.handler, q.handler[i].from = "cache"
               PROVE  Fed(q.conn, q.handler[i].kind)
    BY DEF ReadsAreFed
  <2>1. AskedOK(q)
    BY DEF IInv, RequestsOK, RequestOK
  <2>2. q.handler[i].kind \in ListedKinds
    BY <2>1, AskedTypes DEF IInv, AskedOK, ListedKinds
  <2>3. QED
    BY <2>1, <2>2 DEF AskedOK, FedOK
<1>4. QED
  BY Inductive, <1>1, <1>2, <1>3, PTL DEF Spec

-----------------------------------------------------------------------------
(* What a stream has sent when it ends.                                    *)

LEMMA LogStep ==
  ASSUME IInv, LogsOK, NEW r \in Requests, NEW q, req' = [req EXCEPT ![r] = q], LogOK(q)
  PROVE  LogsOK'
<1>1. \A x \in Requests : req'[x] = IF x = r THEN q ELSE req[x]
  BY DEF IInv, RequestsOK
<1>2. \A x \in Requests : LogOK(req'[x])
  BY <1>1 DEF LogsOK
<1>3. QED
  BY <1>2 DEF LogsOK

LEMMA LogFields ==
  ASSUME NEW pc, NEW follow, NEW watched, NEW whole, NEW total, NEW got, NEW shown, NEW q,
         q = Log(pc, follow, watched, whole, total, got, shown)
  PROVE  /\ q.pc = pc /\ q.watched = watched /\ q.whole = whole
         /\ q.total = total /\ q.got = got /\ q.shown = shown
BY DEF Log

\* No log at all.
LEMMA PlainLog ==
  ASSUME IInv, LogsOK, NEW r \in Requests, NEW q, req' = [req EXCEPT ![r] = q],
         q.pc \in {"idle", "refused", "reading", "answered"}
  PROVE  LogsOK'
<1>1. LogOK(q)
  BY DEF LogOK, Ended
<1>2. QED
  BY <1>1, LogStep

\* A stream that goes on.
LEMMA OpenLog ==
  ASSUME IInv, LogsOK, NEW r \in Requests,
         NEW follow, NEW watched, NEW whole, NEW total, NEW got \in Nat, NEW shown \in Nat,
         req' = [req EXCEPT ![r] = Log("open", follow, watched, whole, total, got, shown)],
         shown <= got
  PROVE  LogsOK'
<1> DEFINE q == Log("open", follow, watched, whole, total, got, shown)
<1>1. q.pc = "open" /\ q.got = got /\ q.shown = shown
  BY LogFields
<1>2. req' = [req EXCEPT ![r] = q]
  OBVIOUS
<1> HIDE DEF q
<1>3. LogOK(q)
  BY <1>1 DEF LogOK, Ended
<1>4. QED
  BY <1>2, <1>3, LogStep

\* One that has sent all that had come.
LEMMA EndedLog ==
  ASSUME IInv, LogsOK, NEW r \in Requests, NEW pc \in {"polling", "closed", "broken"},
         NEW follow, NEW watched, NEW whole, NEW total, NEW got \in Nat,
         req' = [req EXCEPT ![r] = Log(pc, follow, watched, whole, total, got, got)],
         pc = "broken" \/ (whole = TRUE /\ got = total)
  PROVE  LogsOK'
<1> DEFINE q == Log(pc, follow, watched, whole, total, got, got)
<1>1. /\ q.pc = pc /\ q.got = got /\ q.shown = got /\ q.total = total /\ q.whole = whole
  BY LogFields
<1>2. req' = [req EXCEPT ![r] = q]
  OBVIOUS
<1> HIDE DEF q
<1>3. pc = "broken" \/ (q.whole /\ q.got = q.total)
  BY <1>1
<1>4. LogOK(q)
  BY <1>1, <1>3 DEF LogOK, Ended
<1>5. QED
  BY <1>2, <1>4, LogStep

\* One that nobody watches any more.
LEMMA UnwatchedLog ==
  ASSUME IInv, LogsOK, NEW r \in Requests, NEW pc \in {"open", "polling", "closed"},
         Streaming(r), pc = req[r].pc \/ pc = "closed", NEW watched, watched = FALSE,
         req' = [req EXCEPT ![r] = Log(pc, req[r].follow, watched, req[r].whole,
                                       req[r].total, req[r].got, req[r].shown)]
  PROVE  LogsOK'
<1> DEFINE t == req[r]
           q == Log(pc, t.follow, watched, t.whole, t.total, t.got, t.shown)
<1>1. /\ q.pc = pc /\ q.watched = watched /\ q.whole = t.whole
      /\ q.total = t.total /\ q.got = t.got /\ q.shown = t.shown
  BY LogFields
<1>2. req' = [req EXCEPT ![r] = q]
  OBVIOUS
<1>3. t.pc \in {"open", "polling"} /\ LogOK(t)
  BY DEF LogsOK, Streaming
<1> HIDE DEF q, t
<1>4. ~q.watched
  BY <1>1
<1>5. pc = "polling" => t.pc = "polling"
  BY DEF t
<1>6. Ended(q) => t.pc = "polling"
  BY <1>1, <1>4, <1>5 DEF Ended
<1>7. q.shown \in Nat /\ q.got \in Nat /\ q.shown <= q.got
  BY <1>1, <1>3 DEF LogOK
<1>8. Ended(q) => q.shown = q.got /\ q.whole /\ q.got = q.total
  BY <1>1, <1>3, <1>6 DEF LogOK, Ended
<1>9. LogOK(q)
  BY <1>1, <1>7, <1>8 DEF LogOK
<1>10. QED
  BY <1>2, <1>9, LogStep

LEMMA OpenTypes ==
  ASSUME LogsOK, NEW r \in Requests, req[r].pc = "open"
  PROVE  req[r].shown \in Nat /\ req[r].got \in Nat /\ req[r].shown <= req[r].got
BY DEF LogsOK, LogOK

LEMMA StreamLogs ==
  ASSUME IInv, LogsOK, NEW r \in Requests,
         StreamClusterLogs(r) \/ Write(r) \/ Stream(r) \/ BreakOff(r) \/ StopWatching(r)
  PROVE  LogsOK'
<1> DEFINE t == req[r]
           yes == TRUE
           no == FALSE
<1>1. CASE StreamClusterLogs(r)
  <2> DEFINE zero == 0
  <2>1. \E follow, whole, total :
          req' = [req EXCEPT ![r] = Log("open", follow, yes, whole, total, zero, zero)]
    BY <1>1 DEF StreamClusterLogs
  <2>2. zero \in Nat /\ zero <= zero
    OBVIOUS
  <2> HIDE DEF zero, yes, no
  <2>3. QED
    BY <2>1, <2>2, OpenLog
<1>2. CASE Write(r)
  <2>1. \/ req' = [req EXCEPT ![r] =
             Log("open", t.follow, t.watched, no, t.total + 1, t.got, t.shown)]
        \/ req' = [req EXCEPT ![r] =
             Log("open", t.follow, t.watched, yes, t.total, t.got, t.shown)]
    BY <1>2 DEF Write
  <2>2. t.shown \in Nat /\ t.got \in Nat /\ t.shown <= t.got
    BY <1>2, OpenTypes DEF Write
  <2> HIDE DEF t, yes, no
  <2>3. QED
    BY <2>1, <2>2, OpenLog
<1>3. CASE Receive(r)
  <2>1. req' = [req EXCEPT ![r] =
            Log("open", t.follow, t.watched, t.whole, t.total, t.got + 1, t.shown)]
    BY <1>3 DEF Receive
  <2>2. t.shown \in Nat /\ t.got + 1 \in Nat /\ t.shown <= t.got + 1
    BY <1>3, OpenTypes DEF Receive
  <2> HIDE DEF t
  <2>3. QED
    BY <2>1, <2>2, OpenLog
<1>4. CASE SendLine(r)
  <2>1. /\ t.pc = "open" /\ ~Waits(t)
        /\ req' = [req EXCEPT ![r] =
              Log("open", t.follow, t.watched, t.whole, t.total, t.got, NextNewline(t))]
    BY <1>4 DEF SendLine
  <2>2. t.shown \in Nat /\ t.got \in Nat
    BY <2>1, OpenTypes
  <2>3. NextNewline(t) \in Nat
    BY <2>2 DEF NextNewline
  <2> DEFINE next == NextNewline(t)
  <2>4. next \in Nat /\ next <= t.got
    BY <2>1, <2>2, <2>3 DEF Waits
  <2>5. req' = [req EXCEPT ![r] =
            Log("open", t.follow, t.watched, t.whole, t.total, t.got, next)]
    BY <2>1
  <2> HIDE DEF t, next
  <2>6. QED
    BY <2>2, <2>4, <2>5, OpenLog
<1>5. CASE EndOfLog(r)
  <2> DEFINE pc == IF t.follow THEN "polling" ELSE "closed"
             got == t.got
  <2>1. /\ t.pc = "open" /\ got = t.total
        /\ req' = [req EXCEPT ![r] = Log(pc, t.follow, t.watched, yes, t.total, got, got)]
    BY <1>5 DEF EndOfLog, Waits
  <2>2. got \in Nat /\ pc \in {"polling", "closed", "broken"} /\ yes = TRUE
    BY <2>1, OpenTypes
  <2> HIDE DEF t, yes, pc, got
  <2>3. QED
    BY <2>1, <2>2, EndedLog
<1>6. CASE BreakOff(r)
  <2>1. /\ t.pc = "open"
        /\ req' = [req EXCEPT ![r] =
              Log("broken", t.follow, t.watched, t.whole, t.total, t.got, t.got)]
    BY <1>6 DEF BreakOff, Waits
  <2>2. t.got \in Nat
    BY <2>1, OpenTypes
  <2> HIDE DEF t
  <2>3. QED
    BY <2>1, <2>2, EndedLog
<1>7. CASE StopWatching(r)
  <2>1. /\ Streaming(r) /\ t.pc \in {"open", "polling", "closed"} /\ no = FALSE
        /\ req' = [req EXCEPT ![r] =
              Log(t.pc, t.follow, no, t.whole, t.total, t.got, t.shown)]
    BY <1>7 DEF StopWatching, Streaming
  <2> HIDE DEF no
  <2>2. QED
    BY <2>1, UnwatchedLog
<1>8. CASE Cancel(r)
  <2>1. /\ Streaming(r) /\ no = FALSE
        /\ req' = [req EXCEPT ![r] =
              Log("closed", t.follow, no, t.whole, t.total, t.got, t.shown)]
    BY <1>8 DEF Cancel
  <2> HIDE DEF no
  <2>2. QED
    BY <2>1, UnwatchedLog
<1>9. QED
  BY <1>1, <1>2, <1>3, <1>4, <1>5, <1>6, <1>7, <1>8 DEF Stream

\* The other steps of a request make no log.
LEMMA ReadLogs ==
  ASSUME IInv, LogsOK, NEW r \in Requests,
         ClusterMiddleware(r) \/ ListCached(r) \/ Fetch(r) \/ Respond(r) \/ Leave(r)
  PROVE  LogsOK'
<1>1. /\ Idle.pc = "idle" /\ Refused.pc = "refused"
      /\ \A h, a, c, s, d : Reading(h, a, c, s, d).pc = "reading"
      /\ \A q, status : Answered(q, status).pc = "answered"
  BY DEF Idle, Refused, Reading, Answered
<1> DEFINE Plain == \E q : /\ q.pc \in {"idle", "refused", "reading", "answered"}
                          /\ req' = [req EXCEPT ![r] = q]
<1>2. CASE ClusterMiddleware(r)
  <2>1. Plain
    BY <1>1, <1>2 DEF ClusterMiddleware
  <2>2. QED
    BY <2>1, PlainLog
<1>3. CASE ListCached(r) \/ Fetch(r)
  <2>1. Plain
    BY <1>1, <1>3 DEF ListCached, Fetch, Take, Took
  <2>2. QED
    BY <2>1, PlainLog
<1>4. CASE Respond(r)
  <2> DEFINE q == Answered(req[r], 200)
  <2>1. q.pc = "answered" /\ req' = [req EXCEPT ![r] = q]
    BY <1>1, <1>4 DEF Respond
  <2> HIDE DEF q
  <2>2. QED
    BY <2>1, PlainLog
<1>5. CASE Leave(r)
  <2>1. req' = [req EXCEPT ![r] = Idle]
    BY <1>5 DEF Leave
  <2>2. QED
    BY <1>1, <2>1, PlainLog
<1>6. QED
  BY <1>2, <1>3, <1>4, <1>5

LEMMA NextLogs ==
  ASSUME IInv, LogsOK, [Next]_vars
  PROVE  LogsOK'
<1>1. CASE \E r \in Requests :
        \/ ClusterMiddleware(r) \/ ListCached(r) \/ Fetch(r) \/ Respond(r) \/ Leave(r)
        \/ StreamClusterLogs(r) \/ Write(r) \/ Stream(r) \/ BreakOff(r) \/ StopWatching(r)
  BY <1>1, ReadLogs, StreamLogs
<1>2. CASE UNCHANGED req
  BY <1>2 DEF LogsOK
<1>3. CASE UNCHANGED vars
  BY <1>2, <1>3 DEF vars
<1>4. CASE \/ InitInClusterCluster \/ AddClustersFromKubeconfig \/ RemoveCluster
           \/ \E k \in Kinds : Change(k)
           \/ \E c \in Conns : InformersStop(c) \/ \E k \in Kinds : WatchEvent(c, k)
  <2>1. UNCHANGED req
    BY <1>4 DEF InitInClusterCluster, AddClustersFromKubeconfig, Connect, RemoveCluster,
       Change, InformersStop, WatchEvent
  <2>2. QED
    BY <1>2, <2>1
<1>5. QED
  BY <1>1, <1>3, <1>4 DEF Next

(* StreamClusterLogs: whatever has come of a log has been sent when its    *)
(* stream ends or breaks, and a stream that is still watched ends at the   *)
(* end of the log only, for logs of any length.                            *)
THEOREM EndedLogsAreWholeAlways == Spec => []EndedLogsAreWhole
<1>1. Init => LogsOK
  <2> SUFFICES ASSUME Init PROVE LogsOK
    OBVIOUS
  <2>1. \A r \in Requests : req[r].pc = "idle"
    BY DEF Init, Idle
  <2>2. QED
    BY <2>1 DEF LogsOK, LogOK, Ended
<1>2. IInv /\ LogsOK /\ [Next]_vars => LogsOK'
  BY NextLogs
<1>3. LogsOK => EndedLogsAreWhole
  BY DEF LogsOK, LogOK, EndedLogsAreWhole
<1>4. QED
  BY Inductive, <1>1, <1>2, <1>3, PTL DEF Spec
=============================================================================
