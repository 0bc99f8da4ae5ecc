---------------------------- MODULE LegacyRoutes ----------------------------
(***************************************************************************)
(* What the handlers of the single-cluster server (main.go) answer, as a   *)
(* function of the resources they read.  An object is a record of the      *)
(* three fields the handlers select by: name, namespace ("" for an object  *)
(* of the cluster) and node (the node a pod runs on, "" if none).          *)
(*                                                                         *)
(* A handler is a function: its domain is the set of kinds it reads, and   *)
(* its value at a kind is how it selects among the objects of that kind.   *)
(* Copying an object's fields into the answer is left out.                 *)
(***************************************************************************)
EXTENDS Selectors

Reading(k, by) == [x \in {k} |-> by]
And(f, g) == [x \in DOMAIN f \cup DOMAIN g |-> IF x \in DOMAIN f THEN f[x] ELSE g[x]]

---------------------------------------------------------------------------
\* The routes of main().
getOverview == [k \in {"nodes", "pods", "deployments", "daemonsets", "statefulsets",
                       "services", "namespaces"} |-> All]
getNamespaces == Reading("namespaces", All)

getNodes == Reading("nodes", All)
getNodeDetail == And(Reading("nodes", Named), Reading("pods", OnIt))
getPersistentVolumes == Reading("persistentvolumes", All)
getStorageClasses == Reading("storageclasses", All)
getClusterRoles == Reading("clusterroles", All)
getClusterRoleBindings == Reading("clusterrolebindings", All)

getPods == Reading("pods", InNs)
getPodDetail == Reading("pods", Named)
getDeployments == Reading("deployments", InNs)
getDeploymentDetail == Reading("deployments", Named)
getDaemonSets == Reading("daemonsets", InNs)
getStatefulSets == Reading("statefulsets", InNs)
getReplicaSets == Reading("replicasets", InNs)
getReplicationControllers == Reading("replicationcontrollers", InNs)
getJobs == Reading("jobs", InNs)
getCronJobs == Reading("cronjobs", InNs)

getServices == Reading("services", InNs)
getServiceDetail == And(Reading("services", Named), Reading("endpoints", Named))
getIngresses == Reading("ingresses", InNs)
getIngressClasses == Reading("ingressclasses", All)
getEndpoints == Reading("endpoints", InNs)

getConfigMaps == Reading("configmaps", InNs)
getConfigMapDetail == Reading("configmaps", Named)
getSecrets == Reading("secrets", InNs)
getSecretDetail == Reading("secrets", Named)
getPersistentVolumeClaims == Reading("persistentvolumeclaims", InNs)
getServiceAccounts == Reading("serviceaccounts", InNs)

Routes == {getOverview, getNamespaces, getNodes, getNodeDetail, getPersistentVolumes,
    getStorageClasses, getClusterRoles, getClusterRoleBindings, getPods, getPodDetail,
    getDeployments, getDeploymentDetail, getDaemonSets, getStatefulSets, getReplicaSets,
    getReplicationControllers, getJobs, getCronJobs, getServices, getServiceDetail,
    getIngresses, getIngressClasses, getEndpoints, getConfigMaps, getConfigMapDetail,
    getSecrets, getSecretDetail, getPersistentVolumeClaims, getServiceAccounts}

---------------------------------------------------------------------------
Found(handler, arg, snapshot) ==
    [k \in DOMAIN handler |-> {o \in snapshot[k] : Selects(handler[k], arg, o)}]

\* The kind whose object a detail page is about; its other kinds only add to it.
Subject(handler) == {k \in DOMAIN handler : handler[k] = Named /\ k # "endpoints"}

Reply(handler, arg, snapshot) ==
    IF \E k \in Subject(handler) : Found(handler, arg, snapshot)[k] = {}
    THEN [status |-> 404]
    ELSE [status |-> 200, items |-> Found(handler, arg, snapshot)]
=============================================================================
