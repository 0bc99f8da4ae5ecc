--------------------------- MODULE ClusterRoutes ----------------------------
(***************************************************************************)
(* What the read-only handlers of a connected cluster look at: each is the *)
(* sequence of its reads.  A read lists one kind from the informer's cache *)
(* or from the API server and keeps the objects that "by" selects.  One of *)
(* them asks the API server for no more than a first page.  Copying fields *)
(* into rows and detail pages is left out.                                 *)
(***************************************************************************)
EXTENDS Naturals, Sequences, Selectors

Listed(k, by)  == [kind |-> k, from |-> "cache", by |-> by]
Fetched(k, by) == [kind |-> k, from |-> "server", by |-> by]
FirstPage(k, by) == [kind |-> k, from |-> "page", by |-> by]

\* The kinds whose informers run on a connection made from a kubeconfig, and
\* on the in-cluster one.
startClusterInformers == {"nodes", "namespaces", "pods", "services", "endpoints",
    "configmaps", "secrets", "persistentvolumes", "persistentvolumeclaims",
    "serviceaccounts", "replicationcontrollers", "events", "deployments", "daemonsets",
    "statefulsets", "replicasets", "jobs", "cronjobs", "ingresses", "ingressclasses",
    "networkpolicies", "storageclasses", "clusterroles", "clusterrolebindings", "roles",
    "rolebindings", "horizontalpodautoscalers"}

\* Mutant of InitInCluster: a kind only the other list of informers has.
PodsForgotten == startClusterInformers \ {"endpoints", "replicationcontrollers", "pods"}

InitInCluster == startClusterInformers \ {"endpoints", "replicationcontrollers"}

---------------------------------------------------------------------------
\* cluster_handlers.go
GetClusterOverview == <<Listed("nodes", All), Listed("pods", All),
                        Listed("deployments", All), Listed("services", All)>>
GetClusterNamespaces == <<Fetched("namespaces", All)>>
GetClusterNamespaceDetail == <<Fetched("namespaces", Named)>>
GetClusterNodes == <<Listed("nodes", All)>>
\* Pods that have ended are not counted: here they are pods on no node.
GetClusterNode == <<Listed("nodes", Named), Listed("pods", OnIt)>>
GetClusterPods == <<Listed("pods", InNs)>>
GetClusterPodDetail == <<Listed("pods", Named)>>
GetClusterDeployments == <<Listed("deployments", InNs)>>
GetClusterDeploymentDetail == <<Listed("deployments", Named)>>
GetClusterDaemonSets == <<Listed("daemonsets", InNs)>>
GetClusterDaemonSetDetail == <<Listed("daemonsets", Named)>>
GetClusterStatefulSets == <<Listed("statefulsets", InNs)>>
GetClusterStatefulSetDetail == <<Listed("statefulsets", Named)>>
GetClusterReplicaSets == <<Listed("replicasets", InNs)>>
GetClusterReplicaSetDetail == <<Listed("replicasets", Named)>>
GetClusterJobs == <<Listed("jobs", InNs)>>
GetClusterJobDetail == <<Listed("jobs", Named)>>
GetClusterCronJobs == <<Listed("cronjobs", InNs)>>
GetClusterCronJobDetail == <<Listed("cronjobs", Named)>>
GetClusterServices == <<Listed("services", InNs)>>
GetClusterServiceDetail == <<Listed("services", Named)>>
GetClusterNodeMetrics == <<Fetched("nodemetrics", All), Listed("nodes", All)>>
GetClusterPodMetrics == <<Fetched("podmetrics", InNs)>>

\* cluster_handlers_extended.go
GetClusterIngresses == <<Listed("ingresses", InNs)>>
GetClusterIngressDetail == <<Listed("ingresses", Named)>>
GetClusterIngressClasses == <<Listed("ingressclasses", All)>>
GetClusterIngressClassDetail == <<Listed("ingressclasses", Named)>>
GetClusterNetworkPolicies == <<Listed("networkpolicies", InNs)>>
GetClusterNetworkPolicyDetail == <<Listed("networkpolicies", Named)>>
GetClusterConfigMaps == <<Listed("configmaps", InNs)>>
GetClusterConfigMapDetail == <<Listed("configmaps", Named)>>
GetClusterSecrets == <<Listed("secrets", InNs)>>
GetClusterSecretDetail == <<Listed("secrets", Named)>>
GetClusterPersistentVolumes == <<Listed("persistentvolumes", All)>>
GetClusterPVDetail == <<Listed("persistentvolumes", Named)>>
GetClusterPersistentVolumeClaims == <<Listed("persistentvolumeclaims", InNs)>>
GetClusterPVCDetail == <<Listed("persistentvolumeclaims", Named)>>
GetClusterStorageClasses == <<Listed("storageclasses", All)>>
GetClusterStorageClassDetail == <<Listed("storageclasses", Named)>>
GetClusterClusterRoles == <<Listed("clusterroles", All)>>
GetClusterClusterRoleDetailView == <<Listed("clusterroles", Named)>>
GetClusterClusterRoleBindings == <<Listed("clusterrolebindings", All)>>
GetClusterClusterRoleBindingDetailView == <<Listed("clusterrolebindings", Named)>>
GetClusterRolesView == <<Listed("roles", InNs)>>
GetClusterRoleDetailView == <<Listed("roles", Named)>>
GetClusterRoleBindingsView == <<Listed("rolebindings", InNs)>>
GetClusterRoleBindingDetailView == <<Listed("rolebindings", Named)>>
GetClusterServiceAccounts == <<Listed("serviceaccounts", InNs)>>
GetClusterServiceAccountDetail == <<Listed("serviceaccounts", Named)>>
GetClusterHPAs == <<Listed("horizontalpodautoscalers", InNs)>>
GetClusterHPADetail == <<Listed("horizontalpodautoscalers", Named)>>
GetClusterEvents == <<FirstPage("events", InNs)>>
GetClusterEventsForResource == <<Fetched("events", About)>>

---------------------------------------------------------------------------
\* generic_resources.go: the kinds of the table of yaml_edit.go; custom
\* resources, which name their own group and scope, are read the same way.
ClusterScoped == {"clusterroles", "clusterrolebindings", "namespaces",
    "persistentvolumes", "storageclasses", "priorityclasses", "runtimeclasses",
    "mutatingwebhookconfigurations", "validatingwebhookconfigurations", "csidrivers",
    "volumeattachments", "customresourcedefinitions"}

kindToGVR == ClusterScoped \cup {"deployments", "statefulsets", "daemonsets",
    "replicasets", "services", "configmaps", "secrets", "pods", "ingresses", "roles",
    "rolebindings", "endpoints", "endpointslices", "resourcequotas", "limitranges",
    "poddisruptionbudgets", "leases"}

GetClusterGenericResources(k) ==
    <<Fetched(k, IF k \in ClusterScoped THEN All ELSE InNs)>>

---------------------------------------------------------------------------
Routes == {GetClusterOverview, GetClusterNamespaces, GetClusterNamespaceDetail,
    GetClusterNodes, GetClusterNode, GetClusterPods, GetClusterPodDetail,
    GetClusterDeployments, GetClusterDeploymentDetail, GetClusterDaemonSets,
    GetClusterDaemonSetDetail, GetClusterStatefulSets, GetClusterStatefulSetDetail,
    GetClusterReplicaSets, GetClusterReplicaSetDetail, GetClusterJobs,
    GetClusterJobDetail, GetClusterCronJobs, GetClusterCronJobDetail,
    GetClusterServices, GetClusterServiceDetail, GetClusterNodeMetrics,
    GetClusterPodMetrics, GetClusterIngresses, GetClusterIngressDetail,
    GetClusterIngressClasses, GetClusterIngressClassDetail, GetClusterNetworkPolicies,
    GetClusterNetworkPolicyDetail, GetClusterConfigMaps, GetClusterConfigMapDetail,
    GetClusterSecrets, GetClusterSecretDetail, GetClusterPersistentVolumes,
    GetClusterPVDetail, GetClusterPersistentVolumeClaims, GetClusterPVCDetail,
    GetClusterStorageClasses, GetClusterStorageClassDetail, GetClusterClusterRoles,
    GetClusterClusterRoleDetailView, GetClusterClusterRoleBindings,
    GetClusterClusterRoleBindingDetailView, GetClusterRolesView,
    GetClusterRoleDetailView, GetClusterRoleBindingsView,
    GetClusterRoleBindingDetailView, GetClusterServiceAccounts,
    GetClusterServiceAccountDetail, GetClusterHPAs, GetClusterHPADetail,
    GetClusterEvents, GetClusterEventsForResource}
        \cup {GetClusterGenericResources(k) : k \in kindToGVR}

Subjects(handler) == {handler[i].kind : i \in DOMAIN handler}
=============================================================================
