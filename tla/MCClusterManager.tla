-------------------------- MODULE MCClusterManager --------------------------
(* Instances of ClusterManager for TLC. *)
EXTENDS ClusterManager, TLC

CONSTANTS default, prod, k1, k2

\* Two kubeconfigs of one context each, saved under different names unless the
\* request names the file.
SmallContexts == (k1 :> {default}) @@ (k2 :> {prod})
SmallFileFor == (default :> 1) @@ (prod :> 2)
NoMapping == {Identity}

\* SaveKubeconfig maps different cluster names to one file name, as "a/b" and
\* "a-b".
OneFile == [n \in Names |-> 1]

\* Every k3s installation calls its context "default": users tell the clusters
\* of two kubeconfigs apart by a custom name, here the one the second context of
\* k2 has too.
SameContexts == (k1 :> {default}) @@ (k2 :> {default, prod})
CustomName == {Identity, [Identity EXCEPT ![default] = prod]}

\* Requests and client objects are interchangeable: used by the runs that check
\* safety only.
Symmetry == Permutations(Reqs) \cup Permutations(Conns)
=============================================================================
