--------------------------- MODULE MCClusterReads ---------------------------
(* Instances of ClusterReads for TLC: a pod on a node comes and goes, there  *)
(* are more events than a page holds, in two namespaces, and one request asks*)
(* for any of them or follows a log of a line and a half, while the cluster  *)
(* is removed and connected again.                                           *)
EXTENDS ClusterReads, TLC

Node == [name |-> "n", namespace |-> "", node |-> ""]
Pod == [name |-> "p", namespace |-> "a", node |-> "n"]

Usage == [name |-> "n", namespace |-> ""]

Scheduled == [name |-> "s", namespace |-> "a", about |-> "p"]
Started == [name |-> "t", namespace |-> "a", about |-> "p"]
Rescaled == [name |-> "u", namespace |-> "b", about |-> "d"]

MCContents ==
    ("nodes" :> {{Node}}) @@ ("pods" :> {{}, {Pod}}) @@ ("nodemetrics" :> {{Usage}})
        @@ ("events" :> {{Scheduled, Started, Rescaled}})

MCArgs == {[name |-> "n", namespace |-> ""], [name |-> "p", namespace |-> "a"]}
=============================================================================
