--------------------------- MODULE MCLegacyServer ---------------------------
(* An instance of LegacyServer for TLC: a node and a pod that is scheduled on it. *)
EXTENDS LegacyServer

node1 == [name |-> "n1", namespace |-> "", node |-> ""]
pending == [name |-> "web", namespace |-> "prod", node |-> ""]
placed == [name |-> "web", namespace |-> "prod", node |-> "n1"]
other == [name |-> "db", namespace |-> "test", node |-> "n1"]

MCContents == [k \in Kinds |->
    IF k = "nodes" THEN {{}, {node1}}
    ELSE {{}, {pending}, {placed}}]

\* A node's page, a pod's page and a list of one namespace.
MCArgs == {[name |-> "n1", namespace |-> ""], [name |-> "web", namespace |-> "prod"]}
=============================================================================
