----------------------------- MODULE Selectors ------------------------------
(***************************************************************************)
(* Which objects of a kind a read-only handler picks.                      *)
(***************************************************************************)
All  == "all"        \* every object
InNs == "namespace"  \* those of the namespace of the query, or every one
Named == "name"      \* the one with the namespace and name of the path
OnIt == "node"       \* the pods of the node that was asked for
About == "about"     \* the events about the object of the path

filterByNamespace(namespace, itemNs) == namespace = "" \/ namespace = itemNs

\* The object o is in the answer to a request for arg that selects by "by".
Selects(by, arg, o) ==
    CASE by = All   -> TRUE
      [] by = InNs  -> filterByNamespace(arg.namespace, o.namespace)
      [] by = Named -> o.name = arg.name /\ o.namespace = arg.namespace
      [] by = OnIt  -> o.node = arg.name
      [] by = About -> o.about = arg.name /\ o.namespace = arg.namespace
=============================================================================
