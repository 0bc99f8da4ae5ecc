----------------------------- MODULE MCLiveTable -----------------------------
(* An instance of LiveTable for TLC: two clusters, two live views and two    *)
(* pods in two namespaces.                                                   *)
EXTENDS LiveTable

MCWorlds == {[s \in Clusters \X LiveViews |->
    IF s = <<"c1", "pods">> THEN <<"x", "x">>
    ELSE IF s = <<"c2", "pods">> THEN <<"-", "x">> ELSE <<"x", "-">>]}

MCNamespaceOf == <<"a", "b">>
=============================================================================
