-------------------------- MODULE ClusterRegistry ---------------------------
(***************************************************************************)
(* What the multi-cluster manager promises to its callers, without locks,  *)
(* goroutines, kubeconfigs or files: a table from cluster names to live    *)
(* connections.  One connection at a time is being opened, and while it is *)
(* nothing else about the table changes.  Once the registry is open to     *)
(* requests a name is given a connection only while it has none, and a     *)
(* connection leaves the table only by being closed.                       *)
(***************************************************************************)
CONSTANTS Names, Conns, NoConn

VARIABLES
    table,    \* the connection registered under each name, or NoConn
    live,     \* connections that are open
    dialling, \* the name and connection being opened: empty or a singleton
    open      \* requests are accepted

vars == <<table, live, dialling, open>>

Init ==
    /\ table = [n \in Names |-> NoConn]
    /\ live = {}
    /\ dialling = {}
    /\ open = FALSE

\* Start-up may dial a name that is taken: the new connection will displace
\* the old one.
Dial(n, c) ==
    /\ dialling = {}
    /\ open => table[n] = NoConn
    /\ c \notin live
    /\ live' = live \cup {c}
    /\ dialling' = {<<n, c>>}
    /\ UNCHANGED <<table, open>>

Settle(n, c) ==
    /\ dialling = {<<n, c>>}
    /\ dialling' = {}
    /\ table' = [table EXCEPT ![n] = c]
    /\ UNCHANGED <<live, open>>

Drop(n) ==
    /\ open
    /\ dialling = {}
    /\ table[n] # NoConn
    /\ live' = live \ {table[n]}
    /\ table' = [table EXCEPT ![n] = NoConn]
    /\ UNCHANGED <<dialling, open>>

Open ==
    /\ dialling = {}
    /\ open' = TRUE
    /\ UNCHANGED <<table, live, dialling>>

Restart ==
    /\ table' = [n \in Names |-> NoConn]
    /\ live' = {}
    /\ dialling' = {}
    /\ open' = FALSE

Next ==
    \/ \E n \in Names, c \in Conns : Dial(n, c) \/ Settle(n, c)
    \/ \E n \in Names : Drop(n)
    \/ Open
    \/ Restart

Spec == Init /\ [][Next]_vars
=============================================================================
