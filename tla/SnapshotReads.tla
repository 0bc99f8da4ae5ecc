--------------------------- MODULE SnapshotReads ----------------------------
(***************************************************************************)
(* What the single-cluster server promises of its answers, without caches  *)
(* or locks: each kind has a view that moves forward through the contents  *)
(* the cluster has had, and a request is answered from all the views it    *)
(* needs as they are at one instant.                                       *)
(***************************************************************************)
EXTENDS Naturals, Sequences, LegacyRoutes

CONSTANTS
    Kinds, Requests,
    Contents,  \* per kind: the sets of objects a cluster may hold
    Args,      \* the path and query parameters of a request
    NoReply

VARIABLES
    log,    \* per kind: the contents the API server has had, oldest first
    view,   \* per kind: the position in log the server answers from, 0 for none
    reply   \* per request: what it asked and its answer, or NoReply

vars == <<log, view, reply>>

\* The content of kind k at position i of its log.
Seen(k, i) == IF i = 0 THEN {} ELSE log[k][i]

Init ==
    /\ \E c \in [Kinds -> UNION {Contents[k] : k \in Kinds}] :
        /\ \A k \in Kinds : c[k] \in Contents[k]
        /\ log = [k \in Kinds |-> <<c[k]>>]
    /\ view = [k \in Kinds |-> 0]
    /\ reply = [r \in Requests |-> NoReply]

Change(k) ==
    /\ \E c \in Contents[k] : log' = [log EXCEPT ![k] = Append(log[k], c)]
    /\ UNCHANGED <<view, reply>>

Advance(k) ==
    /\ \E i \in view[k] .. Len(log[k]) : view' = [view EXCEPT ![k] = i]
    /\ UNCHANGED <<log, reply>>

Answer(r, handler, arg) ==
    /\ reply[r] = NoReply
    /\ DOMAIN handler \subseteq Kinds
    /\ LET snapshot == [k \in DOMAIN handler |-> Seen(k, view[k])] IN
       reply' = [reply EXCEPT ![r] = Reply(handler, arg, snapshot)]
    /\ UNCHANGED <<log, view>>

Finish(r) ==
    /\ reply' = [reply EXCEPT ![r] = NoReply]
    /\ UNCHANGED <<log, view>>

Next ==
    \/ \E k \in Kinds : Change(k) \/ Advance(k)
    \/ \E r \in Requests, handler \in Routes, arg \in Args : Answer(r, handler, arg)
    \/ \E r \in Requests : Finish(r)

Spec == Init /\ [][Next]_vars
=============================================================================
