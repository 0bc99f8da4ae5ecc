------------------------------ MODULE LiveTable ------------------------------
(***************************************************************************)
(* The live tables of the page (liveTable of static/index.html).  One      *)
(* object holds the table of the view that is open.  It is fed by an       *)
(* EventSource, by a list fetched every 10 s, by a fallback fetched 3 s    *)
(* after it was opened, and by the user's own deletes; the user meanwhile  *)
(* changes view, namespace and cluster.                                    *)
(*                                                                         *)
(* Closing a table closes its EventSource and its interval, but neither a  *)
(* fallback timer nor a request under way: what they bring goes into       *)
(* whatever table is open when it comes.                                   *)
(***************************************************************************)
EXTENDS Naturals, Sequences, SequencesExt

CONSTANTS
    Clusters,
    LiveViews,     \* the views with a live table, each for its kind
    Page,          \* any other view
    Count,         \* the keys "namespace/name" are numbered as _sort orders them
    NamespaceOf,   \* per key: its namespace
    Namespaces,    \* the choices of the namespace filter; "" is all
    Rows,          \* what a row may say; Gone if there is no such object
    Gone,
    Worlds,        \* what the clusters may hold at first
    Fetches,       \* slots for requests under way
    NoStream, NoFetch, NoAnswer,
    MaxActs,       \* bound: what the user does
    MaxFaults      \* bound: changes in the cluster, failures and breaks

Keys == 1 .. Count

ASSUME KeysAssumption == Count \in Nat /\ Gone \in Rows
ASSUME WorldsAssumption == Worlds \subseteq [Clusters \X LiveViews -> [Keys -> Rows]]
ASSUME BoundsAssumption == MaxActs \in Nat /\ MaxFaults \in Nat /\ Fetches \subseteq Nat
ASSUME ViewsAssumption == Page \notin LiveViews /\ "" \in Namespaces

VARIABLES
    world,                     \* per cluster and view: the row of each key
    cluster, namespace, view,  \* currentCluster, currentNamespace, currentView
    table,     \* rowsByKey, the rows in the document, and whether it is in it
    es,        \* the EventSource, with the fallback timer of its table
    late,      \* per view: fallback timers whose table was closed
    fetch,     \* per slot: a list that was asked for
    deleting,  \* deletes whose answer is awaited
    awaiting,  \* changes of cluster that wait for the namespaces
    pages,     \* other views that wait for their data
    acts, faults

location == <<cluster, namespace, view>>
work == <<late, fetch, deleting, awaiting, pages>>
vars == <<world, location, table, es, work, acts, faults>>

Empty == [k \in Keys |-> Gone]
Held(rows) == {k \in Keys : rows[k] # Gone}

-----------------------------------------------------------------------------
\* The table as a value.

_passesFilter(k) == namespace = "" \/ NamespaceOf[k] = namespace

Line(k, row) == [key |-> k, row |-> row]
Position(shown, k) == {i \in DOMAIN shown : shown[i].key = k}

\* The line of a key is taken out, if there is one.
Without(shown, k) ==
    IF Position(shown, k) = {} THEN shown ELSE RemoveAt(shown, Min(Position(shown, k)))

\* The lines of a table that shows these rows.
Lines(rows) ==
    LET drawn[n \in 0 .. Count] ==
            IF n = 0 THEN <<>>
            ELSE IF rows[n] # Gone /\ _passesFilter(n) THEN Append(drawn[n - 1], Line(n, rows[n]))
            ELSE drawn[n - 1]
    IN drawn[Count]

_renderAll(t, rows) ==
    [rows |-> rows, shown |-> IF t.here THEN Lines(rows) ELSE t.shown, here |-> t.here]

\* Mutant of Inserted: a new line is put at the end.
Appended(shown, k, row) == Append(shown, Line(k, row))

\* A new line goes before the first that sorts after it.
Inserted(shown, k, row) ==
    LET after == {i \in DOMAIN shown : shown[i].key > k}
    IN InsertAt(shown, IF after = {} THEN Len(shown) + 1 ELSE Min(after), Line(k, row))

_upsert(t, k, row) ==
    LET at == Position(t.shown, k) IN
    [rows |-> [t.rows EXCEPT ![k] = row],
     shown |->
        IF ~t.here THEN t.shown
        ELSE IF ~_passesFilter(k) THEN Without(t.shown, k)
        ELSE IF at # {} THEN [t.shown EXCEPT ![Min(at)] = Line(k, row)]
        ELSE Inserted(t.shown, k, row),
     here |-> t.here]

_remove(t, k) ==
    [rows |-> [t.rows EXCEPT ![k] = Gone], shown |-> Without(t.shown, k), here |-> t.here]

\* The rows of the answer that are new or not the same are put into the table.
Updated(t, list) ==
    LET newer[n \in 0 .. Count] ==
            IF n = 0 THEN t
            ELSE IF list[n] = Gone \/ list[n] = newer[n - 1].rows[n] THEN newer[n - 1]
            ELSE _upsert(newer[n - 1], n, list[n])
    IN newer[Count]

\* The rows that are not in the answer are taken out.
Purged(t, list) ==
    LET purged[n \in 0 .. Count] ==
            IF n = 0 THEN t
            ELSE IF list[n] = Gone /\ purged[n - 1].rows[n] # Gone THEN _remove(purged[n - 1], n)
            ELSE purged[n - 1]
    IN purged[Count]

\* Mutant of _resync: what is not in the answer stays.
NeverRemove(t, list) == Updated(t, list)

\* The answer of a list is made the content of the table, row by row.
_resync(t, list) == Purged(Updated(t, list), list)

\* The fallback adds the answer to the table.
Filled(t, list) ==
    _renderAll(t, [k \in Keys |-> IF list[k] = Gone THEN t.rows[k] ELSE list[k]])

-----------------------------------------------------------------------------
\* Going from view to view.

\* What a stream brings: what the kind holds, or what one object has become.
Messages ==
    [type : {"snapshot"}, rows : [Keys -> Rows]]
        \cup [type : {"update"}, key : Keys, row : Rows \ {Gone}]
        \cup [type : {"delete"}, key : Keys, row : {Gone}]

Streams ==
    [cluster : Clusters, view : LiveViews, timer : BOOLEAN, up : BOOLEAN, inbox : Seq(Messages)]

Stream(c, v, timer, up, inbox) ==
    [cluster |-> c, view |-> v, timer |-> timer, up |-> up, inbox |-> inbox]

ASSUME NoStreamAssumption == NoStream \notin Streams

\* close: the fallback timer of the table, if it has not gone off, stays set.
Orphaned ==
    IF es # NoStream /\ es.timer THEN [late EXCEPT ![es.view] = late[es.view] + 1] ELSE late

\* Mutant of navigate: only another table closes the EventSource of the last one.
navigateUnclosed(v) ==
    /\ view' = v
    /\ late' = Orphaned
    /\ \/ /\ v \in LiveViews
          /\ table' = [rows |-> Empty, shown |-> <<>>, here |-> TRUE]
          /\ es' = Stream(cluster, v, TRUE, FALSE, <<>>)
          /\ UNCHANGED pages
       \/ /\ v = Page
          /\ table' = [rows |-> Empty, shown |-> <<>>, here |-> FALSE]
          /\ UNCHANGED es
          /\ pages' = pages + 1

navigate(v) ==
    /\ view' = v
    /\ late' = Orphaned
    /\ \/ /\ v \in LiveViews
          /\ table' = [rows |-> Empty, shown |-> <<>>, here |-> TRUE]
          /\ es' = Stream(cluster, v, TRUE, FALSE, <<>>)
          /\ UNCHANGED pages
       \/ /\ v = Page
          /\ table' = [rows |-> Empty, shown |-> <<>>, here |-> FALSE]
          /\ es' = NoStream
          /\ pages' = pages + 1

Init ==
    /\ world \in Worlds
    /\ cluster \in Clusters
    /\ namespace = ""
    /\ view = Page
    /\ table = [rows |-> Empty, shown |-> <<>>, here |-> FALSE]
    /\ es = NoStream
    /\ late = [v \in LiveViews |-> 0]
    /\ fetch = [i \in Fetches |-> NoFetch]
    /\ deleting = {}
    /\ awaiting = 0
    /\ pages = 1
    /\ acts = 0
    /\ faults = 0

Act == acts < MaxActs /\ acts' = acts + 1
Fault == faults < MaxFaults /\ faults' = faults + 1

Click(v) ==
    /\ Act
    /\ navigate(v)
    /\ UNCHANGED <<world, cluster, namespace, fetch, deleting, awaiting, faults>>

changeNamespace(n) ==
    /\ Act
    /\ namespace' = n
    /\ navigate(view)
    /\ UNCHANGED <<world, cluster, fetch, deleting, awaiting, faults>>

\* The table of the old cluster stays until the namespaces have come.
changeCluster(c) ==
    /\ Act
    /\ cluster' = c
    /\ awaiting' = awaiting + 1
    /\ UNCHANGED <<world, namespace, view, table, es, late, fetch, deleting, pages, faults>>

\* A kubeconfig was imported: its first cluster becomes the current one, and the
\* table of the old one stays open, with its EventSource.
importKubeconfig(c) ==
    /\ Act
    /\ cluster' = c
    /\ UNCHANGED <<world, namespace, view, table, es, work, faults>>

loadNamespaces ==
    /\ awaiting > 0
    /\ awaiting' = awaiting - 1
    /\ navigate(view)
    /\ UNCHANGED <<world, cluster, namespace, fetch, deleting, acts, faults>>

\* Another view shows its data, or an error, also when it is no longer the one
\* that is open.  The views of renderGenericResources look first.
PageArrives ==
    /\ pages > 0
    /\ pages' = pages - 1
    /\ table' = [rows |-> table.rows, shown |-> <<>>, here |-> FALSE]
    /\ UNCHANGED <<world, location, es, late, fetch, deleting, awaiting, acts, faults>>
-----------------------------------------------------------------------------
\* The cluster, and the EventSource.

Snapshot(rows) == [type |-> "snapshot", rows |-> rows]
Event(k, row) == [type |-> IF row = Gone THEN "delete" ELSE "update", key |-> k, row |-> row]

\* Key k of a cluster's kind becomes row; a stream that is up is told, or its
\* full channel loses the event, or its broker is that of a dead connection.
Becomes(c, v, k, row) ==
    /\ world' = [world EXCEPT ![<<c, v>>] = [world[<<c, v>>] EXCEPT ![k] = row]]
    /\ \/ UNCHANGED es
       \/ /\ es # NoStream /\ es.up /\ es.cluster = c /\ es.view = v
          /\ es' = Stream(c, v, es.timer, TRUE, Append(es.inbox, Event(k, row)))

Change ==
    /\ Fault
    /\ \E c \in Clusters, v \in LiveViews, k \in Keys :
        \E row \in Rows \ {world[<<c, v>>][k]} : Becomes(c, v, k, row)
    /\ UNCHANGED <<location, table, work, acts>>

Connect ==
    /\ es # NoStream /\ ~es.up
    /\ es' = Stream(es.cluster, es.view, es.timer, TRUE,
                    <<Snapshot(world[<<es.cluster, es.view>>])>>)
    /\ UNCHANGED <<world, location, table, work, acts, faults>>

\* A snapshot clears the fallback timer of its own table.
Deliver ==
    /\ es # NoStream /\ es.inbox # <<>>
    /\ LET e == Head(es.inbox) IN
       /\ table' = CASE e.type = "snapshot" -> _renderAll(table, e.rows)
                     [] e.type = "update" -> _upsert(table, e.key, e.row)
                     [] e.type = "delete" -> _remove(table, e.key)
       /\ es' = Stream(es.cluster, es.view, es.timer /\ e.type # "snapshot", es.up,
                       Tail(es.inbox))
    /\ UNCHANGED <<world, location, work, acts, faults>>

Free == {i \in Fetches : fetch[i] = NoFetch}

\* The list of a kind of the current cluster is asked for.
Ask(v, use) ==
    /\ Free # {}
    /\ fetch' = [fetch EXCEPT ![Min(Free)] =
                    [cluster |-> cluster, view |-> v, use |-> use, list |-> NoAnswer]]

\* onerror: the list is fetched at once, and the EventSource tries again.
Break ==
    /\ es # NoStream
    /\ Fault
    /\ es' = Stream(es.cluster, es.view, es.timer, FALSE, <<>>)
    /\ Ask(view, "resync")
    /\ UNCHANGED <<world, location, table, late, deleting, awaiting, pages, acts>>

-----------------------------------------------------------------------------
\* Requests of the page.

\* The interval of the open table.
Tick ==
    /\ es # NoStream
    /\ Ask(view, "resync")
    /\ UNCHANGED <<world, location, table, es, late, deleting, awaiting, pages, acts, faults>>

\* A timer goes off and fetches its own kind, of the cluster there is now, if
\* the table there is now is empty.
Fallback(v) ==
    /\ IF Held(table.rows) = {} THEN Ask(v, "fallback") ELSE UNCHANGED fetch
    /\ \/ late[v] > 0 /\ UNCHANGED es /\ late' = [late EXCEPT ![v] = late[v] - 1]
       \/ /\ es # NoStream /\ es.view = v /\ es.timer
          /\ es' = Stream(es.cluster, v, FALSE, es.up, es.inbox)
          /\ UNCHANGED late
    /\ UNCHANGED <<world, location, table, deleting, awaiting, pages, acts, faults>>

Answered(i, list) ==
    fetch' = [fetch EXCEPT ![i] = [cluster |-> fetch[i].cluster, view |-> fetch[i].view,
                                   use |-> fetch[i].use, list |-> list]]

\* An answer that reports an error has no items, and is taken for an empty list.
AnswerList(i) ==
    /\ fetch[i] # NoFetch /\ fetch[i].list = NoAnswer
    /\ \/ /\ Answered(i, world[<<fetch[i].cluster, fetch[i].view>>])
          /\ UNCHANGED faults
       \/ Fault /\ Answered(i, Empty)
       \/ Fault /\ fetch' = [fetch EXCEPT ![i] = NoFetch]
    /\ UNCHANGED <<world, location, table, es, late, deleting, awaiting, pages, acts>>

ApplyList(i) ==
    /\ fetch[i] # NoFetch /\ fetch[i].list # NoAnswer
    /\ table' = IF fetch[i].use = "resync" THEN _resync(table, fetch[i].list)
                ELSE Filled(table, fetch[i].list)
    /\ fetch' = [fetch EXCEPT ![i] = NoFetch]
    /\ UNCHANGED <<world, location, es, late, deleting, awaiting, pages, acts, faults>>

\* The user deletes an object that is shown: it may go at once, later (a
\* Change), or not at all, and the page does not look at the answer's status.
deletePod(k) ==
    /\ Act
    /\ view \in LiveViews /\ Position(table.shown, k) # {}
    /\ deleting' = deleting \cup {[view |-> view, key |-> k]}
    /\ \/ UNCHANGED <<world, es>>
       \/ Becomes(cluster, view, k, Gone)
    /\ UNCHANGED <<location, table, late, fetch, awaiting, pages, faults>>

\* The row is removed without waiting for the event, if its table is open.
removeRow(d) ==
    /\ d \in deleting
    /\ deleting' = deleting \ {d}
    /\ \/ /\ view = d.view
          /\ table' = _remove(table, d.key)
          /\ UNCHANGED <<view, es, late, pages>>
       \/ view # d.view /\ navigate(view)
    /\ UNCHANGED <<world, cluster, namespace, fetch, awaiting, acts, faults>>

-----------------------------------------------------------------------------
User ==
    \/ \E v \in LiveViews \cup {Page} : Click(v)
    \/ \E n \in Namespaces \ {namespace} : changeNamespace(n)
    \/ \E c \in Clusters \ {cluster} : changeCluster(c) \/ importKubeconfig(c)
    \/ \E k \in Keys : deletePod(k)

Next ==
    \/ User
    \/ loadNamespaces \/ PageArrives
    \/ Change \/ Connect \/ Deliver \/ Break
    \/ Tick \/ \E v \in LiveViews : Fallback(v)
    \/ \E i \in Fetches : AnswerList(i) \/ ApplyList(i)
    \/ \E d \in deleting : removeRow(d)

Spec == Init /\ [][Next]_vars

(* Requests are answered or fail, and intervals go off.  Nothing is assumed *)
(* of the EventSource.                                                      *)
FairSpec ==
    /\ Spec
    /\ WF_vars(loadNamespaces) /\ WF_vars(Tick)
    /\ \A i \in Fetches : WF_vars(AnswerList(i)) /\ WF_vars(ApplyList(i))

-----------------------------------------------------------------------------
TypeOK ==
    /\ world \in [Clusters \X LiveViews -> [Keys -> Rows]]
    /\ cluster \in Clusters /\ namespace \in Namespaces /\ view \in LiveViews \cup {Page}
    /\ table \in [rows : [Keys -> Rows], shown : Seq([key : Keys, row : Rows \ {Gone}]),
                  here : BOOLEAN]
    /\ es \in Streams \cup {NoStream} /\ (es # NoStream => es.view = view)
    /\ es = NoStream <=> view = Page
    /\ late \in [LiveViews -> 0 .. MaxActs]
    /\ \A i \in Fetches : fetch[i] # NoFetch =>
        fetch[i] \in [cluster : Clusters, view : LiveViews, use : {"resync", "fallback"},
                      list : [Keys -> Rows] \cup {NoAnswer}]
    /\ deleting \subseteq [view : LiveViews, key : Keys]
    /\ awaiting \in 0 .. MaxActs /\ pages \in Nat

(***************************************************************************)
(* Whatever feeds it, in whatever order, the table in the document has one *)
(* line for each row liveTable holds that passes the filter, in the order  *)
(* of _sort: the lines _upsert inserts and _remove takes out one by one    *)
(* are those _renderAll would draw.                                        *)
(***************************************************************************)
ShowsWhatItHolds == table.here => table.shown = Lines(table.rows)

(***************************************************************************)
(* The resync puts an answer into the table row by row, into a table that  *)
(* events, deletes and other answers have changed since it was asked for:  *)
(* the table then holds the rows of the answer and no other.               *)
(***************************************************************************)
ResyncTakesOver ==
    [][\A i \in Fetches : ApplyList(i) /\ fetch[i].use = "resync"
                            => table'.rows = fetch[i].list]_vars

(***************************************************************************)
(* Once the user and the cluster leave it alone, the table that is open    *)
(* comes to hold what the current cluster holds, whatever rows of another  *)
(* view or cluster late answers have put into it, whatever events were     *)
(* lost, and with no EventSource at all: what the 10 s resync is for.      *)
(***************************************************************************)
TableConverges ==
    <>[](view \in LiveViews => table.rows = world[<<cluster, view>>])
=============================================================================
