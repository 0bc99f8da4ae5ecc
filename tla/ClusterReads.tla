---------------------------- MODULE ClusterReads ----------------------------
(***************************************************************************)
(* Requests that only read a connected cluster: ClusterMiddleware gives    *)
(* them the client that is registered when they come in, and they keep it  *)
(* to their end, also when the cluster is removed and connected again      *)
(* meanwhile.  They read the informers' caches, each of which follows the  *)
(* API server at its own pace, the API server itself, or a pod's log.      *)
(***************************************************************************)
EXTENDS ClusterRoutes, FiniteSets

CONSTANTS
    Kinds,       \* the kinds of resources
    Contents,    \* per kind: the sets of objects the cluster may hold
    Requests,    \* the HTTP requests
    Args,        \* their parameters: records of a name and a namespace
    PageSize,    \* the Limit of GetClusterEvents, 100
    MaxConns,    \* bound: times the cluster is connected
    MaxChanges,  \* bound: changes made to one kind
    MaxLog       \* bound: half lines of a log

ASSUME BoundsAssumption == MaxConns \in Nat /\ MaxChanges \in Nat /\ MaxLog \in Nat

ASSUME PageAssumption == PageSize \in Nat \ {0}

VARIABLES
    log,        \* per kind: the contents the API server has had, oldest first
    made,       \* connections made so far; each has its own informer factory
    client,     \* the connection registered for the cluster, or NoConn
    informers,  \* per connection: the kinds its factory has informers for
    running,    \* the connections whose informers run
    lister,     \* per connection and kind: the position its cache has reached
    req         \* per request: what it asks, through which connection, how far it is

clients == <<made, client, informers, running, lister>>
vars == <<log, clients, req>>

Conns == 1 .. MaxConns
NoConn == 0

AnyContent == UNION {Contents[k] : k \in Kinds}

\* The content of kind k at position i of its log; 0 is an empty cache.
Seen(k, i) == IF i = 0 THEN {} ELSE log[k][i]

Latest(k) == log[k][Len(log[k])]

Idle == [pc |-> "idle"]

\* What ClusterMiddleware answers when the cluster is not registered.
Refused == [pc |-> "refused"]

\* "since" is no part of the program: for each read of the handler the oldest
\* position it may show, taken when the request comes in.
Reading(handler, arg, conn, since, read) ==
    [pc |-> "reading", handler |-> handler, arg |-> arg, conn |-> conn,
     since |-> since, read |-> read]

Answered(q, status) ==
    [pc |-> "answered", handler |-> q.handler, arg |-> q.arg, conn |-> q.conn,
     since |-> q.since, read |-> q.read, status |-> status]

\* The part of a content that read i of request q is about.
Found(q, i, content) == {o \in content : Selects(q.handler[i].by, q.arg, o)}

\* What a read may answer when s is all there is to find: a first page holds
\* PageSize of more than so many objects, which of them the order of the API
\* server says.
Answers(read, s) ==
    IF read.from = "page" /\ Cardinality(s) > PageSize
    THEN {page \in SUBSET s : Cardinality(page) = PageSize}
    ELSE {s}

Init ==
    /\ \E c \in [Kinds -> AnyContent] :
        /\ \A k \in Kinds : c[k] \in Contents[k]
        /\ log = [k \in Kinds |-> <<c[k]>>]
    /\ made = 0
    /\ client = NoConn
    /\ informers = [c \in Conns |-> {}]
    /\ running = {}
    /\ lister = [c \in Conns |-> [k \in Kinds |-> 0]]
    /\ req = [r \in Requests |-> Idle]

---------------------------------------------------------------------------
\* The cluster: objects come, change and go.
Change(k) ==
    /\ Len(log[k]) <= MaxChanges
    /\ \E c \in Contents[k] \ {Latest(k)} : log' = [log EXCEPT ![k] = Append(log[k], c)]
    /\ UNCHANGED <<clients, req>>

\* A client is made and registered once each of its caches has been filled,
\* with a list that the API server may answer from a cache of its own.
Connect(kinds) ==
    LET c == made + 1 IN
    /\ client = NoConn
    /\ made < MaxConns
    /\ made' = c
    /\ client' = c
    /\ informers' = [informers EXCEPT ![c] = kinds]
    /\ running' = running \cup {c}
    /\ \E at \in [Kinds -> 0 .. MaxChanges + 1] :
        /\ \A k \in Kinds : at[k] \in IF k \in kinds THEN 1 .. Len(log[k]) ELSE {0}
        /\ lister' = [lister EXCEPT ![c] = at]
    /\ UNCHANGED <<log, req>>

\* Only start-up connects to the cluster the server itself runs in.
InitInClusterCluster == made = 0 /\ Connect(InitInCluster)

AddClustersFromKubeconfig == Connect(startClusterInformers)

\* Mutant of RemoveCluster: the client stays in the map.
StopOnly ==
    /\ client # NoConn
    /\ running' = running \ {client}
    /\ UNCHANGED <<log, made, client, informers, lister, req>>

RemoveCluster ==
    /\ client # NoConn
    /\ client' = NoConn
    /\ UNCHANGED <<log, made, informers, running, lister, req>>

\* Closing StopCh ends the informers, not at once.
InformersStop(c) ==
    /\ c \in running
    /\ c # client
    /\ running' = running \ {c}
    /\ UNCHANGED <<log, made, client, informers, lister, req>>

\* The informer of a kind learns of some of what has changed.
WatchEvent(c, k) ==
    /\ c \in running
    /\ k \in informers[c]
    /\ \E i \in lister[c][k] + 1 .. Len(log[k]) :
        lister' = [lister EXCEPT ![c] = [lister[c] EXCEPT ![k] = i]]
    /\ UNCHANGED <<log, made, client, informers, running, req>>

---------------------------------------------------------------------------
\* Requests.

Since(handler) ==
    [i \in DOMAIN handler |->
        LET k == handler[i].kind IN
        IF handler[i].from = "cache" THEN lister[client][k] ELSE Len(log[k])]

\* ClusterMiddleware stores the registered client in the request.
ClusterMiddleware(r) ==
    /\ req[r] = Idle
    /\ \/ /\ client = NoConn
          /\ req' = [req EXCEPT ![r] = Refused]
       \/ /\ client # NoConn
          /\ \E handler \in Routes, arg \in Args :
              /\ Subjects(handler) \subseteq Kinds
              /\ req' = [req EXCEPT ![r] =
                            Reading(handler, arg, client, Since(handler), <<>>)]
    /\ UNCHANGED <<log, clients>>

Unfinished(q) == q.pc = "reading" /\ Len(q.read) < Len(q.handler)
Upcoming(q) == q.handler[Len(q.read) + 1]

\* The next read of r answers found: a detail page of nothing is a 404.
Took(r, found) ==
    LET q == req[r] IN
    \/ /\ Upcoming(q).by = Named /\ found = {}
       /\ req' = [req EXCEPT ![r] = Answered(q, 404)]
    \/ /\ Upcoming(q).by # Named \/ found # {}
       /\ req' = [req EXCEPT ![r] =
                     Reading(q.handler, q.arg, q.conn, q.since, Append(q.read, found))]

\* Mutant of Take: the page is cut before the handler selects from it.
CutFirst(r, c) ==
    \E page \in Answers(Upcoming(req[r]), c) :
        Took(r, Found(req[r], Len(req[r].read) + 1, page))

\* The next read of r is made while its kind has the content c.
Take(r, c) ==
    \E found \in Answers(Upcoming(req[r]), Found(req[r], Len(req[r].read) + 1, c)) :
        Took(r, found)

\* Mutant of ListCached: the client is looked up again for every read.
ListRegistered(r) ==
    /\ Unfinished(req[r])
    /\ Upcoming(req[r]).from = "cache"
    /\ LET k == Upcoming(req[r]).kind
           c == IF client = NoConn THEN req[r].conn ELSE client IN
       Take(r, Seen(k, lister[c][k]))
    /\ UNCHANGED <<log, clients>>

ListCached(r) ==
    /\ Unfinished(req[r])
    /\ Upcoming(req[r]).from = "cache"
    /\ LET k == Upcoming(req[r]).kind IN Take(r, Seen(k, lister[req[r].conn][k]))
    /\ UNCHANGED <<log, clients>>

\* Any failure of a Get by name is answered as if there were no such object;
\* 500 is also the 503 of a connection without a metrics client.
Fetch(r) ==
    /\ Unfinished(req[r])
    /\ Upcoming(req[r]).from # "cache"
    /\ \/ Take(r, Latest(Upcoming(req[r]).kind))
       \/ req' = [req EXCEPT ![r] =
             Answered(req[r], IF Upcoming(req[r]).by = Named THEN 404 ELSE 500)]
    /\ UNCHANGED <<log, clients>>

Respond(r) ==
    /\ req[r].pc = "reading"
    /\ Len(req[r].read) = Len(req[r].handler)
    /\ req' = [req EXCEPT ![r] = Answered(req[r], 200)]
    /\ UNCHANGED <<log, clients>>

Leave(r) ==
    /\ req[r].pc \in {"refused", "answered", "closed", "broken"}
    /\ req' = [req EXCEPT ![r] = Idle]
    /\ UNCHANGED <<log, clients>>

---------------------------------------------------------------------------
\* StreamClusterLogs: the body of a log request arrives piece by piece, and a
\* loop sends each line on when it is complete.  A log is counted in half
\* lines: an even number of them ends with a newline.

\* "total" is the length of the body so far, "whole" that it will not grow.
Log(pc, follow, watched, whole, total, got, shown) ==
    [pc |-> pc, follow |-> follow, watched |-> watched, whole |-> whole,
     total |-> total, got |-> got, shown |-> shown]

Streaming(r) == req[r].pc \in {"open", "polling"}

\* The browser asks to follow unless told otherwise.
StreamClusterLogs(r) ==
    /\ req[r] = Idle
    /\ client # NoConn
    /\ \E follow \in BOOLEAN, whole \in BOOLEAN, total \in 0 .. MaxLog :
        /\ ~follow => whole
        /\ req' = [req EXCEPT ![r] = Log("open", follow, TRUE, whole, total, 0, 0)]
    /\ UNCHANGED <<log, clients>>

\* The container writes on, and ends.
Write(r) ==
    /\ req[r].pc = "open" /\ ~req[r].whole
    /\ LET t == req[r] IN
       \/ /\ t.total < MaxLog
          /\ req' = [req EXCEPT ![r] =
                Log("open", t.follow, t.watched, FALSE, t.total + 1, t.got, t.shown)]
       \/ req' = [req EXCEPT ![r] =
                Log("open", t.follow, t.watched, TRUE, t.total, t.got, t.shown)]
    /\ UNCHANGED <<log, clients>>

Receive(r) ==
    /\ req[r].pc = "open" /\ req[r].got < req[r].total
    /\ LET t == req[r] IN
       req' = [req EXCEPT ![r] =
           Log("open", t.follow, t.watched, t.whole, t.total, t.got + 1, t.shown)]
    /\ UNCHANGED <<log, clients>>

NextNewline(t) == 2 * (t.shown \div 2) + 2
Waits(t) == t.pc = "open" /\ NextNewline(t) > t.got

SendLine(r) ==
    /\ req[r].pc = "open" /\ ~Waits(req[r])
    /\ LET t == req[r] IN
       req' = [req EXCEPT ![r] =
           Log("open", t.follow, t.watched, t.whole, t.total, t.got, NextNewline(t))]
    /\ UNCHANGED <<log, clients>>

\* Mutant of EndOfLog: what follows the last newline is not sent.
DropRest(r) ==
    /\ Waits(req[r]) /\ req[r].whole /\ req[r].got = req[r].total
    /\ LET t == req[r] IN
       req' = [req EXCEPT ![r] = Log(IF t.follow THEN "polling" ELSE "closed",
           t.follow, t.watched, TRUE, t.total, t.got, t.shown)]
    /\ UNCHANGED <<log, clients>>

\* io.EOF: the rest is sent; one that follows polls for as long as it is watched.
EndOfLog(r) ==
    /\ Waits(req[r]) /\ req[r].whole /\ req[r].got = req[r].total
    /\ LET t == req[r] IN
       req' = [req EXCEPT ![r] = Log(IF t.follow THEN "polling" ELSE "closed",
           t.follow, t.watched, TRUE, t.total, t.got, t.got)]
    /\ UNCHANGED <<log, clients>>

\* Any other error ends the answer, after the rest that has come.
BreakOff(r) ==
    /\ Waits(req[r])
    /\ LET t == req[r] IN
       req' = [req EXCEPT ![r] =
           Log("broken", t.follow, t.watched, t.whole, t.total, t.got, t.got)]
    /\ UNCHANGED <<log, clients>>

\* The browser closes the request.
StopWatching(r) ==
    /\ Streaming(r) /\ req[r].watched
    /\ LET t == req[r] IN
       req' = [req EXCEPT ![r] =
           Log(t.pc, t.follow, FALSE, t.whole, t.total, t.got, t.shown)]
    /\ UNCHANGED <<log, clients>>

\* Mutant of Cancel: a read that waits for the pod is not cancelled.
CancelBetweenReads(r) ==
    /\ Streaming(r) /\ ~req[r].watched /\ ~Waits(req[r])
    /\ LET t == req[r] IN
       req' = [req EXCEPT ![r] =
           Log("closed", t.follow, FALSE, t.whole, t.total, t.got, t.shown)]
    /\ UNCHANGED <<log, clients>>

\* The context of the request cancels the body, so also a read that waits.
Cancel(r) ==
    /\ Streaming(r) /\ ~req[r].watched
    /\ LET t == req[r] IN
       req' = [req EXCEPT ![r] =
           Log("closed", t.follow, FALSE, t.whole, t.total, t.got, t.shown)]
    /\ UNCHANGED <<log, clients>>

Stream(r) == Receive(r) \/ SendLine(r) \/ EndOfLog(r) \/ Cancel(r)

---------------------------------------------------------------------------
Next ==
    \/ \E k \in Kinds : Change(k)
    \/ InitInClusterCluster \/ AddClustersFromKubeconfig \/ RemoveCluster
    \/ \E c \in Conns : InformersStop(c) \/ \E k \in Kinds : WatchEvent(c, k)
    \/ \E r \in Requests :
        \/ ClusterMiddleware(r) \/ ListCached(r) \/ Fetch(r) \/ Respond(r) \/ Leave(r)
        \/ StreamClusterLogs(r) \/ Write(r) \/ Stream(r) \/ BreakOff(r) \/ StopWatching(r)

Spec == Init /\ [][Next]_vars

(* The informers of a connection keep following the API server until they  *)
(* are stopped; a body arrives, and the loop that sends it on runs whenever*)
(* it can.                                                                 *)
FairSpec ==
    /\ Spec
    /\ \A c \in Conns, k \in Kinds : WF_vars(WatchEvent(c, k))
    /\ \A r \in Requests : WF_vars(Stream(r))

---------------------------------------------------------------------------
TypeOK ==
    /\ log \in [Kinds -> Seq(AnyContent)]
    /\ \A k \in Kinds : log[k] \in Seq(Contents[k]) /\ Len(log[k]) > 0
    /\ made \in 0 .. MaxConns
    /\ client \in running \cup {NoConn}
    /\ informers \in [Conns -> SUBSET startClusterInformers]
    /\ running \subseteq Conns
    /\ lister \in [Conns -> [Kinds -> Nat]]
    /\ \A r \in Requests : req[r].pc \in {"idle", "refused", "reading", "answered",
                                         "open", "polling", "closed", "broken"}

(***************************************************************************)
(* The part of an answer a read made is all that the read's kind held, of  *)
(* what the request is about, at some time not before the request came in, *)
(* or, for a kind that is cached, not before what the connection it came in*)
(* on held then.  For GetClusterEvents it is a first page of that: all of  *)
(* it, or PageSize objects.  A 404 for a cached object is as true.  Also   *)
(* when the cluster was removed and connected again, with older lists,     *)
(* while the handler was at work.                                          *)
(***************************************************************************)
ShownSince(q, i, found) ==
    LET k == q.handler[i].kind IN
    \E p \in q.since[i] .. Len(log[k]) :
        found \in Answers(q.handler[i], Found(q, i, Seen(k, p)))

Truthful(q) ==
    /\ \A i \in DOMAIN q.read : ShownSince(q, i, q.read[i])
    /\ q.status = 200 => Len(q.read) = Len(q.handler)
    /\ q.status = 404 /\ Upcoming(q).from = "cache" => ShownSince(q, Len(q.read) + 1, {})

AnswersAreRecent == \A r \in Requests : req[r].pc = "answered" => Truthful(req[r])

(***************************************************************************)
(* The inductive invariant: no cache is ahead of the API server, and each  *)
(* read a handler has still to make will find no less than was there when  *)
(* its request came in.  A connection's caches are filled before anyone    *)
(* has a request on it.                                                    *)
(***************************************************************************)
PositionsOK ==
    /\ client <= made
    /\ \A c \in Conns, k \in Kinds : lister[c][k] <= Len(log[k])

Reached(q, i) ==
    LET k == q.handler[i].kind IN
    IF q.handler[i].from = "cache" THEN lister[q.conn][k] ELSE Len(log[k])

AskedOK(q) ==
    /\ q.handler \in Routes /\ Subjects(q.handler) \subseteq Kinds
    /\ q.conn \in 1 .. made
    /\ \A i \in DOMAIN q.handler : q.since[i] \in Nat /\ q.since[i] <= Reached(q, i)
    /\ q.read \in Seq(SUBSET UNION AnyContent) /\ Len(q.read) <= Len(q.handler)
    /\ \A i \in DOMAIN q.read : ShownSince(q, i, q.read[i])

RequestOK(q) ==
    /\ q.pc \in {"reading", "answered"} => AskedOK(q)
    /\ q.pc = "answered" => Truthful(q)
    /\ q.pc = "answered" /\ q.status # 200 => Len(q.read) < Len(q.handler)

RequestsOK ==
    /\ req = [r \in Requests |-> req[r]]
    /\ \A q \in {req[r] : r \in Requests} : RequestOK(q)

IInv == TypeOK /\ PositionsOK /\ RequestsOK

ListedKinds ==
    {k \in Kinds : \E handler \in Routes : \E i \in DOMAIN handler :
        handler[i].kind = k /\ handler[i].from = "cache"}

(***************************************************************************)
(* No handler lists a cache that nobody fills: whichever way the cluster   *)
(* was connected, in-cluster or from a kubeconfig, and for as long as the  *)
(* request lasts, the connection it came in on has an informer for each    *)
(* kind the handler lists, and that informer has had its first list.       *)
(***************************************************************************)
Fed(c, k) == k \in informers[c] /\ lister[c][k] > 0

ReadsAreFed ==
    \A q \in {req[r] : r \in Requests} : q.pc = "reading" =>
        \A i \in DOMAIN q.handler :
            q.handler[i].from = "cache" => Fed(q.conn, q.handler[i].kind)

\* What makes it so: the caches of every connection there has been.
FedOK == \A c \in 1 .. made, k \in ListedKinds : Fed(c, k)

(***************************************************************************)
(* Every kind some handler lists from a cache has an informer, whichever   *)
(* way the cluster was connected: once the cluster stops changing, what a  *)
(* registered client's caches hold is what the cluster holds.              *)
(***************************************************************************)
CachesCatchUp ==
    \A k \in ListedKinds :
        <>[](client # NoConn => Seen(k, lister[client][k]) = Latest(k))

(***************************************************************************)
(* A log that has an end is shown to it, the last line also where it has   *)
(* no newline, to whoever keeps watching, unless the connection breaks.    *)
(***************************************************************************)
LogsAreShown == \A r \in Requests : LET t == req[r] IN
    (t.pc = "open" /\ t.whole) ~>
        \/ t.pc \in {"polling", "closed"} /\ (t.shown = t.total \/ ~t.watched)
        \/ t.pc = "broken"

(***************************************************************************)
(* A stream that ends, in whatever way but by being closed by its browser, *)
(* has sent all that had come, the last line also where it has no newline; *)
(* and it ends or goes over to polling only at the end of the log.         *)
(***************************************************************************)
Ended(t) == t.pc = "polling" \/ (t.pc = "closed" /\ t.watched)

EndedLogsAreWhole == \A t \in {req[r] : r \in Requests} :
    /\ Ended(t) \/ t.pc = "broken" => t.shown = t.got
    /\ Ended(t) => t.whole /\ t.got = t.total

\* What makes it so: no more is sent than has come.
LogOK(t) ==
    /\ t.pc \in {"open", "polling", "closed", "broken"} =>
        t.shown \in Nat /\ t.got \in Nat /\ t.shown <= t.got
    /\ Ended(t) \/ t.pc = "broken" => t.shown = t.got
    /\ Ended(t) => t.whole /\ t.got = t.total

LogsOK == \A t \in {req[r] : r \in Requests} : LogOK(t)

(***************************************************************************)
(* The handler of a log nobody watches any more ends, also when it waits   *)
(* for a pod that writes nothing.                                          *)
(***************************************************************************)
AbandonedStreamsEnd == \A r \in Requests :
    (Streaming(r) /\ ~req[r].watched) ~> req[r].pc \in {"closed", "broken"}
=============================================================================
