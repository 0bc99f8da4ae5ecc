---------------------------- MODULE LegacyServer ----------------------------
(***************************************************************************)
(* The single-cluster server (main.go): one informer per kind, whose       *)
(* callbacks copy the whole lister into a global slice under cacheMu, and  *)
(* the handlers, which take the slices they need under one read lock and   *)
(* work on them after they let it go.                                      *)
(*                                                                         *)
(* The callbacks of one informer come one after the other, those of        *)
(* different informers at the same time.  A cached slice is never written  *)
(* once its lock is free: the next refresh makes a new one.                *)
(***************************************************************************)
EXTENDS Naturals, Sequences, FiniteSets, LegacyRoutes

CONSTANTS
    Kinds,       \* the kinds with an informer
    Contents,    \* per kind: the sets of objects the cluster may hold
    Requests,    \* the HTTP requests
    Args,        \* their parameters: records of a name and a namespace
    MaxChanges,  \* bound: changes made to one kind
    Nobody, NoReply

\* A cluster may hold nothing, and what is left when an object has gone.
ASSUME ContentsAssumption ==
    \A k \in Kinds : /\ {} \in Contents[k]
                      /\ \A c \in Contents[k] : /\ IsFiniteSet(c)
                                                 /\ \A o \in c : c \ {o} \in Contents[k]
ASSUME BoundAssumption == MaxChanges \in Nat
ASSUME NobodyAssumption == Nobody \notin Kinds

VARIABLES
    serving,  \* main() has got past startInformers
    log,      \* per kind: the contents the API server has had, oldest first
    lister,   \* per kind: the position in log its informer has reached
    calls,    \* per kind: callbacks its listener has still to make
    refresh,  \* per kind: the callback under way
    cache,    \* per kind: the global slice and the position it was listed at
    writer,   \* the kind whose refresh holds cacheMu, or Nobody
    readers,  \* the requests that hold cacheMu for reading
    req       \* per request: what it asks, what it has read so far

world == <<log, lister, calls>>
locks == <<writer, readers>>
vars == <<serving, log, lister, calls, refresh, cache, writer, readers, req>>

AnyContent == UNION {Contents[k] : k \in Kinds}

\* The content of kind k at position i of its log.
Seen(k, i) == IF i = 0 THEN {} ELSE log[k][i]

\* What the API server holds.
Latest(k) == log[k][Len(log[k])]

Idle == [pc |-> "idle"]
Asked(handler, arg) == [pc |-> "asked", handler |-> handler, arg |-> arg]

\* "due" is no part of the program: the slices as they are when the lock is taken.
Reader(pc, handler, arg, taken, due) ==
    [pc |-> pc, handler |-> handler, arg |-> arg, taken |-> taken, due |-> due]
Answered(says) == [pc |-> "answered", says |-> says]

\* The cached slices are nil at first.
Init ==
    /\ serving = FALSE
    /\ \E c \in [Kinds -> AnyContent] :
        /\ \A k \in Kinds : c[k] \in Contents[k]
        /\ log = [k \in Kinds |-> <<c[k]>>]
    /\ lister = [k \in Kinds |-> 0]
    /\ calls = [k \in Kinds |-> 0]
    /\ refresh = [k \in Kinds |-> [pc |-> "idle", at |-> 0]]
    /\ cache = [k \in Kinds |-> [at |-> 0, items |-> {}]]
    /\ writer = Nobody
    /\ readers = {}
    /\ req = [r \in Requests |-> Idle]

---------------------------------------------------------------------------
\* The API server: objects come, change and go.
Change(k) ==
    /\ Len(log[k]) <= MaxChanges
    /\ \E c \in Contents[k] \ {Latest(k)} : log' = [log EXCEPT ![k] = Append(log[k], c)]
    /\ UNCHANGED <<serving, lister, calls, refresh, cache, locks, req>>

\* The informers list their kinds; main() waits until all have, then serves.
\* Every listed object is one OnAdd.
startInformers ==
    /\ ~serving
    /\ serving' = TRUE
    /\ lister' = [k \in Kinds |-> Len(log[k])]
    /\ calls' = [k \in Kinds |-> Cardinality(Latest(k))]
    /\ UNCHANGED <<log, refresh, cache, locks, req>>

\* Mutant of handlerFuncs: an OnDelete that does not refresh the cache.
OnDeleteForgotten(k) ==
    /\ serving
    /\ \E i \in lister[k] + 1 .. Len(log[k]) :
        /\ lister' = [lister EXCEPT ![k] = i]
        /\ calls' = IF log[k][i] \subseteq log[k][lister[k]] THEN calls
                    ELSE [calls EXCEPT ![k] = calls[k] + 1]
    /\ UNCHANGED <<serving, log, refresh, cache, locks, req>>

\* OnAdd, OnUpdate and OnDelete call the same function.  A watch that broke
\* takes up at a later content, with at least one callback.
handlerFuncs(k) ==
    /\ serving
    /\ \E i \in lister[k] + 1 .. Len(log[k]) : lister' = [lister EXCEPT ![k] = i]
    /\ calls' = [calls EXCEPT ![k] = calls[k] + 1]
    /\ UNCHANGED <<serving, log, refresh, cache, locks, req>>

\* Every 30 s an informer calls OnUpdate for each object it holds.
Resync(k) ==
    /\ serving
    /\ calls[k] = 0
    /\ calls' = [calls EXCEPT ![k] = Cardinality(Seen(k, lister[k]))]
    /\ UNCHANGED <<serving, log, lister, refresh, cache, locks, req>>

---------------------------------------------------------------------------
\* update...Cache: list, lock, make the slice, append each object, unlock.

ListObjects(k) ==
    /\ calls[k] > 0
    /\ refresh[k].pc = "idle"
    /\ calls' = [calls EXCEPT ![k] = calls[k] - 1]
    /\ refresh' = [refresh EXCEPT ![k] = [pc |-> "listed", at |-> lister[k]]]
    /\ UNCHANGED <<serving, log, lister, cache, locks, req>>

\* Mutant of Lock: the handlers read without RLock.
LockUnshared(k) ==
    /\ refresh[k].pc = "listed"
    /\ writer = Nobody
    /\ writer' = k
    /\ cache' = [cache EXCEPT ![k] = [at |-> refresh[k].at, items |-> {}]]
    /\ refresh' = [refresh EXCEPT ![k] = [pc |-> "copying", at |-> refresh[k].at]]
    /\ UNCHANGED <<serving, world, readers, req>>

Lock(k) ==
    /\ refresh[k].pc = "listed"
    /\ writer = Nobody
    /\ readers = {}
    /\ writer' = k
    /\ cache' = [cache EXCEPT ![k] = [at |-> refresh[k].at, items |-> {}]]
    /\ refresh' = [refresh EXCEPT ![k] = [pc |-> "copying", at |-> refresh[k].at]]
    /\ UNCHANGED <<serving, world, readers, req>>

Missing(k) == Seen(k, refresh[k].at) \ cache[k].items

AppendObject(k) ==
    /\ refresh[k].pc = "copying"
    /\ \E o \in Missing(k) :
        cache' = [cache EXCEPT ![k] = [at |-> cache[k].at, items |-> cache[k].items \cup {o}]]
    /\ UNCHANGED <<serving, world, refresh, locks, req>>

\* Mutant of Unlock: a return before the unlock when nothing was listed.
KeepLock(k) ==
    /\ refresh[k].pc = "copying"
    /\ Missing(k) = {}
    /\ writer' = IF cache[k].items = {} THEN writer ELSE Nobody
    /\ refresh' = [refresh EXCEPT ![k] = [pc |-> "idle", at |-> 0]]
    /\ UNCHANGED <<serving, world, cache, readers, req>>

Unlock(k) ==
    /\ refresh[k].pc = "copying"
    /\ Missing(k) = {}
    /\ writer' = Nobody
    /\ refresh' = [refresh EXCEPT ![k] = [pc |-> "idle", at |-> 0]]
    /\ UNCHANGED <<serving, world, cache, readers, req>>

updateCache(k) == ListObjects(k) \/ Lock(k) \/ AppendObject(k) \/ Unlock(k)

---------------------------------------------------------------------------
\* A handler: read lock, copy each slice it needs, unlock, answer.
Ask(r) ==
    /\ serving
    /\ req[r] = Idle
    /\ \E handler \in Routes, arg \in Args :
        /\ DOMAIN handler \subseteq Kinds
        /\ req' = [req EXCEPT ![r] = Asked(handler, arg)]
    /\ UNCHANGED <<serving, world, refresh, cache, locks>>

Cached(handler) == [k \in DOMAIN handler |-> Seen(k, cache[k].at)]

RLock(r) ==
    /\ req[r].pc = "asked"
    /\ writer = Nobody
    /\ readers' = readers \cup {r}
    /\ LET q == req[r] IN
       req' = [req EXCEPT ![r] = Reader("reading", q.handler, q.arg, << >>, Cached(q.handler))]
    /\ UNCHANGED <<serving, world, refresh, cache, writer>>

TakeSlice(r) ==
    /\ req[r].pc = "reading"
    /\ LET q == req[r] IN
       \E k \in DOMAIN q.handler \ DOMAIN q.taken :
        req' = [req EXCEPT ![r] =
            Reader("reading", q.handler, q.arg, And(q.taken, Reading(k, cache[k].items)), q.due)]
    /\ UNCHANGED <<serving, world, refresh, cache, locks>>

RUnlock(r) ==
    /\ req[r].pc = "reading"
    /\ DOMAIN req[r].taken = DOMAIN req[r].handler
    /\ readers' = readers \ {r}
    /\ LET q == req[r] IN
       req' = [req EXCEPT ![r] = Reader("answering", q.handler, q.arg, q.taken, q.due)]
    /\ UNCHANGED <<serving, world, refresh, cache, writer>>

Respond(r) ==
    /\ req[r].pc = "answering"
    /\ req' = [req EXCEPT ![r] = Answered(Reply(req[r].handler, req[r].arg, req[r].taken))]
    /\ UNCHANGED <<serving, world, refresh, cache, locks>>

Leave(r) ==
    /\ req[r].pc = "answered"
    /\ req' = [req EXCEPT ![r] = Idle]
    /\ UNCHANGED <<serving, world, refresh, cache, locks>>

\* Goes to the API server, never to the cache; a failure changes nothing.
deletePod(r) ==
    /\ serving
    /\ req[r] = Idle
    /\ "pods" \in Kinds
    /\ Len(log["pods"]) <= MaxChanges
    /\ \E o \in Latest("pods") :
        log' = [log EXCEPT !["pods"] = Append(log["pods"], Latest("pods") \ {o})]
    /\ UNCHANGED <<serving, lister, calls, refresh, cache, locks, req>>

Serve(r) == RLock(r) \/ TakeSlice(r) \/ RUnlock(r) \/ Respond(r)

Next ==
    \/ startInformers
    \/ \E k \in Kinds : Change(k) \/ handlerFuncs(k) \/ Resync(k) \/ updateCache(k)
    \/ \E r \in Requests : Ask(r) \/ Serve(r) \/ Leave(r) \/ deletePod(r)

Spec == Init /\ [][Next]_vars

(* A lock that is free again and again is taken: Go's RWMutex lets neither *)
(* readers nor writers starve.  The rest runs whenever it can.             *)
FairSpec ==
    /\ Spec
    /\ WF_vars(startInformers)
    /\ \A k \in Kinds :
        /\ WF_vars(handlerFuncs(k))
        /\ WF_vars(ListObjects(k) \/ AppendObject(k) \/ Unlock(k))
        /\ SF_vars(Lock(k))
    /\ \A r \in Requests :
        /\ SF_vars(RLock(r))
        /\ WF_vars(TakeSlice(r) \/ RUnlock(r) \/ Respond(r))

---------------------------------------------------------------------------
\* Every variable has its type, and cacheMu is held by a refresh that copies.
TypeOK ==
    /\ serving \in BOOLEAN
    /\ log \in [Kinds -> Seq(AnyContent)]
    /\ \A k \in Kinds : log[k] \in Seq(Contents[k]) /\ Len(log[k]) > 0
    /\ lister \in [Kinds -> Nat]
    /\ calls \in [Kinds -> Nat]
    /\ refresh \in [Kinds -> [pc : {"idle", "listed", "copying"}, at : Nat]]
    /\ cache \in [Kinds -> [at : Nat, items : SUBSET UNION AnyContent]]
    /\ writer \in Kinds \cup {Nobody}
    /\ readers \subseteq Requests
    /\ writer # Nobody => refresh[writer].pc = "copying"
    /\ \A r \in Requests :
        req[r].pc \in {"idle", "asked", "reading", "answering", "answered"}

(***************************************************************************)
(* The inductive invariant: who holds cacheMu; a slice that is not being   *)
(* copied is a whole content of its kind; list positions only grow from    *)
(* the cache to the refresh to the lister to the log; what a reader has    *)
(* taken is what the caches hold as long as it holds the lock.             *)
(***************************************************************************)
LockOK ==
    /\ \A k \in Kinds : refresh[k].pc = "copying" <=> writer = k
    /\ \A r \in Requests : req[r].pc = "reading" <=> r \in readers
    /\ writer # Nobody => readers = {}

CachesOK == \A k \in Kinds :
    /\ cache[k].at <= lister[k] /\ lister[k] <= Len(log[k])
    /\ refresh[k].pc # "idle" => cache[k].at <= refresh[k].at /\ refresh[k].at <= lister[k]
    /\ writer # k => cache[k].items = Seen(k, cache[k].at)
    /\ writer = k => /\ cache[k].at = refresh[k].at
                     /\ cache[k].items \subseteq Seen(k, cache[k].at)

ReaderOK(q) ==
    /\ q.pc \in {"asked", "reading", "answering"} =>
        q.handler \in Routes /\ DOMAIN q.handler \subseteq Kinds /\ q.arg \in Args
    /\ q.pc = "reading" =>
        /\ q.taken = [k \in DOMAIN q.taken |-> q.taken[k]]
        /\ DOMAIN q.taken \subseteq DOMAIN q.handler
        /\ q.due = [k \in DOMAIN q.handler |-> q.due[k]]
        /\ \A k \in DOMAIN q.taken : q.taken[k] = Seen(k, cache[k].at)
        /\ \A k \in DOMAIN q.handler : q.due[k] = Seen(k, cache[k].at)
    /\ q.pc = "answering" => q.due = q.taken

ReadersOK ==
    /\ req = [r \in Requests |-> req[r]]
    /\ \A r \in Requests : ReaderOK(req[r])

IInv == TypeOK /\ LockOK /\ CachesOK /\ ReadersOK

(***************************************************************************)
(* Every answer is made from all the caches it needs as they were at one   *)
(* instant, each the whole content its kind had at one time, and the       *)
(* answers given later never show an older one: what the copying under     *)
(* cacheMu and the serial callbacks of an informer are for.                *)
(***************************************************************************)
ReplyTo(r) ==
    CASE req[r].pc \in {"idle", "asked"} -> NoReply
      [] req[r].pc \in {"reading", "answering"} -> Reply(req[r].handler, req[r].arg, req[r].due)
      [] req[r].pc = "answered" -> req[r].says

Promise == INSTANCE SnapshotReads WITH
    view <- [k \in Kinds |-> cache[k].at],
    reply <- [r \in Requests |-> ReplyTo(r)]

ImplementsSnapshotReads == Promise!Spec

(***************************************************************************)
(* No event is forgotten: a slice that is not what its informer holds has  *)
(* a callback that is still to come or under way and will see all of it.   *)
(* The list of a refresh is made before cacheMu is taken, possibly long    *)
(* before, and is stored whatever has happened since.                      *)
(***************************************************************************)
QuietCachesAreCurrent == \A k \in Kinds :
    calls[k] = 0 /\ refresh[k].pc = "idle" => cache[k].items = Seen(k, lister[k])

\* What makes it so, a refresh under way included.
CallsOK ==
    /\ ~serving => \A k \in Kinds :
        lister[k] = 0 /\ calls[k] = 0 /\ refresh[k].pc = "idle" /\ cache[k].at = 0
    /\ \A k \in Kinds : calls[k] = 0 =>
        IF refresh[k].pc = "idle" THEN Seen(k, cache[k].at) = Seen(k, lister[k])
        ELSE refresh[k].at = lister[k]

(***************************************************************************)
(* Once the cluster stops changing, the caches come to hold what it holds, *)
(* also when a callback began while a newer event was being delivered.     *)
(***************************************************************************)
CachesConverge ==
    \A k \in Kinds : <>[](Seen(k, cache[k].at) = Latest(k))

(***************************************************************************)
(* Every request is answered, however often the caches are rebuilt.        *)
(***************************************************************************)
RequestsAnswered == \A r \in Requests : req[r].pc = "asked" ~> req[r].pc = "answered"
=============================================================================
