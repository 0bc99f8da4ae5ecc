--------------------------- MODULE ResourceWatch ---------------------------
(***************************************************************************)
(* The SSE streams of pkg/api/handlers/resource_watch.go, for one kind of  *)
(* resource, above the registry of connections that ClusterManager         *)
(* implements.                                                             *)
(*                                                                         *)
(* The informer of a connection keeps a lister and queues a notice for the *)
(* handler of the broker, if one is attached.  The handler publishes each  *)
(* notice to the channels of the broker's subscribers; a full channel      *)
(* loses it.  A stream subscribes, sends a snapshot of the lister and then *)
(* what its channel delivers; the page applies both to its table.          *)
(***************************************************************************)
EXTENDS Naturals, Sequences, FiniteSets

CONSTANTS
    Names,       \* cluster names
    Conns,       \* client objects; NoConn is none
    NoConn,
    NoBroker,    \* resourceBrokers has no entry for the name
    Keys,        \* "namespace/name" of the objects of the kind
    Rows,        \* what a row may say; Gone if there is no such object
    Gone,
    Watchers,    \* goroutines of watch requests, each with its browser
    Reading,     \* those whose browser keeps reading
    Buffer,      \* capacity of a subscriber's channel, 256 in the code
    MaxNotices,  \* bound on the notices queued for one handler
    MaxChanges   \* bound on the changes of objects

ASSUME ConnsAssumption ==
    /\ NoConn \notin Conns
    /\ NoBroker \notin Conns \cup {NoConn}

ASSUME RowsAssumption ==
    /\ Gone \in Rows
    /\ IsFiniteSet(Keys)

ASSUME BoundsAssumption ==
    /\ Buffer \in Nat
    /\ MaxNotices \in Nat
    /\ MaxChanges \in Nat
    /\ Reading \subseteq Watchers

VARIABLES
    table, live, dialling, open,  \* the registry
    lister,    \* the informer's store: the row of every key, per connection
    attached,  \* per name: the connection whose informer feeds the broker,
               \* NoConn if AddEventHandler failed, NoBroker if not yet asked for
    notices,   \* per name: queued for the broker's event handler
    subs,      \* watchers whose channel is in resourceBroker.subs
    channel,   \* per watcher: its channel, oldest event first
    watch,     \* per watcher: where its handler is, its cluster, its client
    shown,     \* per watcher: the rows of the page's table
    missed,    \* history: keys whose newest event a full channel has lost
    changes

registry == <<table, live, dialling, open>>
streams == <<subs, channel, watch, shown, missed>>
vars == <<registry, lister, attached, notices, streams, changes>>

Registry == INSTANCE ClusterRegistry

Event == [key : Keys, row : Rows]
Empty == [k \in Keys |-> Gone]
Idle == [pc : {"idle"}, name : Names, client : {NoConn}]
Handler == Idle \cup [pc : {"broker", "subscribe", "snapshot", "stream"},
                     name : Names, client : Conns]

Held == {watch[w].client : w \in Watchers} \cup {attached[n] : n \in Names}

Away(w) == [pc |-> "idle", name |-> watch[w].name, client |-> NoConn]

Audience(n) == {w \in subs : watch[w].name = n}

KeysIn(s) == {s[i].key : i \in DOMAIN s}

\* The notices that replay a store to a handler just added: each object once, in any order.
Listings(rows) ==
    LET present == {k \in Keys : rows[k] # Gone} IN
    {[i \in DOMAIN s |-> [key |-> s[i], row |-> rows[s[i]]]] :
        s \in {t \in [1..Cardinality(present) -> present] :
                  \A k \in present : \E i \in DOMAIN t : \A j \in DOMAIN t : t[j] = k <=> j = i}}

Init ==
    /\ Registry!Init
    /\ lister = [c \in Conns |-> Empty]
    /\ attached = [n \in Names |-> NoBroker]
    /\ notices = [n \in Names |-> <<>>]
    /\ subs = {}
    /\ channel = [w \in Watchers |-> <<>>]
    /\ watch \in [Watchers -> Idle]
    /\ shown = [w \in Watchers |-> Empty]
    /\ missed = [w \in Watchers |-> {}]
    /\ changes = 0

-----------------------------------------------------------------------------
(* Clusters come and go: the registry.                                     *)

\* A new client has an empty store; what is in the cluster is added to it.
Dial ==
    /\ \E n \in Names, c \in Conns \ Held :
        /\ Registry!Dial(n, c)
        /\ lister' = [lister EXCEPT ![c] = Empty]
    /\ UNCHANGED <<attached, notices, streams, changes>>

Settle ==
    /\ \E n \in Names, c \in Conns : Registry!Settle(n, c)
    /\ UNCHANGED <<lister, attached, notices, streams, changes>>

\* Mutant of Drop: the entry goes, but StopCh is not closed.
DropUnclosed ==
    /\ open /\ dialling = {}
    /\ \E n \in Names : table[n] # NoConn /\ table' = [table EXCEPT ![n] = NoConn]
    /\ UNCHANGED <<live, dialling, open, lister, attached, notices, streams, changes>>

\* RemoveCluster closes StopCh; it tells neither the brokers nor the streams.
Drop ==
    /\ \E n \in Names : Registry!Drop(n)
    /\ UNCHANGED <<lister, attached, notices, streams, changes>>

Open ==
    /\ Registry!Open
    /\ UNCHANGED <<lister, attached, notices, streams, changes>>

\* The process dies: every variable is a global or a goroutine of it.
Restart ==
    /\ Registry!Restart
    /\ lister' = [c \in Conns |-> Empty]
    /\ attached' = [n \in Names |-> NoBroker]
    /\ notices' = [n \in Names |-> <<>>]
    /\ subs' = {}
    /\ channel' = [w \in Watchers |-> <<>>]
    /\ watch' = [w \in Watchers |-> Away(w)]
    /\ shown' = [w \in Watchers |-> Empty]
    /\ missed' = [w \in Watchers |-> {}]
    /\ changes' = 0

-----------------------------------------------------------------------------
(* Informers (client-go): the store is updated and a notice queued for the *)
(* handler, if there is one.  A reader of the store between the two sees   *)
(* what it would see after both.                                           *)

\* A notice about key k of connection c for the handler attached to it.
Notify(c, k, row) ==
    /\ \A n \in Names : attached[n] = c => Len(notices[n]) < MaxNotices
    /\ notices' = [n \in Names |-> IF attached[n] = c
                                   THEN Append(notices[n], [key |-> k, row |-> row])
                                   ELSE notices[n]]

\* An object is added, updated or deleted.
Change ==
    /\ changes < MaxChanges
    /\ changes' = changes + 1
    /\ \E c \in live, k \in Keys : \E row \in Rows \ {lister[c][k]} :
        /\ lister' = [lister EXCEPT ![c][k] = row]
        /\ Notify(c, k, row)
    /\ UNCHANGED <<registry, attached, streams>>

\* The factory's resync reports an object of the store again, as an update.
Resync ==
    /\ \E c \in live, k \in Keys :
        /\ lister[c][k] # Gone
        /\ Notify(c, k, lister[c][k])
    /\ UNCHANGED <<registry, lister, attached, streams, changes>>

\* Once StopCh is closed the rest of the queue may be thrown away.
Discard ==
    /\ \E n \in Names :
        /\ attached[n] \notin live
        /\ notices[n] # <<>>
        /\ notices' = [notices EXCEPT ![n] = <<>>]
    /\ UNCHANGED <<registry, lister, attached, streams, changes>>

-----------------------------------------------------------------------------
(* The broker.                                                             *)

\* Mutant: the handler waits for room in every channel.
PublishBlocking(n) ==
    /\ notices[n] # <<>>
    /\ \A w \in Audience(n) : Len(channel[w]) < Buffer
    /\ channel' = [w \in Watchers |-> IF w \in Audience(n)
                                      THEN Append(channel[w], Head(notices[n]))
                                      ELSE channel[w]]
    /\ notices' = [notices EXCEPT ![n] = Tail(@)]
    /\ UNCHANGED <<registry, lister, attached, subs, watch, shown, missed, changes>>

\* publish, under the broker's mutex: a subscriber without room is skipped.
Publish(n) ==
    /\ notices[n] # <<>>
    /\ LET event == Head(notices[n])
           heard == {w \in Audience(n) : Len(channel[w]) < Buffer}
       IN  /\ channel' = [w \in Watchers |-> IF w \in heard THEN Append(channel[w], event)
                                             ELSE channel[w]]
           /\ missed' = [w \in Watchers |->
                IF w \notin Audience(n) THEN missed[w]
                ELSE IF w \in heard THEN missed[w] \ {event.key}
                ELSE missed[w] \cup {event.key}]
    /\ notices' = [notices EXCEPT ![n] = Tail(@)]
    /\ UNCHANGED <<registry, lister, attached, subs, watch, shown, changes>>

-----------------------------------------------------------------------------
(* WatchClusterResource.                                                   *)

MoveOn(w, pc) == watch' = [watch EXCEPT ![w].pc = pc]

\* Mutant of Request: a client is handed out whether the cluster is there or not.
RequestUnchecked(w) ==
    /\ open
    /\ dialling = {}
    /\ watch[w].pc = "idle"
    /\ \E n \in Names :
        watch' = [watch EXCEPT ![w] = [pc |-> "broker", name |-> n, client |-> table[n]]]
    /\ UNCHANGED <<registry, lister, attached, notices, subs, channel, shown, missed, changes>>

\* ClusterMiddleware hands the request its client.
Request(w) ==
    /\ open
    /\ dialling = {}
    /\ watch[w].pc = "idle"
    /\ \E n \in Names :
        /\ table[n] # NoConn
        /\ watch' = [watch EXCEPT ![w] = [pc |-> "broker", name |-> n, client |-> table[n]]]
    /\ UNCHANGED <<registry, lister, attached, notices, subs, channel, shown, missed, changes>>

\* brokerForResource: the first request for a name makes the broker and
\* attaches a handler to the informer of its own client; AddEventHandler
\* replays the store to it, or fails on an informer that has stopped.
BrokerForResource(w) ==
    LET n == watch[w].name
        c == watch[w].client
    IN
    /\ watch[w].pc = "broker"
    /\ MoveOn(w, "subscribe")
    /\ \/ /\ attached[n] # NoBroker
          /\ UNCHANGED <<attached, notices>>
       \/ /\ attached[n] = NoBroker
          /\ c \in live
          /\ attached' = [attached EXCEPT ![n] = c]
          /\ \E s \in Listings(lister[c]) : notices' = [notices EXCEPT ![n] = s]
       \/ /\ attached[n] = NoBroker
          /\ c \notin live
          /\ attached' = [attached EXCEPT ![n] = NoConn]
          /\ UNCHANGED notices
    /\ UNCHANGED <<registry, lister, subs, channel, shown, missed, changes>>

Subscribe(w) ==
    /\ watch[w].pc = "subscribe"
    /\ MoveOn(w, "snapshot")
    /\ subs' = subs \cup {w}
    /\ UNCHANGED <<registry, lister, attached, notices, channel, shown, missed, changes>>

\* The snapshot makes up for a lost event unless the channel still holds an
\* older one about the same key.
Snapshot(w) ==
    /\ watch[w].pc = "snapshot"
    /\ MoveOn(w, "stream")
    /\ shown' = [shown EXCEPT ![w] = lister[watch[w].client]]
    /\ missed' = [missed EXCEPT ![w] = @ \cap KeysIn(channel[w])]
    /\ UNCHANGED <<registry, lister, attached, notices, subs, channel, changes>>

\* An event is written and the page upserts or removes its row.
Deliver(w) ==
    /\ watch[w].pc = "stream"
    /\ channel[w] # <<>>
    /\ shown' = [shown EXCEPT ![w][Head(channel[w]).key] = Head(channel[w]).row]
    /\ channel' = [channel EXCEPT ![w] = Tail(@)]
    /\ UNCHANGED <<registry, lister, attached, notices, subs, watch, missed, changes>>

\* The browser is gone: the deferred unsubscribe.
Leave(w) ==
    /\ watch[w].pc = "stream"
    /\ watch' = [watch EXCEPT ![w] = Away(w)]
    /\ subs' = subs \ {w}
    /\ channel' = [channel EXCEPT ![w] = <<>>]
    /\ shown' = [shown EXCEPT ![w] = Empty]
    /\ missed' = [missed EXCEPT ![w] = {}]
    /\ UNCHANGED <<registry, lister, attached, notices, changes>>

-----------------------------------------------------------------------------
Clusters == Dial \/ Settle \/ Drop \/ Open \/ Restart

\* Mutant: the snapshot is taken before the subscription.
SnapshotFirst(w) ==
    \/ BrokerForResource(w)
    \/ /\ watch[w].pc = "subscribe"
       /\ MoveOn(w, "snapshot")
       /\ shown' = [shown EXCEPT ![w] = lister[watch[w].client]]
       /\ UNCHANGED <<registry, lister, attached, notices, subs, channel, missed, changes>>
    \/ /\ watch[w].pc = "snapshot"
       /\ MoveOn(w, "stream")
       /\ subs' = subs \cup {w}
       /\ UNCHANGED <<registry, lister, attached, notices, channel, shown, missed, changes>>

SetUp(w) == BrokerForResource(w) \/ Subscribe(w) \/ Snapshot(w)

Next ==
    \/ Clusters
    \/ Change \/ Resync \/ Discard
    \/ \E n \in Names : Publish(n)
    \/ \E w \in Watchers : Request(w) \/ SetUp(w) \/ Deliver(w) \/ Leave(w)

Spec == Init /\ [][Next]_vars

\* Goroutines that can run do run; a browser outside Reading may stop reading.
Fairness ==
    /\ \A n \in Names : WF_vars(Publish(n))
    /\ \A w \in Watchers : WF_vars(SetUp(w))
    /\ \A w \in Reading : WF_vars(Deliver(w))

FairSpec == Spec /\ Fairness

-----------------------------------------------------------------------------
\* Every variable has its type; no channel is longer than its buffer.
TypeOK ==
    /\ table \in [Names -> Conns \cup {NoConn}]
    /\ live \subseteq Conns
    /\ dialling \subseteq Names \X Conns
    /\ open \in BOOLEAN
    /\ lister \in [Conns -> [Keys -> Rows]]
    /\ attached \in [Names -> Conns \cup {NoConn, NoBroker}]
    /\ notices \in [Names -> Seq(Event)]
    /\ subs \subseteq Watchers
    /\ channel \in [Watchers -> Seq(Event)]
    /\ \A w \in Watchers : Len(channel[w]) <= Buffer
    /\ watch \in [Watchers -> Handler]
    /\ shown \in [Watchers -> [Keys -> Rows]]
    /\ missed \in [Watchers -> SUBSET Keys]
    /\ changes \in 0..MaxChanges

Streaming(w) == watch[w].pc = "stream" /\ watch[w].client \in live

\* A stream the broker can feed: its client's informer is the one attached.
Fed(w) == Streaming(w) /\ attached[watch[w].name] = watch[w].client

\* The newest event about k in s has this row.
EndsWith(s, k, row) ==
    \E i \in DOMAIN s :
        /\ s[i] = [key |-> k, row |-> row]
        /\ \A j \in DOMAIN s : j > i => s[j].key # k

\* What the page will say of k once it has applied all that is on its way.
WillShow(w, k, row) ==
    LET n == watch[w].name IN
    \/ EndsWith(notices[n], k, row)
    \/ /\ k \notin KeysIn(notices[n])
       /\ \/ EndsWith(channel[w], k, row)
          \/ k \notin KeysIn(channel[w]) /\ shown[w][k] = row

Current(w) == \A k \in Keys \ missed[w] : WillShow(w, k, lister[watch[w].client][k])

\* No event falls between the snapshot and the subscription, and events older
\* than the snapshot do no lasting harm: but for the keys whose events a full
\* channel lost, the page is on its way to what the lister holds.
FedStreamsFollow == \A w \in Watchers : Fed(w) => Current(w)

\* resource_watch.go:242-244 promises every stream the full list and then its
\* changes.  A cluster that was removed and added again keeps the broker of its
\* first connection, and its streams are told nothing.
EveryStreamFollows == \A w \in Watchers : Streaming(w) => Current(w)

\* How a stream that is not told can come about, and no other way: its cluster
\* was removed and connected again while the broker, kept by name, stayed with
\* the informer of the first connection, which is dead (resource_watch.go:233).
\* Two live connections never share a broker, and no broker is fed by an informer
\* other than the one its streams list.
OnlyDeadBrokersAreSilent ==
    \A w \in Watchers : Streaming(w) => Fed(w) \/ attached[watch[w].name] \notin live

\* A browser that reads gets there, whatever the other browsers do: publish
\* skips a slow client rather than wait for it (resource_watch.go:28-31).
ReadersCatchUp ==
    \A w \in Reading :
        Fed(w) ~> \/ ~Fed(w)
                  \/ \A k \in Keys \ missed[w] : shown[w][k] = lister[watch[w].client][k]
=============================================================================
