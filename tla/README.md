# k8sdashboard: models, checks and proofs

k8sdashboard is a web dashboard for several Kubernetes clusters. A Go server
keeps one connection per cluster, answers REST requests from the informer caches
of that connection, pushes changes over SSE and accepts kubeconfigs at run time;
a single HTML page is the client. This directory holds TLA+ models of the parts
whose correctness depends on order: concurrent requests, crashes, files, caches.

Paths and line numbers below are relative to the repository's root.

## 1. The system

### 1.1 Components

| component | where | state it keeps | operations |
|---|---|---|---|
| multi-cluster manager | `pkg/k8s/multi_cluster.go` | `clusters` map under an RWMutex; per client an informer factory and `StopCh`; files in `KubeconfigDir` | connect, add, remove, get, list; save, load, delete kubeconfigs |
| cluster handlers | `pkg/api/handlers/clusters.go` | locals of a request | list, import, upload, preview, remove, middleware |
| start-up | `cmd/server/main.go` | none | in-cluster connection, initial kubeconfig, stored kubeconfigs, serve |
| resource watch | `pkg/api/handlers/resource_watch.go` | `resourceBrokers` map under a mutex; per broker a set of channels of 256 events | attach, subscribe, publish, unsubscribe, snapshot |
| yaml editor | `pkg/api/handlers/yaml_edit.go` | none on the server; the object in the API server and the text in the browser | read, update |
| workload actions | `pod_actions.go`, `cluster_handlers.go` | none; objects in the API server | scale, restart, labels and annotations, delete |
| read-only handlers | `cluster_handlers*.go`, `generic_resources.go` | none; the caches of the connection | list, detail, metrics, events |
| log streaming | `cluster_handlers.go` | the loop of one request | follow, send a line, end |
| projections | inside the handlers | none | pod status, allocation totals, sizes, roles |
| Helm releases | `helm.go` | none; releases in the cluster | list, detail, rollback, uninstall |
| legacy server | `main.go` | global caches under `cacheMu` | refresh, list, detail, delete, logs, metrics |
| legacy handlers | the other files of `pkg/api/handlers` | none | answer 503, see section 5 |
| router | `pkg/api/router.go` | none | routes |
| UI | `static/index.html` (built from `web/index.html`) | current cluster, live tables, timers, dialogs | change cluster, open and close tables, wizard, editor, log stream |

### 1.2 How they interact

- A request to `/api/clusters/:cluster/*` passes `ClusterMiddleware`, which takes
  the client from the manager under a read lock and leaves it in the request's
  context. The handler uses it until it answers, whatever happens to the map.
- Upload and import hold the manager's write lock while they connect to every
  context of the kubeconfig, network calls included; every other request waits.
- An upload that connected anything then writes the kubeconfig to a file, outside
  the lock. The next start of the process reads those files.
- The watch handler finds its broker by `client.Name` and kind, so a client's own
  name has to be its key in the map.
- Handlers that change something read the object from the API server, not from the
  caches, and write it back with the `resourceVersion` they read, or send a patch.
- The UI opens one SSE stream per table and repairs what it missed by fetching
  the list again every 10 s.
- `main.go` at the root is a program of its own, for one cluster, with its own routes.

### 1.3 What is hard, and what makes each component correct

- *Manager.* Concurrent uploads of the same names; removal while a handler holds
  the client; a crash between truncating and writing a file; a cluster that never
  finishes its first list. Correct when: a client handed out has running
  informers; nothing but a removal takes an entry out; informers never run without
  an owner who can stop them; what an import reports is true; a restart connects what
  is stored, each kubeconfig on its own account; every request is answered.
- *Resource watch.* Events between snapshot and subscription, full buffers,
  brokers that outlive their cluster. Correct when: a table built from one stream
  ends up equal to the lister's content, or the stream ends.
- *Yaml editor, workload actions.* Other writers between read and update, and while
  the editor is open; objects deleted and created again under their name; lost
  answers. Correct when: an edit takes effect at one instant, on the object as it then
  is, and changes nothing it did not ask for.
- *Read-only handlers, log streaming.* A client kept while its cluster is removed and
  connected again; caches that move on between two reads of one page; a log that ends
  without a newline, or never. Correct when: no answer is older than its request
  allows, every kind that is listed has an informer, and every loop ends.
- *UI.* Late answers of requests asked for another cluster or before newer events;
  timers that outlive their table. Correct when: what is drawn is what the table
  holds, and it becomes what the current cluster holds.
- *Legacy server.* Refreshes that list before they lock, slices used after the unlock.
  Correct when: every answer is a snapshot, none goes back, the caches catch up.

The full list of hazards, each at its line, is in `PROJECT.json`.

## 2. Modules

| module | role |
|---|---|
| `ClusterManager` | the manager, its handlers, start-up and crash; one action per lock operation, connection attempt or file-system call |
| `ClusterRegistry` | what the manager promises: a table of names and live connections, without locks, goroutines or files |
| `MCClusterManager` | constants, mappings and symmetry for TLC |
| `ClusterManagerProofs` | type correctness, the inductive invariant and the state invariants that follow |
| `ClusterRefinementProofs` | `ClusterManager` implements `ClusterRegistry`; the action properties |
| `ClusterRestartProofs` | what a restart restores, and from which kubeconfig |
| `ResourceWatch` | the SSE streams of one resource kind, composed with `ClusterRegistry` |
| `MCResourceWatch` | symmetry for TLC |
| `ResourceWatchProofs` | type correctness of the streams, that a fed stream follows its lister, and which stream is not fed |
| `WorkloadEdits` | the handlers that change objects, and the YAML editor |
| `AtomicEdits` | what they promise: edits without versions or copies |
| `MCWorkloadEdits` | instance for TLC |
| `WorkloadEditsProofs` | type correctness, no blind overwrite, conflicts are real, refinement of `AtomicEdits` |
| `Selectors` | which objects of a kind a handler picks: all, by namespace, by name, by node, by involved object |
| `LegacyRoutes` | the handlers of `main.go`, each as the kinds it reads and how it selects |
| `LegacyServer` | the informers, caches, `cacheMu` and handlers of `main.go` |
| `SnapshotReads` | what they promise: answers from one instant |
| `MCLegacyServer` | objects and arguments for TLC |
| `LegacyServerProofs` | type correctness, the inductive invariant, that no event is forgotten, refinement of `SnapshotReads` |
| `ClusterRoutes` | the read-only handlers of a connected cluster, each as the sequence of its reads, and the kinds that have informers |
| `ClusterReads` | these handlers at work, and the log stream, on connections that come and go |
| `MCClusterReads` | objects and arguments for TLC |
| `ClusterReadsProofs` | type correctness, the inductive invariant, recency of the answers, caches that are fed, whole logs |
| `LiveTable` | `liveTable` of the page, its timers and requests, and the user |
| `MCLiveTable` | two clusters for TLC |
| `LiveTableProofs` | type correctness, the inductive invariant, the lines of the document, the resync |

### 2.1 ClusterManager: state

| variable | code |
|---|---|
| `clusters` | `MultiClusterManager.clusters`: name to client, `NoClient` for a missing key |
| `running` | the clients whose `StopCh` is open, so whose informers run |
| `lock` | the writer that holds `mu`. Read sections contain no other call, so each is one step taken while `lock = Nobody` |
| `job[w]` | the goroutine of a request, or of `main()`: where it is and its locals |
| `stored` | what each file of `KubeconfigDir` holds: a kubeconfig, nothing (`"empty"`), or a torn mixture (`"garbled"`) |
| `linked` | savers whose open file is still the one in the directory |
| `inCluster` | history: the running in-cluster connection |
| `restarts` | bound on crashes |

A client is a record of `conn` (the object with its factory and `StopCh`), `name`
(`ClusterClient.Name`) and, as history, `conf`: the kubeconfig it was dialled from,
`"absent"` for the in-cluster configuration. `job[w].failed` holds, as history too, the
kubeconfig with each name that could not be dialled; an upload reports the names only. `job[w].pc` names the wait: `lock` (for `mu`),
`each` (top of the range over contexts, lock held), `sync` (in
`createClientForContext`/`createClientFromConfig`, waiting for the caches),
`save` and `write` (the two halves of `os.WriteFile`), `read` (for `GetClient`),
`list`, `use` (a handler holding a client), and for `main()` `start`, `home`,
`dial`, `dialing`, `files`, `serve`.

### 2.2 ClusterManager: actions

| action | code |
|---|---|
| `NotInCluster`, `InitInClusterClient`, `InClusterSynced` | `InitInClusterClient`: not in a cluster; informers started; caches synced and entry written under the lock |
| `InitialConnect`, `InitialFailed`, `InitialSynced` | one context of `InitMultiCluster`, which neither locks nor looks for an existing entry |
| `ReadStoredDir`, `LoadStoredFile`, `StartServing` | `LoadStoredKubeconfigs` and `router.Run` |
| `AcquireLock`, `SkipExisting`, `ConnectFailed`, `Connect`, `AddSynced`, `ReleaseLock` | `AddClustersFromKubeconfig` and `AddClustersFromKubeconfigContent` |
| `UploadKubeconfig`, `ImportClustersFromKubeconfig`, `AskCluster`, `ListClusters` | a request arrives |
| `RemoveCluster`, `GetClient`, `Answer`, `ListOne`, `ListDone` | its handler |
| `SaveTruncate`, `SaveWrite`, `SaveFailed`, `DeleteStoredKubeconfig` | the files |
| `Crash` | the container dies and is started again on the same volume |

A range over a Go map has no order, so the next context is any of `todo`. Files
are read in the order of `os.ReadDir`, so the next file is the least of `queue`.

### 2.3 ClusterRegistry

`Dial`, `Settle`, `Drop`, `Open`, `Restart` over `table`, `live`, `dialling` and
`open`. `ClusterManager` maps `table` to the connections of `clusters`, `live` to
`running`, `dialling` to the one worker waiting for caches, and `open` to serving.
The registry says: one connection is opened at a time; the table does not change
meanwhile; after the server opens only free names are dialled, and a connection
leaves the table only by being closed.

### 2.4 ResourceWatch: state

`ResourceWatch` does not repeat the manager: its clusters come and go by the actions of
`ClusterRegistry`, which `ClusterManager` is proved to implement.

| variable | code |
|---|---|
| `table`, `live`, `dialling`, `open` | the registry |
| `lister[c]` | the store of the kind's informer of connection `c`: the row of every key, `Gone` for none. A stopped informer's store stays as it was |
| `attached[n]` | `resourceBrokers[n:kind]`: the connection whose informer feeds the broker, `NoConn` if `AddEventHandler` found the informer stopped, `NoBroker` if there is no entry |
| `notices[n]` | what client-go has queued for the broker's event handler |
| `subs`, `channel[w]` | `resourceBroker.subs` and the subscriber's channel |
| `watch[w]` | the goroutine of a watch request: before `brokerForResource` (`broker`), before `subscribe`, before the `snapshot`, in the select loop (`stream`) |
| `shown[w]` | the rows of the page that reads the stream |
| `missed[w]` | history: the keys whose newest event a full channel has lost |

### 2.5 ResourceWatch: actions

| action | code |
|---|---|
| `Dial`, `Settle`, `Drop`, `Open`, `Restart` | the registry; a new connection has an empty store, a restart loses everything |
| `Change`, `Resync`, `Discard` | client-go: an object changes, the 30 s resync reports one again, the queue of a stopped informer is dropped |
| `Publish` | an event handler calls `publish`: under the broker's mutex, without waiting |
| `Request` | `ClusterMiddleware` gives the request its client |
| `BrokerForResource`, `Subscribe`, `Snapshot` | `WatchClusterResource` up to the loop; a handler added to a running informer is sent each object of the store, in any order |
| `Deliver` | the loop writes an event and the page upserts or removes the row |
| `Leave` | the request's context is done: `unsubscribe` |

The informer updates its store and queues the notice in one step: between the two a
reader of the store sees what it sees after both, and a handler is added under the lock
client-go holds over both. The snapshot cannot fail, because a lister over a cache
returns no error. The network keeps the order of one response, so an event is written
and applied in one step. The store of a connection is filled by the `Change`s after its
`Dial`, which are the informer's first list too.

### 2.6 WorkloadEdits

An object is a function from five fields to values: `replicas`, `labels` (annotations
are treated by the same code and left out), `restartedAt`, `spec` and `owner`.

| variable | code |
|---|---|
| `kind` | the kind of all objects of a behaviour; handlers of two kinds share nothing |
| `store`, `revision` | the API server: each object with its `resourceVersion`, and the last one given |
| `job[u]` | the handler at work for a user: before its `Get` (`read`) or before its write (`write`), what it asks, the copy and version its `Get` returned. `touched` is history |
| `editor[u]` | the dialog of the page: the object and the text. `opened` is history |
| `reply` | the answer given in this step |

| action | code |
|---|---|
| `ScaleCluster…`, `UpdateCluster…`, `RestartCluster…`, `DeleteCluster…` | the routes; `RestartClusterDeployment` reads and updates, the other restarts patch |
| `Read`, `ReadRefused` | the `Get`. All but the editor answer 404 to any failure |
| `Write`, `Remove`, `WriteRefused` | the update, patch or delete, its refusal by the API server, or its failure; after a lost answer the handler says "failed" of an edit that was made. Only the editor answers a conflict as such (409); a scale or a change of labels that conflicts has "failed" (500) |
| `GetClusterResourceYAML`, `Type`, `CloseEditor`, `UpdateClusterResourceYAML` | the editor. `cleanObjectForEdit` strips the owner |
| `Abandon` | the dashboard restarts, or the request's context is cancelled |
| `OtherUpdate`, `OtherCreateOrDelete` | kubectl, controllers, other dashboards |

`AtomicEdits` has no versions, copies or editor: `Edit` and `Remove` change the object
as it is and answer `ok` or `failed`; `Refuse` changes nothing.

### 2.7 LegacyServer

| variable | code |
|---|---|
| `log[k]` | what the API server has held, oldest first; everything else is a position in it |
| `lister[k]`, `calls[k]` | the informer of a kind, and the callbacks its listener has still to make |
| `refresh[k]` | `update…Cache`: idle, `listed` (before `cacheMu.Lock`) or `copying` |
| `cache[k]` | the global slice: the position it was listed at and what has been appended |
| `writer`, `readers` | `cacheMu` |
| `req[r]` | a request: asked, `reading` (lock held), `answering` (lock free again) |
| `serving` | `main()` is past `startInformers` |

`handlerFuncs` delivers an event, `ListObjects`, `Lock`, `AppendObject`, `Unlock` are
the callback, `RLock`, `TakeSlice`, `RUnlock`, `Respond` a handler, `deletePod` the one
request that changes something, in the API server only. Kinds are listed by
`startInformers` in one step: nothing reads the caches before. `SnapshotReads` keeps
only a position per kind that may advance, and answers from all positions at once.

### 2.8 ClusterReads

| variable | code |
|---|---|
| `log[k]` | as above |
| `client`, `made` | the entry of the manager's map, and how often the cluster was connected. `ClusterManager` shows that an entry stays until it is removed |
| `informers[c]`, `running`, `lister[c][k]` | the informer factory of a connection: the kinds it was made for, whether it runs, how far each cache is |
| `req[r]` | a reading request: handler, argument, client, the parts read so far; or the loop of a log: how much the pod has written, how much has come, how much was sent |

| action | code |
|---|---|
| `InitInClusterCluster`, `AddClustersFromKubeconfig`, `RemoveCluster`, `InformersStop` | the connections; the two ways to connect have lists of informers of their own |
| `ClusterMiddleware` | a request comes in |
| `ListCached`, `Fetch`, `Respond` | the reads of a handler, in its order, and its answer |
| `StreamClusterLogs`, `Receive`, `SendLine`, `EndOfLog`, `BreakOff`, `Cancel` | the log loop |
| `Change`, `Write`, `StopWatching`, `WatchEvent` | the cluster, the pod, the browser, client-go |

The first list of an informer may be older than the present, as the API server may
answer it from its own cache; informers do not stop the moment `StopCh` is closed.
`Fetch` failing stands for all its errors, the 503 of a connection without a metrics
client among them. `GetClusterNode` leaves out the pods that have ended: in the model
these are pods on no node. `GetClusterEvents` asks for a first page (`Limit: 100`,
`cluster_handlers_extended.go:759`): its read is a `FirstPage`, which of more than
`PageSize` objects answers some `PageSize`, as the order of the API server says. No other
handler sets a limit.

### 2.9 LiveTable

| variable | code |
|---|---|
| `world` | what each cluster holds of each kind |
| `cluster`, `namespace`, `view` | `currentCluster`, `currentNamespace`, `currentView` |
| `table` | `rowsByKey`, the lines of the document, and whether the table is in it |
| `es` | the `EventSource`: what it was opened for, whether it is up, its events, and whether the fallback timer of its table is set |
| `late` | fallback timers whose table was closed |
| `fetch` | lists asked for, with the cluster and view they were asked of |
| `deleting`, `awaiting`, `pages` | deletes, changes of cluster and other views that wait for an answer |

`navigate` is close and open; `Click`, `changeNamespace`, `changeCluster`,
`importKubeconfig` and `deletePod` are the user; an import makes its first cluster the
current one and, unlike `changeCluster`, does not open the table again; `Connect`, `Deliver`, `Break` the stream; `Tick`, `Fallback`, `AnswerList`,
`ApplyList`, `loadNamespaces`, `PageArrives`, `removeRow` timers and answers. A late answer goes
into whatever table is open. `Updated` and `Purged` are the two loops of `_resync`, written
as recursive functions over the keys, like the drawing of `_renderAll` in `Lines`. Keys are
numbered in the order of `_sort`. The dropdown,
the status label, the row count, pings and the page without a cluster are left out. The
stream may lose any event, which covers what `ResourceWatch` shows it to lose.

## 3. Model checking

All passing runs but `reads` say `CHECK_DEADLOCK FALSE`: a server without requests
stands still, and bounded counters end.

| run | instance | shows |
|---|---|---|
| `manager` (`MCClusterManager.cfg`) | 2 requests, 2 kubeconfigs that share a context name, one of them the initial one, a custom name, 2 files, 4 connections, 1 crash | the type invariant, `ServedClientsRun`, `NameIsKey`, `OnlyInClusterLeaks`, `NoSilentReplacement`, `ReportsAreTrue`, `ImplementsRegistry`, `RestartRestoresStored` |
| `answered` (`MCAnswered.cfg`) | 2 requests, every cluster syncs, fairness | `RequestsAnswered`, `ServerOpens` |
| `returned` (`MCReturned.cfg`) | the kubeconfigs and names of `manager`, 1 request, always in a pod | `StoredClustersReturn` is violated |
| `persisted` (`MCPersisted.cfg`) | 2 requests, 2 kubeconfigs of one context, 2 files, 1 crash | `UploadsStayPersisted` is violated |
| `stuck` (`MCStuck.cfg`) | one context that never syncs, fairness | `ServerOpens` is violated |
| `watch` (`MCResourceWatch.cfg`) | 1 cluster, 2 connections, 2 objects, 2 streams of which one may stop reading, fairness | the type invariant with the bound of the channels, `FedStreamsFollow`, `OnlyDeadBrokersAreSilent`, `ReadersCatchUp` |
| `readded` (`MCReadded.cfg`) | the same instance with symmetry | `EveryStreamFollows` is violated |
| `edits` (`MCWorkloadEdits.cfg`) | 1 object of any kind, 2 users, one with an editor, 2 changes | the type invariant, `NoBlindOverwrite`, `ConflictsAreReal`, `ImplementsAtomicEdits` |
| `saved` (`MCSaved.cfg`) | the same instance | `SavesWhatWasOpened` is violated |
| `legacy` (`MCLegacyServer.cfg`) | nodes and pods, 1 request, 1 change of each, fairness | the type invariant, `QuietCachesAreCurrent`, `ImplementsSnapshotReads`, `CachesConverge`, `RequestsAnswered` |
| `reads` (`MCClusterReads.cfg`) | nodes, pods, metrics and 3 events, pages of 1, 1 request, 2 connections, 2 changes of each, 3 half lines, fairness | the type invariant, `AnswersAreRecent`, `ReadsAreFed`, `EndedLogsAreWhole`, `CachesCatchUp`, `LogsAreShown`, `AbandonedStreamsEnd` |
| `table` (`MCLiveTable.cfg`) | 2 clusters, 2 live views, 2 keys, 1 request under way, 3 acts of the user, 1 fault, fairness | the type invariant, `ShowsWhatItHolds`, `ResyncTakesOver`, `TableConverges` |

Bounds. Two requests are the least that race; a third adds only further copies of
the same race, because every interaction goes through one lock. In `manager` and
`returned` both kubeconfigs declare `default`, the name k3s gives every context and the
code gives the in-cluster connection; `k2` has a second context `prod`, and an upload may
call its `default` by that name. So a context, uploaded or stored, may meet the in-cluster
entry, an entry of the other file, or the other context of its own upload. Four
connections never disable a dial: it is made for a name that is free, while the map owns
one connection under the other name, the displaced in-cluster connection goes on running,
and the other request holds one. One crash suffices: it resets everything but the files,
so a second one starts from a state of the first kind. The runs that check liveness use
no symmetry. `InPod` is what a start may find of a cluster around it. The passing runs let
it differ from start to start; `returned` keeps to a server that always runs in a pod, as
a container does that is started again.

In `watch` a channel of one event (`Buffer`) stands for the 256 of the code: full,
empty and having lost something are what the code tells apart. Two connections under
one name let a cluster be removed and added again; two objects let the loss of one
object's events leave the other's untouched; two changes (`MaxChanges`) let an event be
older, the other newer than a snapshot; two notices (`MaxNotices`) hold the replay of a
full store. An instance with `Buffer = 2` and three notices and changes (2.4 million
states) passed as well. `Restart` leads back to an initial state and needs no bound.

In `edits` one object suffices, because a handler touches no other. Two users and other
writers give three writers on it; two changes (`MaxRevision`) let an object be written
and written again, or deleted and created again, between a read and its update. The
five kinds are all initial states.

In `legacy` the two kinds are those two handlers join; a pod may be missing, pending or
placed. The theorem covers all 22 kinds, any number of requests and of changes. In
`reads` there are pages of one kind, of two cached kinds, and of one from the API server
and one from a cache; two connections let a request outlive its own; three half lines
are a line and one without its newline. A page of one object (`PageSize`) stands for the
100: of three events two are in the namespace a request asks for, so that a page that is
selected and then cut is told from one that is cut first.

In `table` three acts lead to another cluster or view
and back while timers and answers of the first visit are under way; two keys
in two namespaces make order and filter matter. Instances with two acts and two faults
(1.0 million states) and with two requests under way (1.1 million) passed as well.

Fairness. `StartUp` is weakly fair and each worker's `Step` strongly: the Go
scheduler runs every goroutine that can run, and `sync.RWMutex` serves waiters in
turn, so a goroutine that finds the lock taken again and again gets it in the end.
Network calls either fail or return. No request has to arrive, nothing has to crash.
`answered` assumes that caches sync (`Unsyncable = {}`), `stuck` drops that. In `watch`
`Publish` and `SetUp` are weakly fair, because nothing they wait for is kept from them:
the mutexes are held over no blocking call. `Deliver` is weakly fair for the browsers in
`Reading` only; `w2` may stop reading for ever with its connection open. In `legacy`
`Lock` and `RLock` are strongly fair, since Go's `RWMutex` lets neither readers nor writers
starve, and the rest weakly. In `reads` an informer follows the API server until it is
stopped, and a log loop runs whenever it can; no pod has to write or end. In `table` the
interval goes off and requests are answered or fail; nothing is assumed of the
`EventSource`, so it is the interval alone that makes `TableConverges` hold.

### 3.1 Findings

- **An upload may overwrite another one** (`persisted`). `SaveKubeconfig` writes with
  `os.WriteFile` (`pkg/k8s/multi_cluster.go:535`) to a name taken from the request or
  from the first cluster added. A second upload with the same file name replaces the
  first kubeconfig; `README.md:39` says uploaded kubeconfigs are persisted there.
- **A stored cluster may not come back** (`returned`). The custom names of an upload are
  not stored with the kubeconfig; at the next start `LoadStoredKubeconfigs` calls
  `AddClustersFromKubeconfig` (`pkg/k8s/multi_cluster.go:567`), which knows no names but those
  of the file and skips one that exists (`:348-351`). TLC's run: in a cluster, where
  `default` is the in-cluster connection, a kubeconfig whose context is `default` is uploaded
  as `prod`, connected and saved; the container restarts; `default` exists, so the file is
  read and nothing of it is connected. Two kubeconfigs with the same context name hold back
  each other in the same way. `README.md:39` says uploaded kubeconfigs are persisted,
  `cmd/server/main.go:40` and `multi_cluster.go:543` that they all are loaded.
  `RestartRestoresStored` holds all the same: it allows a name that was taken before, and
  shows that this and a failed dial are the only ways to lose a stored context.
- **One cluster can keep the server from opening** (`stuck`).
  `startClusterInformers` waits in `WaitForCacheSync` (`:274`) on a `StopCh` that is
  known to nobody else yet. If a context answers but denies one of the listed
  kinds, `main()` never reaches `router.Run`, although `cmd/server/main.go:27` says
  uploads are always possible. In an upload the same wait holds the write lock.
- **A cluster added again is watched through its old connection** (`readded`).
  `brokerForResource` (`pkg/api/handlers/resource_watch.go:233`) returns the broker of
  the name for as long as the process lives. After a removal that broker is attached to
  a stopped informer; a stream opened after the cluster was added again gets its
  snapshot and no event, although `:242-244` promises events. The same happens to the
  streams of a cluster added again when the broker is made late, by a request that the
  removal overtook before it reached `brokerForResource`. The page hides it: `liveTable` fetches the list every 10 s.

- **A save overwrites what happened while the editor was open** (`saved`).
  `UpdateClusterResourceYAML` re-reads the object and puts its present `resourceVersion` into
  the user's text (`pkg/api/handlers/yaml_edit.go:197`, `:213-222`), so the optimistic lock
  spans only that moment. Its conflict message says "resource changed since you opened
  it; reload and re-edit" (`:225`): a change made since the user opened it is not
  noticed, and the text made from the older object replaces it. `NoBlindOverwrite` holds
  all the same, because it speaks of what the handler read, not of what the user did.

Not a finding, since no document speaks of it: `k8s/deployment.yaml` puts the stored
kubeconfigs on an `emptyDir`. They survive the restart of the container that `Crash`
models, not the removal of the pod.

## 4. Proofs

TLAPS proves the following, for every value of the constants that satisfies the named
assumptions of the module: constants have their types, and the values that stand for
"none" are not members. Theorems without a module are those of `ClusterManager`, which
assumes `NamesAssumption`, `FilesAssumption` and `WorkersAssumption`.

| theorem | statement |
|---|---|
| `TypeCorrect` | `Spec => []TypeOK` |
| `Inductive` | `Spec => [](TypeOK /\ OpsInv /\ IInv)` |
| `ServedClientsRunAlways` | `Spec => []ServedClientsRun` |
| `NameIsKeyAlways` | `Spec => []NameIsKey` |
| `OnlyInClusterLeaksAlways` | `Spec => []OnlyInClusterLeaks` |
| `Refinement` | `Spec => ImplementsRegistry` |
| `NoSilentReplacementEver` | `Spec => NoSilentReplacement` |
| `ReportsAreTrueEver` | `Spec => ReportsAreTrue` |
| `ClusterRestartProofs!RestartRestoresStoredEver` | `Spec => RestartRestoresStored` |
| `ResourceWatchProofs!TypeCorrect` | `Spec => []TypeOK` of `ResourceWatch` |
| `FedStreamsFollowAlways` | `Spec => []FedStreamsFollow` |
| `ResourceWatchProofs!OnlyDeadBrokersAreSilentAlways` | `Spec => []OnlyDeadBrokersAreSilent` |
| `WorkloadEditsProofs!Inductive` | `Spec => []IInv` |
| `WorkloadEditsProofs!TypeCorrect` | `Spec => []TypeOK` |
| `WorkloadEditsProofs!NoBlindOverwriteEver` | `Spec => NoBlindOverwrite` |
| `WorkloadEditsProofs!ConflictsAreRealEver` | `Spec => ConflictsAreReal` |
| `WorkloadEditsProofs!Refinement` | `Spec => ImplementsAtomicEdits` |
| `LegacyServerProofs!Inductive` | `Spec => []IInv` |
| `LegacyServerProofs!TypeCorrect` | `Spec => []TypeOK` |
| `LegacyServerProofs!QuietCachesAreCurrentAlways` | `Spec => []QuietCachesAreCurrent` |
| `LegacyServerProofs!Refinement` | `Spec => ImplementsSnapshotReads` |
| `ClusterReadsProofs!Inductive` | `Spec => []IInv` |
| `ClusterReadsProofs!TypeCorrect` | `Spec => []TypeOK` |
| `ClusterReadsProofs!AnswersAreRecentEver` | `Spec => []AnswersAreRecent` |
| `ClusterReadsProofs!ReadsAreFedAlways` | `Spec => []ReadsAreFed` |
| `ClusterReadsProofs!EndedLogsAreWholeAlways` | `Spec => []EndedLogsAreWhole` |
| `LiveTableProofs!Inductive` | `Spec => []IInv` |
| `LiveTableProofs!TypeCorrect` | `Spec => []TypeOK` |
| `LiveTableProofs!ShowsWhatItHoldsAlways` | `Spec => []ShowsWhatItHolds` |
| `LiveTableProofs!ResyncTakesOverEver` | `Spec => ResyncTakesOver` |

The argument, first for the manager. `ServedClientsRun` is not inductive: a removal
stops one connection, and nothing in it says that no other entry has the same one.
`IInv` adds what makes it so:

- `RolesInv`: `main()` is at a start-up or serving place, a request never is, and
  requests are idle until the server opens;
- `LockInv`: the worker at `each` or `sync` is the one that holds the lock;
- `EntriesInv`: entries run, know their own name and do not share a connection;
- `ConnectingInv`: the connection being opened runs and no entry has it;
- `BootInv`: a name that start-up may still write without looking for an entry is held
  at most by the in-cluster connection;
- `OnlyInClusterLeaks` itself.

`OpsInv` keeps `job[w].op` and `job[w].pc` together (a worker at `each` is adding, one
that removes never connects). The step lemmas follow the shape of `Next`: start-up,
the add loop, the handlers, arrivals, the crash. For the refinement each action is
shown to be `Dial`, `Settle`, `Drop`, `Open`, `Restart` or a stutter of the registry.
`ReportsAreTrue` needs one more invariant, `ReportInv`: while a worker is in the loop
every name in its `added` is connected and every connected name in its `failed` was
added by the same call.

`RestartRestoresStored` says of each context of each stored kubeconfig that the client under
its name was dialled from that very kubeconfig, or that dialling it from there failed, or
that the client under its name is the in-cluster one, one of the initial kubeconfig or one
of a file that comes first. It rests on `LoadInv`: until the files are read every entry
comes from the boot (`BootSourceInv`); the file under way comes before those in the queue
and is what clients are dialled from (`FileInv`); every entry comes from the boot or from a
file that has been reached (`OriginInv`); and every context is in a file still queued, in
the loop under way, or settled in one of the three ways (`RestoreInv`). `OriginInv` is what
tells a name that was taken before from one that a later file has stolen.

`ResourceWatch` is proved for any number of clusters, connections, objects and streams
and any buffer, from `ConnsAssumption`, `RowsAssumption` (the keys are finite, so that a
replay of the store is a sequence) and `BoundsAssumption`. `FedStreamsFollow` speaks of
streams only once they have their snapshot; what makes it inductive is `WatchInv`:

- `SubsInv`: the subscribers are the handlers between `subscribe` and `unsubscribe`, and
  the broker of a handler past `brokerForResource` exists;
- `NoticesInv`: for each key they are about, the notices queued for a running informer's
  handler end in what the lister says;
- `HeadingInv`: for each subscriber, snapshot taken or not, the newest event about a key
  it has not lost is still queued, or last of its key in the channel, or shown.

The lemmas about `KeysIn` and `EndsWith` say what an `Append` and a `Tail` leave as the
newest event of a key. The step that matters is `Snapshot`: events older than it may
still be in the channel, but the newest of each key says what the snapshot says.
`OnlyDeadBrokersAreSilent` is the other half: the finding `readded` shows a stream whose
broker does not feed it, and this theorem that there is no other way to come by one. It
follows from `HeldInv`: a connection that a handler or a broker holds and that still lives
is the one registered under its name, because an open registry dials free names only.

`WorkloadEdits` is proved for any objects, users, values and bound, from
`ValuesAssumption`, `NamesAssumption` and `BoundsAssumption`. `NoBlindOverwrite` needs to know
that a version tells whether an object was written. `IInv` says so: `Growing` (no object
has a version above `revision`) and `CopiesAreCurrent` (as long as nobody else has written
the object, it exists and has the version and content the handler read; once somebody
has, it is gone or its version is higher), with `DeletesAsk` for the refinement, which
must tell deletes from edits by the wish alone. An update is then an `Edit` of
`AtomicEdits` because its copy is the object.

`LegacyServer` is proved for any kinds, contents, requests and bound, from
`ContentsAssumption`, `BoundAssumption` and `NobodyAssumption`. `LockOK` says who holds
`cacheMu`, `CachesOK` that positions only grow from cache to refresh to lister and that
a slice nobody copies is whole, `ReadersOK` that what a reader has taken is what the
caches hold while it has the lock. The refinement maps the answer to the instant of
`RLock`, before the slices are taken: `due` is what the caches hold then, and `ReadersOK`
says that what is taken in the end is equal to it.

`ClusterReads` is proved for any kinds, contents, requests, connections, changes and
logs, from `BoundsAssumption` and `PageAssumption`. `PositionsOK` says that no cache is ahead of the API server
and `RequestsOK` that each read still to be made will find at least the position that
was there when the request came in, and that the reads made found no older one. What an
answer shows is then the selection of one content of the kind since the request came in
(`ShownSince`): all of it, except for `GetClusterEvents`, of which it is a first page, for any
`PageSize`.

`AnswersAreRecent` would hold of a handler that reads an empty cache for ever, and
`ReadsAreFed` excludes it: `FedOK` says that every connection there has been has an informer
with a first list for each kind that any handler lists. The two lists of informers differ,
and that the shorter one has every such kind is checked handler by handler (`RoutesFed`).
`EndedLogsAreWhole` rests on `LogsOK`, by which no more is sent than has come.

`CachesOK` of `LegacyServer` says that a cache is never ahead, and `CallsOK` that it is never
left behind: with no callback to come, a refresh under way has listed all there is, and
without one the cache holds it. `QuietCachesAreCurrent` follows, for any number of events
that come between the list of a refresh and its lock.

`LiveTable` is proved for any number of keys, views, clusters, slots, acts and faults, from
`KeysAssumption`, `WorldsAssumption`, `BoundsAssumption`, `ViewsAssumption` and
`NoStreamAssumption` (what stands for a page without a live table, or for no stream, is
none). `ShowsWhatItHolds` compares the lines that `_upsert` and `_remove` change one by one with
those that `_renderAll` draws. The invariant says it without drawing: the lines are sorted
by key (`Sorted`) and their keys are the visible ones (`Enumerate`), and two sorted
enumerations of the same keys with the same rows are equal (`Unique`). One lemma each shows
that replacing, inserting and removing a line keep it. `ActsOK` bounds the timers: every
fallback timer, delete and change of cluster under way was paid for by an act of the user,
so `late` and `awaiting` never exceed `MaxActs`.

The loops of `_resync` and the drawing of `_renderAll` run over `1 .. Count`, and their results
are proved for every `Count`. The induction this takes is had without a theorem that has an
operator as its parameter: a set of numbers below `Count` that has a member has a least one
(`Least`, from the well-foundedness of `<` on `Nat`), which gives the values of a recursive
function over `0 .. Count` step by step (`Steps`) and a property of its last value from one of
its first value and of each step (`Loop`). `ResyncTakesOver` then follows for a table that holds any rows at
all: after `Updated` it has the rows of the answer wherever the answer has one, after
`Purged` nothing else.

Only model-checked are the liveness properties, since TLAPS has no rules for fairness here:
`RequestsAnswered` of the manager and of the legacy server, `ServerOpens`, `ReadersCatchUp`,
`CachesConverge`, `CachesCatchUp`, `LogsAreShown`, `AbandonedStreamsEnd` and `TableConverges`. What keeps
most of them safe is proved: `FedStreamsFollow` is what `ReadersCatchUp` needs of every state,
`QuietCachesAreCurrent` what `CachesConverge` needs, `ReadsAreFed` what `CachesCatchUp` needs,
`EndedLogsAreWhole` what `LogsAreShown` needs, `ResyncTakesOver` what `TableConverges` needs. The
counterexamples of the findings are TLC's.

## 5. Not modelled

`AddCluster`, `GetAllClients` and `Shutdown` are called by nobody. Previews,
`GetClusterInfo` and the list of stored files read without changing anything. Request
bodies that do not parse are refused before any state changes. The content of a
kubeconfig is the set of its context names; the sanitizing of file names is a function
`FileFor` chosen by the instance, so that two names may share a file.

`ResourceWatch` models one kind, since kinds share nothing but the mutex of the broker
map; it leaves out the row builders and the ping of every 15 s.

- *Legacy handlers.* The handlers in `pkg/api/handlers` for the routes without a cluster
  begin with `checkLegacyClientAvailable` (`overview.go:16`), which answers 503, because
  `cmd/server` never calls `k8s.InitClient` (`pkg/k8s/client.go`) nor the `StartInformers` of
  `pkg/k8s/informer.go`. They cannot be reached further, and that is most of the Go lines
  that no definition stands for.
- *Projections.* Functions from one object to one row: copying and formatting.
- *Helm releases.* Each handler calls one action of the Helm library and passes on its
  result; what a rollback does is that library's, which is not in the repository.
- *Kubeconfig wizard.* One dialog of one user between two requests: preview and custom
  names. The server's side of the import is in `ClusterManager`, and what an import does to
  the open table in `LiveTable`.
- *Of `main.go`:* `streamLogs`, an older copy of the loop in `ClusterReads`, and the two
  metrics handlers, which ask the API server.
- *Build and deployment.* Scripts, manifests, styles.

## 6. Plan

Done, in this order: `ClusterManager` with `ClusterRegistry`, `ResourceWatch`, `WorkloadEdits`
with `AtomicEdits` (the editor and the workload actions in one module, because they
race for the same objects), `LegacyServer` with `SnapshotReads`, `ClusterReads` with the log
stream, `LiveTable`, all with proofs: every invariant and every action property of the runs
is a theorem.

Left:

1. `Projections`: pod status, allocation totals and sizes against reference definitions
   over bounded inputs.
2. `ImportWizard`: indices of the filtered and the unfiltered context list.
