--------------------------- MODULE ClusterManager ---------------------------
(***************************************************************************)
(* The multi-cluster manager of pkg/k8s/multi_cluster.go, the HTTP         *)
(* handlers of pkg/api/handlers/clusters.go that drive it and the start-up *)
(* sequence of cmd/server/main.go.                                         *)
(*                                                                         *)
(* The manager is a map from cluster names to clients under one RWMutex.   *)
(* A client owns a set of informers that runs until its StopCh is closed.  *)
(* Every handler is a goroutine, modelled by a worker that takes one step  *)
(* per lock operation, connection attempt or file-system call.  Read       *)
(* sections of the RWMutex contain no other call, so each is one step      *)
(* taken while no writer holds the lock.                                   *)
(***************************************************************************)
EXTENDS Naturals, Sequences, FiniteSets

CONSTANTS
    Names,        \* context names and custom cluster names
    Default,      \* the name of the in-cluster connection, "default"
    Configs,      \* kubeconfig documents that parse
    Contexts,     \* Contexts[c]: the context names document c declares
    InPod,        \* whether a start may find itself inside a cluster, and not:
                  \* {TRUE} for a container, whose pod does not change
    Initial,      \* the document at $KUBECONFIG, or "absent"
    Mappings,     \* the name mappings an upload may carry
    Files,        \* numbered in the order of os.ReadDir
    FileFor,      \* FileFor[n]: the file SaveKubeconfig derives from name n
    UploadFiles,  \* filenames an upload may carry; NoFile is an empty one
    NoFile,
    Unsyncable,   \* contexts that answer but deny some informer its list
    Conns,        \* client objects: informer factory, StopCh
    NoConn, NoClient,
    Main,         \* the goroutine of main()
    Reqs,         \* the goroutines of HTTP requests
    Nobody,       \* the lock is free
    MaxRestarts   \* bound on crashes of the process

Workers == Reqs \cup {Main}
Contents == Configs \cup {"absent", "empty", "garbled"}
Identity == [n \in Names |-> n]

ASSUME NamesAssumption ==
    /\ Default \in Names
    /\ Mappings \subseteq [Names -> Names]
    /\ Contexts \in [Configs -> SUBSET Names]
    /\ Initial \in Configs \cup {"absent"}
    /\ InPod \subseteq BOOLEAN /\ InPod # {}

ASSUME FilesAssumption ==
    /\ Files \subseteq Nat
    /\ FileFor \in [Names -> Files]
    /\ NoFile \notin Files
    /\ UploadFiles \subseteq Files \cup {NoFile}
    /\ Configs \cap {"absent", "empty", "garbled"} = {}

ASSUME WorkersAssumption ==
    /\ Main \notin Reqs
    /\ Nobody \notin Workers
    /\ NoConn \notin Conns
    /\ NoClient \notin [conn : Conns, name : Names, conf : Contents]
    /\ MaxRestarts \in Nat

VARIABLES
    clusters,  \* MultiClusterManager.clusters
    running,   \* connections whose StopCh is open, so whose informers run
    lock,      \* the writer that holds MultiClusterManager.mu, or Nobody
    job,       \* what each worker is doing: locals of its call stack
    stored,    \* the files of KubeconfigDir; they survive a restart
    linked,    \* workers whose open file is still the one in the directory
    inCluster, \* history: the running in-cluster connection, or NoConn
    restarts

vars == <<clusters, running, lock, job, stored, linked, inCluster, restarts>>

\* conf is history: the kubeconfig the client was dialled from, "absent" for the
\* in-cluster connection, which needs none.
Client == [conn : Conns, name : Names, conf : Contents]

Pcs == {"idle", "lock", "each", "sync", "save", "write", "read", "list", "use",
        "start", "home", "dial", "dialing", "files", "serve"}

JobRecord ==
    [pc : Pcs,
     op : {"none", "upload", "import", "remove", "get", "list", "load"},
     todo : SUBSET Names,           \* what the range loop has left
     queue : SUBSET Files,          \* main: stored files still to load
     conf : Contents,               \* the kubeconfig being added
     map : [Names -> Names],        \* nameMapping
     cur : Client \cup {NoClient},  \* the client being connected or held
     added : Seq(Names),
     failed : SUBSET (Contents \X Names),  \* with the kubeconfig that was tried
     file : Files \cup {NoFile}]   \* the file saved or, by main, loaded

\* Where a call of createClientForContext or createClientFromConfig waits.
ConnectingPcs == {"home", "dialing", "sync"}

Job == {j \in JobRecord : j.pc \in ConnectingPcs => j.cur \in Client}

Idle == [pc |-> "idle", op |-> "none", todo |-> {}, queue |-> {},
         conf |-> "absent", map |-> Identity, cur |-> NoClient,
         added |-> <<>>, failed |-> {}, file |-> NoFile]

InUse == running \cup {job[w].cur.conn : w \in {v \in Workers : job[v].cur # NoClient}}
Fresh == Conns \ InUse

Exists(n) == clusters[n] # NoClient
Connected == {n \in Names : Exists(n)}

\* The name a context is registered under: the custom one, if mapped.
Target(w, x) == job[w].map[x]

OnlyJobChanges ==
    UNCHANGED <<clusters, running, lock, stored, linked, inCluster, restarts>>

\* Worker w moves on to local state j.
Become(w, j) == job' = [job EXCEPT ![w] = j]

Connecting(w) == job[w].pc \in ConnectingPcs

Serving == job[Main].pc = "serve"

Booted == [w \in Workers |-> IF w = Main THEN [Idle EXCEPT !.pc = "start"] ELSE Idle]

Init ==
    /\ clusters = [n \in Names |-> NoClient]
    /\ running = {}
    /\ lock = Nobody
    /\ job = Booted
    /\ stored = [f \in Files |-> "absent"]
    /\ linked = {}
    /\ inCluster = NoConn
    /\ restarts = 0

-----------------------------------------------------------------------------
(* Connecting: createClientForContext and createClientFromConfig.  The     *)
(* factory is started on a new StopCh and the call waits for its caches.   *)

\* Mutant: the new client is not kept.
ForgetClient(w, x, c, pc) ==
    /\ running' = running \cup {c}
    /\ Become(w, [job[w] EXCEPT !.pc = pc, !.todo = @ \ {x}])

StartInformers(w, x, c, pc) ==
    /\ running' = running \cup {c}
    /\ Become(w, [job[w] EXCEPT !.pc = pc, !.todo = @ \ {x},
                                !.cur = [conn |-> c, name |-> x, conf |-> job[w].conf]])

\* WaitForCacheSync returns once every informer has listed.
CanSync(w) == job[w].cur.name \notin Unsyncable

-----------------------------------------------------------------------------
(* Start-up, before the router accepts a request.                          *)

InitialContexts == IF Initial = "absent" THEN {} ELSE Contexts[Initial]

\* rest.InClusterConfig goes by the environment and the files of the pod.
NotInCluster ==
    /\ FALSE \in InPod
    /\ job[Main].pc = "start"
    /\ Become(Main, [job[Main] EXCEPT !.pc = "dial", !.conf = Initial,
                                      !.todo = InitialContexts])
    /\ OnlyJobChanges

InitInClusterClient ==
    /\ TRUE \in InPod
    /\ job[Main].pc = "start"
    /\ \E c \in Fresh :
        /\ StartInformers(Main, Default, c, "home")
        /\ inCluster' = c
    /\ UNCHANGED <<clusters, lock, stored, linked, restarts>>

InClusterSynced ==
    /\ job[Main].pc = "home"
    /\ CanSync(Main)
    /\ lock = Nobody
    /\ clusters' = [clusters EXCEPT ![Default] = job[Main].cur]
    /\ Become(Main, [job[Main] EXCEPT !.pc = "dial", !.conf = Initial,
                                      !.cur = NoClient, !.todo = InitialContexts])
    /\ UNCHANGED <<running, lock, stored, linked, inCluster, restarts>>

\* InitMultiCluster: no lock and no check for an existing entry.
InitialConnect ==
    /\ job[Main].pc = "dial"
    /\ \E x \in job[Main].todo, c \in Fresh : StartInformers(Main, x, c, "dialing")
    /\ UNCHANGED <<clusters, lock, stored, linked, inCluster, restarts>>

InitialFailed ==
    /\ job[Main].pc = "dial"
    /\ \E x \in job[Main].todo : Become(Main, [job[Main] EXCEPT !.todo = @ \ {x}])
    /\ OnlyJobChanges

InitialSynced ==
    /\ job[Main].pc = "dialing"
    /\ CanSync(Main)
    /\ clusters' = [clusters EXCEPT ![job[Main].cur.name] = job[Main].cur]
    /\ Become(Main, [job[Main] EXCEPT !.pc = "dial", !.cur = NoClient])
    /\ UNCHANGED <<running, lock, stored, linked, inCluster, restarts>>

\* LoadStoredKubeconfigs lists the directory once ...
ReadStoredDir ==
    /\ job[Main].pc = "dial"
    /\ job[Main].todo = {}
    /\ Become(Main, [job[Main] EXCEPT !.pc = "files",
                                      !.queue = {f \in Files : stored[f] # "absent"}])
    /\ OnlyJobChanges

\* Mutant: a file that does not parse ends the loading.
StopAtGarbledFile ==
    /\ job[Main].pc = "files"
    /\ \E f \in job[Main].queue :
        /\ \A g \in job[Main].queue : f <= g
        /\ Become(Main, IF stored[f] = "garbled"
                        THEN [job[Main] EXCEPT !.queue = {}]
                        ELSE [job[Main] EXCEPT !.queue = @ \ {f}, !.file = f, !.op = "load",
                                               !.conf = stored[f], !.pc = "lock"])
    /\ OnlyJobChanges

\* Mutant: a file that does not parse is tried again.
RetryGarbledFile ==
    /\ job[Main].pc = "files"
    /\ \E f \in job[Main].queue :
        /\ \A g \in job[Main].queue : f <= g
        /\ stored[f] # "garbled"
        /\ Become(Main, [job[Main] EXCEPT !.queue = @ \ {f}, !.file = f, !.op = "load",
                                          !.conf = stored[f], !.pc = "lock"])
    /\ OnlyJobChanges

\* ... and adds the clusters of each file in turn; a file that does not parse
\* is logged and skipped.
LoadStoredFile ==
    /\ job[Main].pc = "files"
    /\ \E f \in job[Main].queue :
        /\ \A g \in job[Main].queue : f <= g
        /\ Become(Main, [job[Main] EXCEPT
               !.queue = @ \ {f}, !.file = f, !.op = "load", !.conf = stored[f],
               !.pc = IF stored[f] = "garbled" THEN "files" ELSE "lock"])
    /\ OnlyJobChanges

StartServing ==
    /\ job[Main].pc = "files"
    /\ job[Main].queue = {}
    /\ Become(Main, [Idle EXCEPT !.pc = "serve"])
    /\ OnlyJobChanges

-----------------------------------------------------------------------------
(* AddClustersFromKubeconfig and AddClustersFromKubeconfigContent: the     *)
(* whole range over the contexts runs under the write lock.                *)

ContextsOf(c) == IF c \in Configs THEN Contexts[c] ELSE {}

\* Mutant: the contexts are added without the lock.
AddUnlocked(w) ==
    /\ job[w].pc = "lock"
    /\ job[w].op \in {"upload", "import", "load"}
    /\ Become(w, [job[w] EXCEPT !.pc = "each", !.todo = ContextsOf(job[w].conf)])
    /\ UNCHANGED <<clusters, running, lock, stored, linked, inCluster, restarts>>

AcquireLock(w) ==
    /\ job[w].pc = "lock"
    /\ job[w].op \in {"upload", "import", "load"}
    /\ lock = Nobody
    /\ lock' = w
    /\ Become(w, [job[w] EXCEPT !.pc = "each", !.todo = ContextsOf(job[w].conf)])
    /\ UNCHANGED <<clusters, running, stored, linked, inCluster, restarts>>

SkipExisting(w) ==
    /\ job[w].pc = "each"
    /\ \E x \in job[w].todo :
        /\ Exists(Target(w, x))
        /\ Become(w, [job[w] EXCEPT !.todo = @ \ {x}])
    /\ OnlyJobChanges

ConnectFailed(w) ==
    /\ job[w].pc = "each"
    /\ \E x \in job[w].todo :
        /\ ~Exists(Target(w, x))
        /\ Become(w, [job[w] EXCEPT !.todo = @ \ {x},
                                   !.failed = @ \cup {<<job[w].conf, Target(w, x)>>}])
    /\ OnlyJobChanges

\* Mutant: the existing entry is looked up under the context's own name.
CheckContextName(w) ==
    /\ job[w].pc = "each"
    /\ \E x \in job[w].todo, c \in Fresh :
        /\ ~Exists(x)
        /\ StartInformers(w, x, c, "sync")
    /\ UNCHANGED <<clusters, lock, stored, linked, inCluster, restarts>>

Connect(w) ==
    /\ job[w].pc = "each"
    /\ \E x \in job[w].todo, c \in Fresh :
        /\ ~Exists(Target(w, x))
        /\ StartInformers(w, x, c, "sync")
    /\ UNCHANGED <<clusters, lock, stored, linked, inCluster, restarts>>

\* Mutant: the client keeps its context's name.
AddUnrenamed(w) ==
    LET name == Target(w, job[w].cur.name) IN
    /\ job[w].pc = "sync"
    /\ CanSync(w)
    /\ clusters' = [clusters EXCEPT ![name] = job[w].cur]
    /\ Become(w, [job[w] EXCEPT !.pc = "each", !.cur = NoClient, !.added = Append(@, name)])
    /\ UNCHANGED <<running, lock, stored, linked, inCluster, restarts>>

AddSynced(w) ==
    LET name == Target(w, job[w].cur.name) IN
    /\ job[w].pc = "sync"
    /\ CanSync(w)
    /\ clusters' = [clusters EXCEPT ![name] = [job[w].cur EXCEPT !.name = name]]
    /\ Become(w, [job[w] EXCEPT !.pc = "each", !.cur = NoClient, !.added = Append(@, name)])
    /\ UNCHANGED <<running, lock, stored, linked, inCluster, restarts>>

\* The file SaveKubeconfig writes: the request's filename or, without one, the
\* sanitized name of the first cluster it added.
SaveName(w) == IF job[w].file = NoFile THEN FileFor[job[w].added[1]] ELSE job[w].file

\* main goes on to the next file, an upload that added something saves its
\* kubeconfig, every other caller answers.
Proceed(w) ==
    \/ /\ job[w].op = "load"
       /\ Become(w, [Idle EXCEPT !.pc = "files", !.queue = job[w].queue,
                                 !.failed = job[w].failed])
    \/ /\ job[w].op = "upload" /\ job[w].added # <<>>
       /\ Become(w, [Idle EXCEPT !.pc = "save", !.conf = job[w].conf,
                                 !.file = SaveName(w)])
    \/ /\ job[w].op = "upload" => job[w].added = <<>>
       /\ job[w].op # "load"
       /\ Become(w, Idle)

\* Mutant: no Unlock when nothing was added.
KeepLock(w) ==
    /\ job[w].pc = "each"
    /\ job[w].todo = {}
    /\ lock' = IF job[w].added = <<>> THEN lock ELSE Nobody
    /\ Proceed(w)
    /\ UNCHANGED <<clusters, running, stored, linked, inCluster, restarts>>

\* The deferred Unlock.
ReleaseLock(w) ==
    /\ job[w].pc = "each"
    /\ job[w].todo = {}
    /\ lock' = Nobody
    /\ Proceed(w)
    /\ UNCHANGED <<clusters, running, stored, linked, inCluster, restarts>>

-----------------------------------------------------------------------------
(* The handlers.  A body that does not parse, or a path that cannot be     *)
(* read, is answered before the manager is called: no state changes.       *)

UploadKubeconfig(r) ==
    /\ Serving
    /\ job[r].pc = "idle"
    /\ \E c \in Configs, m \in Mappings, f \in UploadFiles :
        Become(r, [Idle EXCEPT !.pc = "lock", !.op = "upload",
                                !.conf = c, !.map = m, !.file = f])
    /\ OnlyJobChanges

ImportClustersFromKubeconfig(r) ==
    /\ Serving
    /\ job[r].pc = "idle"
    /\ \E c \in Configs :
        Become(r, [Idle EXCEPT !.pc = "lock", !.op = "import", !.conf = c])
    /\ OnlyJobChanges

\* A request of kind op for the cluster n: RemoveCluster or any handler
\* behind ClusterMiddleware.
AskCluster(r, op, pc) ==
    /\ Serving
    /\ job[r].pc = "idle"
    /\ \E n \in Names :
        Become(r, [Idle EXCEPT !.pc = pc, !.op = op, !.todo = {n}])
    /\ OnlyJobChanges

\* SaveKubeconfig: os.WriteFile opens with O_TRUNC ...
SaveTruncate(r) ==
    /\ job[r].pc = "save"
    /\ stored' = [stored EXCEPT ![job[r].file] = "empty"]
    /\ linked' = linked \cup {r}
    /\ Become(r, [job[r] EXCEPT !.pc = "write"])
    /\ UNCHANGED <<clusters, running, lock, inCluster, restarts>>

\* ... then writes at offset 0.  Another upload to the same file may have
\* written since the truncation: its longer text leaves a tail behind.  The
\* text is lost if the write fails or the file was deleted in the meantime.
SaveWrite(r) ==
    LET f == job[r].file IN
    /\ job[r].pc = "write"
    /\ \/ /\ r \in linked
          /\ \/ stored' = [stored EXCEPT ![f] = job[r].conf]
             \/ /\ stored[f] \notin {"empty", job[r].conf}
                /\ stored' = [stored EXCEPT ![f] = "garbled"]
       \/ UNCHANGED stored
    /\ linked' = linked \ {r}
    /\ Become(r, Idle)
    /\ UNCHANGED <<clusters, running, lock, inCluster, restarts>>

\* The directory or the file cannot be opened; the handler ignores the error.
SaveFailed(r) ==
    /\ job[r].pc = "save"
    /\ Become(r, Idle)
    /\ OnlyJobChanges

\* Mutant: the entry stays behind its closed StopCh.
KeepEntry(n) ==
    /\ running' = IF Exists(n) THEN running \ {clusters[n].conn} ELSE running
    /\ UNCHANGED <<clusters, inCluster>>

\* Mutant: StopCh is not closed.
KeepRunning(n) ==
    /\ clusters' = [clusters EXCEPT ![n] = NoClient]
    /\ UNCHANGED <<running, inCluster>>

\* The informers of n are stopped and its entry is deleted, if there is one.
Disconnect(n) ==
    IF Exists(n)
    THEN /\ running' = running \ {clusters[n].conn}
         /\ clusters' = [clusters EXCEPT ![n] = NoClient]
         /\ inCluster' = IF inCluster = clusters[n].conn THEN NoConn ELSE inCluster
    ELSE UNCHANGED <<running, clusters, inCluster>>

\* Mutant: the entry is deleted without the lock.
RemoveUnlocked(r) ==
    /\ job[r].pc = "lock"
    /\ job[r].op = "remove"
    /\ \E n \in job[r].todo : Disconnect(n)
    /\ Become(r, Idle)
    /\ UNCHANGED <<lock, stored, linked, restarts>>

RemoveCluster(r) ==
    /\ job[r].pc = "lock"
    /\ job[r].op = "remove"
    /\ lock = Nobody
    /\ \E n \in job[r].todo : Disconnect(n)
    /\ Become(r, Idle)
    /\ UNCHANGED <<lock, stored, linked, restarts>>

\* GetClient for ClusterMiddleware.  The handler behind it keeps the client
\* until it answers, whatever happens to the map.
GetClient(r) ==
    /\ job[r].pc = "read"
    /\ lock = Nobody
    /\ \E n \in job[r].todo :
        IF Exists(n)
        THEN Become(r, [Idle EXCEPT !.pc = "use", !.op = "get", !.cur = clusters[n]])
        ELSE Become(r, Idle)
    /\ OnlyJobChanges

\* The ListClusters handler takes the names under one read lock ...
ListClusters(r) ==
    /\ Serving
    /\ job[r].pc = "idle"
    /\ lock = Nobody
    /\ Become(r, [job[r] EXCEPT !.pc = "list", !.op = "list", !.todo = Connected])
    /\ OnlyJobChanges

\* ... and each client under another; a name that is gone is left out.
ListOne(r) ==
    /\ job[r].pc = "list"
    /\ lock = Nobody
    /\ \E n \in job[r].todo :
        Become(r, [job[r] EXCEPT !.todo = @ \ {n},
                                 !.cur = IF Exists(n) THEN clusters[n] ELSE @])
    /\ OnlyJobChanges

ListDone(r) ==
    /\ job[r].pc = "list"
    /\ job[r].todo = {}
    /\ Become(r, Idle)
    /\ OnlyJobChanges

\* DeleteStoredKubeconfig disconnects nothing.
DeleteStoredKubeconfig(r) ==
    /\ Serving
    /\ job[r].pc = "idle"
    /\ \E f \in Files :
        /\ stored[f] # "absent"
        /\ stored' = [stored EXCEPT ![f] = "absent"]
        /\ linked' = {w \in linked : job[w].file # f}
    /\ UNCHANGED <<clusters, running, lock, job, inCluster, restarts>>

\* The handler behind the middleware is done with its client.
Answer(r) ==
    /\ job[r].pc = "use"
    /\ Become(r, Idle)
    /\ OnlyJobChanges

\* The container is restarted on the same volume.
Crash ==
    /\ restarts < MaxRestarts
    /\ restarts' = restarts + 1
    /\ clusters' = [n \in Names |-> NoClient]
    /\ running' = {}
    /\ lock' = Nobody
    /\ job' = Booted
    /\ linked' = {}
    /\ inCluster' = NoConn
    /\ UNCHANGED stored

-----------------------------------------------------------------------------
StartUp ==
    \/ NotInCluster \/ InitInClusterClient \/ InClusterSynced
    \/ InitialConnect \/ InitialFailed \/ InitialSynced
    \/ ReadStoredDir \/ LoadStoredFile \/ StartServing

AddClusters(w) ==
    \/ SkipExisting(w) \/ ConnectFailed(w) \/ Connect(w) \/ AddSynced(w)
    \/ ReleaseLock(w)

Arrive(r) ==
    \/ UploadKubeconfig(r) \/ ImportClustersFromKubeconfig(r)
    \/ AskCluster(r, "remove", "lock") \/ AskCluster(r, "get", "read")
    \/ ListClusters(r) \/ DeleteStoredKubeconfig(r)

Handle(r) ==
    \/ SaveTruncate(r) \/ SaveWrite(r) \/ SaveFailed(r)
    \/ RemoveCluster(r) \/ GetClient(r)
    \/ ListOne(r) \/ ListDone(r) \/ Answer(r)

\* One step of a goroutine that has something to do.
Step(w) ==
    \/ AcquireLock(w)
    \/ AddClusters(w)
    \/ w \in Reqs /\ Handle(w)

Next ==
    \/ StartUp
    \/ \E w \in Workers : Step(w)
    \/ \E r \in Reqs : Arrive(r)
    \/ Crash

Spec == Init /\ [][Next]_vars

\* Goroutines that can run do run; the RWMutex serves its waiters in turn, so
\* one that is passed over again and again gets it in the end.  Nothing forces
\* a request to arrive or the process to crash.
Fairness == WF_vars(StartUp) /\ \A w \in Workers : SF_vars(Step(w))

FairSpec == Spec /\ Fairness

-----------------------------------------------------------------------------
\* Every variable has its type.
TypeOK ==
    /\ clusters \in [Names -> Client \cup {NoClient}]
    /\ running \subseteq Conns
    /\ lock \in Workers \cup {Nobody}
    /\ job \in [Workers -> Job]
    /\ stored \in [Files -> Contents]
    /\ linked \subseteq Reqs
    /\ inCluster \in Conns \cup {NoConn}
    /\ restarts \in 0..MaxRestarts

\* A client the manager hands out has running informers: closing StopCh and
\* leaving the map are one step for every reader (RemoveCluster, GetClient).
ServedClientsRun == \A n \in Connected : clusters[n].conn \in running

\* A client knows itself by the name it is registered under, also when the
\* upload renamed its context: the watch brokers are keyed by client.Name.
NameIsKey == \A n \in Connected : clusters[n].name = n

Owned(c) ==
    \/ \E n \in Connected : clusters[n].conn = c
    \/ \E w \in Workers : Connecting(w) /\ job[w].cur.conn = c

\* Informers nobody can stop any more are those of the in-cluster connection,
\* whose entry a kubeconfig context named "default" takes over at start-up; no
\* upload, import, removal or restart leaks any.
OnlyInClusterLeaks == \A c \in running : Owned(c) \/ c = inCluster

\* While requests are served an entry of the map is replaced by nothing but its
\* own removal: two imports of one name never overwrite each other's client.
NoSilentReplacement ==
    [][\A n \in Names : Serving /\ Exists(n) /\ clusters'[n] # clusters[n]
           => clusters'[n] = NoClient /\ clusters[n].conn \notin running']_vars

\* When an import lets go of the lock its report is the truth: every name in
\* added is connected, every name that is only in failed is not.
ReportsAreTrue ==
    [][\A w \in Reqs : lock = w /\ lock' # w /\ restarts' = restarts =>
           /\ \A i \in DOMAIN job[w].added : Exists(job[w].added[i])
           /\ \A n \in Connected : <<job[w].conf, n>> \in job[w].failed
                 => \E i \in DOMAIN job[w].added : job[w].added[i] = n]_vars

\* The kubeconfig the client registered under n was dialled from.
Source(n) == clusters[n].conf

\* Names are taken in this order: the in-cluster connection, $KUBECONFIG, the
\* stored files in the order of the directory.
TakenBefore(f, x) ==
    \/ Source(x) \in {"absent", Initial}
    \/ \E g \in Files : g < f /\ Source(x) = stored[g]

\* What a start restores: when the server opens, each context of each stored
\* kubeconfig that parses is connected from that very kubeconfig, under the name
\* the file gives it, unless dialling it from there has just failed or the name
\* was taken before: by the in-cluster connection, by $KUBECONFIG or by a file
\* that comes first.  The mapping of the upload is gone (:567) and a name that
\* exists is skipped (:348-351), but no file holds back another one's contexts.
RestartRestoresStored ==
    [][~Serving /\ Serving' =>
         \A f \in Files : \A x \in ContextsOf(stored[f]) :
            \/ <<stored[f], x>> \in job[Main].failed
            \/ Exists(x) /\ (Source(x) = stored[f] \/ TakenBefore(f, x))]_vars

\* README.md:39 says uploaded kubeconfigs are persisted and multi_cluster.go:543
\* that all of them are loaded at the next start: some cluster is connected from
\* each of them, unless dialling failed.  There may be none: the names users gave
\* are not stored, and a context whose own name is taken, as "default" is in a
\* cluster and by every k3s kubeconfig, is skipped.
StoredClustersReturn ==
    [][~Serving /\ Serving' =>
         \A f \in Files :
            ContextsOf(stored[f]) # {} =>
               \/ \E x \in ContextsOf(stored[f]) : <<stored[f], x>> \in job[Main].failed
               \/ \E n \in Connected : Source(n) = stored[f]]_vars

Saves(c) == \E r \in Reqs : job[r].pc = "write" /\ job[r].conf = c

\* README.md:39 says uploaded kubeconfigs are persisted: a document that is in
\* a stored file stays in some stored file until a file is deleted or the
\* document itself is saved again.  It does not: SaveKubeconfig writes over a
\* file of the same name.
UploadsStayPersisted ==
    [][\A c \in Configs :
         LET holding == {f \in Files : stored[f] = c}
             deleted == \E f \in holding : stored'[f] = "absent"
         IN  holding # {} /\ ~deleted /\ ~Saves(c)' => \E f \in Files : stored'[f] = c]_vars

\* Every request is answered.
RequestsAnswered == \A r \in Reqs : job[r].pc # "idle" ~> job[r].pc = "idle"

\* The server opens after every start.  cmd/server/main.go:27 says the manager
\* is always enabled to allow kubeconfig uploads.
ServerOpens == ~Serving ~> Serving

Dialling == {<<Target(w, job[w].cur.name), job[w].cur.conn>> : w \in {v \in Workers : Connecting(v)}}

Table == [n \in Names |-> IF Exists(n) THEN clusters[n].conn ELSE NoConn]

\* The manager implements the registry: the lock, the workers and the files
\* are invisible to whoever looks at names, connections and open StopChs.
Registry == INSTANCE ClusterRegistry WITH
    table <- Table,
    live <- running,
    dialling <- Dialling,
    open <- Serving

ImplementsRegistry == Registry!Spec
=============================================================================
