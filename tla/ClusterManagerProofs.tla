------------------------ MODULE ClusterManagerProofs ------------------------
(***************************************************************************)
(* Theorems about ClusterManager, for every value of its constants.        *)
(***************************************************************************)
EXTENDS ClusterManager, TLAPS

BootPcs == {"start", "home", "dial", "dialing", "files", "serve"}
AddPcs == {"lock", "each", "sync"}

\* main() runs the start-up, then only waits; requests do the rest, and none
\* of them has begun while main() has not opened the server.
RolesInv ==
    /\ job[Main].pc \in BootPcs \cup AddPcs
    /\ job[Main].map = Identity
    /\ \A r \in Reqs : job[r].pc \in Pcs \ BootPcs
    /\ ~Serving => \A r \in Reqs : job[r].pc = "idle"

\* The worker in the range loop is the one that holds the lock.
LockInv ==
    \A w \in Workers : job[w].pc \in {"each", "sync"} <=> lock = w

\* No two entries share a client, every entry's informers run, and a client
\* knows its name.
EntriesInv ==
    \A n \in Connected :
        /\ clusters[n].conn \in running
        /\ clusters[n].name = n
        /\ \A m \in Connected : clusters[m].conn = clusters[n].conn => m = n

\* A client being connected runs, is in no entry yet and, under the lock, will
\* displace none.
ConnectingInv ==
    \A w \in Workers : Connecting(w) =>
        /\ job[w].cur.conn \in running
        /\ \A n \in Connected : clusters[n].conn # job[w].cur.conn
        /\ job[w].pc = "sync" => ~Exists(Target(w, job[w].cur.name))

\* Names InitMultiCluster may still write without looking.
Undialled ==
    CASE job[Main].pc = "dial" -> job[Main].todo
      [] job[Main].pc = "dialing" -> job[Main].todo \cup {job[Main].cur.name}
      [] OTHER -> {}

\* Before the stored files are read, an entry that can still be displaced is
\* the in-cluster one, and nothing runs before the first connection.
BootInv ==
    /\ job[Main].pc = "start" => running = {}
    /\ job[Main].pc \in {"start", "home"} => Connected = {}
    /\ job[Main].pc = "home" =>
           job[Main].cur.name = Default /\ job[Main].cur.conn = inCluster
    /\ job[Main].pc = "dialing" => job[Main].cur.name \notin job[Main].todo
    /\ \A n \in Undialled : Exists(n) => clusters[n].conn = inCluster

IInv ==
    /\ RolesInv
    /\ LockInv
    /\ EntriesInv
    /\ ConnectingInv
    /\ BootInv
    /\ OnlyInClusterLeaks
-----------------------------------------------------------------------------
LEMMA IdleType == Idle \in Job
  BY NamesAssumption, FilesAssumption DEF Idle, Job, JobRecord, Pcs, ConnectingPcs, Contents, Identity

LEMMA BootedType == Booted \in [Workers -> Job]
<1>1. [Idle EXCEPT !.pc = "start"] \in Job
  BY IdleType DEF Job, JobRecord, Pcs, ConnectingPcs
<1>2. QED
  BY <1>1, IdleType DEF Booted

LEMMA ContextsType == /\ \A c : ContextsOf(c) \subseteq Names
                      /\ InitialContexts \subseteq Names
                      /\ Initial \in Contents
  BY NamesAssumption DEF ContextsOf, InitialContexts, Contents

LEMMA JobType ==
  ASSUME TypeOK, NEW w \in Workers
  PROVE  /\ job[w] \in Job
         /\ \A j \in Job : Become(w, j) => job' \in [Workers -> Job]
  BY DEF TypeOK, Become

LEMMA TargetType ==
  ASSUME TypeOK, NEW w \in Workers, NEW x \in Names
  PROVE  Target(w, x) \in Names
  BY JobType DEF Job, JobRecord, Target

LEMMA StartInformersType ==
  ASSUME TypeOK, NEW w \in Workers, NEW x \in Names, NEW c \in Fresh, NEW pc \in Pcs,
         StartInformers(w, x, c, pc)
  PROVE  running' \subseteq Conns /\ job' \in [Workers -> Job]
<1>1. [job[w] EXCEPT !.pc = pc, !.todo = @ \ {x},
                      !.cur = [conn |-> c, name |-> x, conf |-> job[w].conf]] \in Job
  <2> DEFINE cl == [conn |-> c, name |-> x, conf |-> job[w].conf]
  <2>1. job[w] \in Job /\ job[w].conf \in Contents
    BY JobType DEF Job, JobRecord
  <2>2. cl \in Client
    BY <2>1 DEF Client, Fresh
  <2> HIDE DEF cl
  <2>3. [job[w] EXCEPT !.pc = pc, !.todo = @ \ {x}, !.cur = cl] \in Job
    BY <2>1, <2>2 DEF Job, JobRecord
  <2>4. QED
    BY <2>3 DEF cl
<1>2. QED
  BY <1>1, JobType DEF StartInformers, TypeOK, Fresh

-----------------------------------------------------------------------------
\* Start-up keeps every variable in its type.
LEMMA StartUpType == ASSUME TypeOK, StartUp PROVE TypeOK'
<1> USE DEF Workers
<1>0. Main \in Workers /\ job[Main] \in Job
  BY JobType
<1>1. CASE NotInCluster
  <2>1. [job[Main] EXCEPT !.pc = "dial", !.conf = Initial, !.todo = InitialContexts] \in Job
    BY <1>0, ContextsType DEF Job, JobRecord, Pcs, ConnectingPcs
  <2>2. QED
    BY <1>0, <1>1, <2>1, JobType DEF NotInCluster, OnlyJobChanges, TypeOK
<1>2. CASE InitInClusterClient
  <2>1. PICK c \in Fresh : StartInformers(Main, Default, c, "home") /\ inCluster' = c
    BY <1>2 DEF InitInClusterClient
  <2>2. QED
    BY <1>0, <1>2, <2>1, StartInformersType, NamesAssumption
    DEF InitInClusterClient, TypeOK, Pcs, ConnectingPcs, Fresh
<1>3. CASE InClusterSynced
  <2>1. [job[Main] EXCEPT !.pc = "dial", !.conf = Initial, !.cur = NoClient,
                                   !.todo = InitialContexts] \in Job
    BY <1>0, ContextsType DEF Job, JobRecord, Pcs, ConnectingPcs
  <2>2. job[Main].cur \in Client \cup {NoClient}
    BY <1>0 DEF Job, JobRecord
  <2>3. QED
    BY <1>0, <1>3, <2>1, <2>2, JobType, NamesAssumption DEF InClusterSynced, TypeOK
<1>4. CASE InitialConnect
  <2>1. PICK x \in job[Main].todo, c \in Fresh : StartInformers(Main, x, c, "dialing")
    BY <1>4 DEF InitialConnect
  <2>2. x \in Names
    BY <1>0 DEF Job, JobRecord
  <2>3. QED
    BY <1>0, <1>4, <2>1, <2>2, StartInformersType DEF InitialConnect, TypeOK, Pcs, ConnectingPcs
<1>5. CASE InitialFailed
  <2>1. PICK x \in job[Main].todo : Become(Main, [job[Main] EXCEPT !.todo = @ \ {x}])
    BY <1>5 DEF InitialFailed
  <2>2. [job[Main] EXCEPT !.todo = @ \ {x}] \in Job
    BY <1>0 DEF Job, JobRecord
  <2>3. QED
    BY <1>0, <1>5, <2>1, <2>2, JobType DEF InitialFailed, OnlyJobChanges, TypeOK
<1>6. CASE InitialSynced
  <2>1. [job[Main] EXCEPT !.pc = "dial", !.cur = NoClient] \in Job
    BY <1>0 DEF Job, JobRecord, Pcs, ConnectingPcs
  <2>2. job[Main].cur \in Client \cup {NoClient}
    BY <1>0 DEF Job, JobRecord
  <2>3. QED
    BY <1>0, <1>6, <2>1, <2>2, JobType DEF InitialSynced, TypeOK
<1>7. CASE ReadStoredDir
  <2>1. [job[Main] EXCEPT !.pc = "files", !.queue = {f \in Files : stored[f] # "absent"}] \in Job
    BY <1>0 DEF Job, JobRecord, Pcs, ConnectingPcs
  <2>2. QED
    BY <1>0, <1>7, <2>1, JobType DEF ReadStoredDir, OnlyJobChanges, TypeOK
<1>8. CASE LoadStoredFile
  <2> DEFINE j(f) == [job[Main] EXCEPT
                        !.queue = @ \ {f}, !.file = f, !.op = "load", !.conf = stored[f],
                        !.pc = IF stored[f] = "garbled" THEN "files" ELSE "lock"]
  <2>1. PICK f \in job[Main].queue : Become(Main, j(f))
    BY <1>8 DEF LoadStoredFile
  <2>2. f \in Files /\ stored[f] \in Contents
    BY <1>0 DEF Job, JobRecord, TypeOK
  <2>3. j(f) \in Job
    BY <1>0, <2>2 DEF Job, JobRecord, Pcs, ConnectingPcs
  <2>4. QED
    BY <1>0, <1>8, <2>1, <2>3, JobType DEF LoadStoredFile, OnlyJobChanges, TypeOK
<1>9. CASE StartServing
  <2>1. [Idle EXCEPT !.pc = "serve"] \in Job
    BY IdleType DEF Job, JobRecord, Pcs, ConnectingPcs
  <2>2. QED
    BY <1>0, <1>9, <2>1, JobType DEF StartServing, OnlyJobChanges, TypeOK
<1>10. QED
  BY <1>1, <1>2, <1>3, <1>4, <1>5, <1>6, <1>7, <1>8, <1>9 DEF StartUp
-----------------------------------------------------------------------------
\* So does every step of a goroutine ...
LEMMA StepType == ASSUME TypeOK, NEW w \in Workers, Step(w) PROVE TypeOK'
<1>0. job[w] \in Job
  BY JobType
<1>1. CASE AcquireLock(w)
  <2>1. [job[w] EXCEPT !.pc = "each", !.todo = ContextsOf(job[w].conf)] \in Job
    BY <1>0, ContextsType DEF Job, JobRecord, Pcs, ConnectingPcs
  <2>2. QED
    BY <1>1, <2>1, JobType DEF AcquireLock, TypeOK
<1>2. CASE SkipExisting(w)
  <2>1. PICK x \in job[w].todo : Become(w, [job[w] EXCEPT !.todo = @ \ {x}])
    BY <1>2 DEF SkipExisting
  <2>2. [job[w] EXCEPT !.todo = @ \ {x}] \in Job
    BY <1>0 DEF Job, JobRecord
  <2>3. QED
    BY <1>2, <2>1, <2>2, JobType DEF SkipExisting, OnlyJobChanges, TypeOK
<1>3. CASE ConnectFailed(w)
  <2> DEFINE tried(x) == <<job[w].conf, Target(w, x)>>
             j(x) == [job[w] EXCEPT !.todo = @ \ {x}, !.failed = @ \cup {tried(x)}]
  <2>1. PICK x \in job[w].todo : Become(w, j(x))
    BY <1>3 DEF ConnectFailed
  <2>2. x \in Names /\ job[w].conf \in Contents
    BY <1>0 DEF Job, JobRecord
  <2>a. tried(x) \in Contents \X Names
    BY <2>2, TargetType
  <2> HIDE DEF tried
  <2>3. j(x) \in Job
    BY <1>0, <2>2, <2>a DEF Job, JobRecord
  <2>4. QED
    BY <1>3, <2>1, <2>3, JobType DEF ConnectFailed, OnlyJobChanges, TypeOK
<1>4. CASE Connect(w)
  <2>1. PICK x \in job[w].todo, c \in Fresh : StartInformers(w, x, c, "sync")
    BY <1>4 DEF Connect
  <2>2. x \in Names
    BY <1>0 DEF Job, JobRecord
  <2>3. QED
    BY <1>4, <2>1, <2>2, StartInformersType DEF Connect, TypeOK, Pcs, ConnectingPcs
<1>5. CASE AddSynced(w)
  <2> DEFINE name == Target(w, job[w].cur.name)
  <2>1. job[w].cur \in Client
    BY <1>0, <1>5 DEF AddSynced, Job, ConnectingPcs
  <2>2. name \in Names
    BY <2>1, TargetType DEF Client
  <2>3. [job[w].cur EXCEPT !.name = name] \in Client
    BY <2>1, <2>2 DEF Client
  <2>4. job[w].added \in Seq(Names)
    BY <1>0 DEF Job, JobRecord
  <2> HIDE DEF name
  <2>5. Append(job[w].added, name) \in Seq(Names)
    BY <2>2, <2>4
  <2>6. [job[w] EXCEPT !.pc = "each", !.cur = NoClient, !.added = Append(@, name)] \in Job
    BY <1>0, <2>5 DEF Job, JobRecord, Pcs, ConnectingPcs
  <2>7. QED
    BY <1>5, <2>3, <2>6, JobType DEF AddSynced, TypeOK, name
<1>6. CASE ReleaseLock(w)
  <2>1. [Idle EXCEPT !.pc = "files", !.queue = job[w].queue, !.failed = job[w].failed] \in Job
    BY <1>0, IdleType DEF Job, JobRecord, Pcs, ConnectingPcs
  <2>2. ASSUME job[w].added # <<>>
        PROVE  [Idle EXCEPT !.pc = "save", !.conf = job[w].conf, !.file = SaveName(w)] \in Job
    <3>1. job[w].added[1] \in Names
      BY <1>0, <2>2 DEF Job, JobRecord
    <3>2. SaveName(w) \in Files \cup {NoFile}
      BY <1>0, <3>1, FilesAssumption DEF SaveName, Job, JobRecord
    <3>3. QED
      BY <1>0, <3>2, IdleType DEF Job, JobRecord, Pcs, ConnectingPcs
  <2>3. QED
    BY <1>6, <2>1, <2>2, IdleType, JobType DEF ReleaseLock, Proceed, TypeOK
<1>7. CASE w \in Reqs /\ Handle(w)
  <2>1. CASE SaveTruncate(w)
    <3>1. [job[w] EXCEPT !.pc = "write"] \in Job
      BY <1>0 DEF Job, JobRecord, Pcs, ConnectingPcs
    <3>2. QED
      BY <1>7, <2>1, <3>1, JobType DEF SaveTruncate, TypeOK, Contents
  <2>2. CASE SaveWrite(w)
    <3>1. job[w].conf \in Contents
      BY <1>0 DEF Job, JobRecord
    <3>2. QED
      BY <2>2, <3>1, IdleType, JobType DEF SaveWrite, TypeOK, Contents
  <2>3. CASE SaveFailed(w) \/ ListDone(w) \/ Answer(w)
    BY <2>3, IdleType, JobType DEF SaveFailed, ListDone, Answer, OnlyJobChanges, TypeOK
  <2>4. CASE RemoveCluster(w)
    BY <2>4, IdleType, JobType DEF RemoveCluster, Disconnect, TypeOK
  <2>5. CASE GetClient(w)
    <3>1. PICK n \in job[w].todo :
            IF Exists(n)
            THEN Become(w, [Idle EXCEPT !.pc = "use", !.op = "get", !.cur = clusters[n]])
            ELSE Become(w, Idle)
      BY <2>5 DEF GetClient
    <3>2. clusters[n] \in Client \cup {NoClient}
      BY <1>0 DEF Job, JobRecord, TypeOK
    <3>3. [Idle EXCEPT !.pc = "use", !.op = "get", !.cur = clusters[n]] \in Job
      BY <3>2, IdleType DEF Job, JobRecord, Pcs, ConnectingPcs
    <3>4. QED
      BY <2>5, <3>1, <3>3, IdleType, JobType DEF GetClient, OnlyJobChanges, TypeOK
  <2>6. CASE ListOne(w)
    <3> DEFINE j(n) == [job[w] EXCEPT !.todo = @ \ {n},
                                      !.cur = IF Exists(n) THEN clusters[n] ELSE @]
    <3>1. PICK n \in job[w].todo : Become(w, j(n))
      BY <2>6 DEF ListOne
    <3>2. clusters[n] \in Client \cup {NoClient}
      BY <1>0 DEF Job, JobRecord, TypeOK
    <3>3. j(n) \in Job
      BY <1>0, <2>6, <3>2 DEF ListOne, Job, JobRecord, ConnectingPcs
    <3>4. QED
      BY <2>6, <3>1, <3>3, JobType DEF ListOne, OnlyJobChanges, TypeOK
  <2>7. QED
    BY <1>7, <2>1, <2>2, <2>3, <2>4, <2>5, <2>6 DEF Handle
<1>8. QED
  BY <1>1, <1>2, <1>3, <1>4, <1>5, <1>6, <1>7 DEF Step, AddClusters

\* ... and every new request.
LEMMA ArriveType == ASSUME TypeOK, NEW r \in Reqs, Arrive(r) PROVE TypeOK'
<1> USE DEF Workers
<1>0. job[r] \in Job
  BY JobType
<1>1. CASE UploadKubeconfig(r)
  <2> DEFINE j(c, m, f) == [Idle EXCEPT !.pc = "lock", !.op = "upload",
                                        !.conf = c, !.map = m, !.file = f]
  <2>1. PICK c \in Configs, m \in Mappings, f \in UploadFiles : Become(r, j(c, m, f))
    BY <1>1 DEF UploadKubeconfig
  <2>2. j(c, m, f) \in Job
    BY IdleType, NamesAssumption, FilesAssumption DEF Job, JobRecord, Pcs, ConnectingPcs, Contents
  <2>3. QED
    BY <1>1, <2>1, <2>2, JobType DEF UploadKubeconfig, OnlyJobChanges, TypeOK
<1>2. CASE ImportClustersFromKubeconfig(r)
  <2>1. PICK c \in Configs :
           Become(r, [Idle EXCEPT !.pc = "lock", !.op = "import", !.conf = c])
    BY <1>2 DEF ImportClustersFromKubeconfig
  <2>2. [Idle EXCEPT !.pc = "lock", !.op = "import", !.conf = c] \in Job
    BY IdleType DEF Job, JobRecord, Pcs, ConnectingPcs, Contents
  <2>3. QED
    BY <1>2, <2>1, <2>2, JobType DEF ImportClustersFromKubeconfig, OnlyJobChanges, TypeOK
<1>3. ASSUME NEW op \in {"remove", "get"}, NEW pc \in {"lock", "read"}, AskCluster(r, op, pc)
      PROVE  TypeOK'
  <2>1. PICK n \in Names : Become(r, [Idle EXCEPT !.pc = pc, !.op = op, !.todo = {n}])
    BY <1>3 DEF AskCluster
  <2>2. [Idle EXCEPT !.pc = pc, !.op = op, !.todo = {n}] \in Job
    BY IdleType DEF Job, JobRecord, Pcs, ConnectingPcs
  <2>3. QED
    BY <1>3, <2>1, <2>2, JobType DEF AskCluster, OnlyJobChanges, TypeOK
<1>4. CASE ListClusters(r)
  <2>1. [job[r] EXCEPT !.pc = "list", !.op = "list", !.todo = Connected] \in Job
    BY <1>0 DEF Job, JobRecord, Pcs, ConnectingPcs, Connected
  <2>2. QED
    BY <1>4, <2>1, JobType DEF ListClusters, OnlyJobChanges, TypeOK
<1>5. CASE DeleteStoredKubeconfig(r)
  BY <1>5 DEF DeleteStoredKubeconfig, TypeOK, Contents
<1>6. QED
  BY <1>1, <1>2, <1>3, <1>4, <1>5 DEF Arrive

LEMMA TypeStep == ASSUME TypeOK, [Next]_vars PROVE TypeOK'
<1>1. CASE Crash
  BY <1>1, BootedType, WorkersAssumption DEF Crash, TypeOK
<1>2. CASE UNCHANGED vars
  BY <1>2 DEF vars, TypeOK
<1>3. QED
  BY <1>1, <1>2, StartUpType, StepType, ArriveType DEF Next

\* Every variable of the manager keeps its type, whatever the constants are.
THEOREM TypeCorrect == Spec => []TypeOK
<1>1. Init => TypeOK
  BY BootedType, WorkersAssumption DEF Init, TypeOK, Contents
<1>2. TypeOK /\ [Next]_vars => TypeOK'
  BY TypeStep
<1>3. QED
  BY <1>1, <1>2, PTL DEF Spec
-----------------------------------------------------------------------------
LEMMA BecomeOne ==
  ASSUME TypeOK, NEW w \in Workers, NEW j, Become(w, j)
  PROVE  /\ job'[w] = j
         /\ \A v \in Workers : v # w => job'[v] = job[v]
  BY DEF TypeOK, Become

\* A step that neither opens, registers nor closes a connection, and moves one
\* worker between states outside createClient.
LEMMA QuietStep ==
  ASSUME TypeOK, IInv, NEW w \in Workers, NEW j \in Job, Become(w, j),
         UNCHANGED <<clusters, running, lock, inCluster>>,
         job[w].pc \notin ConnectingPcs, j.pc \notin ConnectingPcs,
         job[w].pc = "each" <=> j.pc = "each",
         w = Main => /\ ~Serving
                     /\ j.pc \in (BootPcs \cup AddPcs) \ {"start"}
                     /\ j.map = Identity
                     /\ j.pc = "dial" => Connected = {} \/ j.todo \subseteq Undialled,
         w \in Reqs => Serving /\ j.pc \notin BootPcs
  PROVE  IInv'
<1>1. job'[w] = j /\ \A v \in Workers : v # w => job'[v] = job[v]
  BY BecomeOne
<1>2. Connected' = Connected /\ (\A n : Exists(n)' = Exists(n))
  BY DEF Connected, Exists
<1>3. \A v \in Workers : /\ Connecting(v)' <=> Connecting(v)
                         /\ Connecting(v) => job'[v] = job[v]
  BY <1>1 DEF Connecting
<1>4. RolesInv'
  BY <1>1, WorkersAssumption DEF IInv, RolesInv, Workers, Serving, Job, JobRecord
<1>5. LockInv'
  BY <1>1 DEF IInv, LockInv, ConnectingPcs
<1>6. EntriesInv'
  BY <1>2 DEF IInv, EntriesInv
<1>7. ConnectingInv'
  BY <1>2, <1>3 DEF IInv, ConnectingInv, Target
<1>8. BootInv'
  <2>1. CASE w = Main
    <3>1. job'[Main] = j /\ j.pc \notin {"start", "home", "dialing"}
      BY <1>1, <2>1 DEF ConnectingPcs
    <3>2. Undialled' = IF j.pc = "dial" THEN j.todo ELSE {}
      BY <3>1 DEF Undialled
    <3>3. \A n \in Undialled' : Exists(n) => n \in Connected \cap Undialled \/ n \notin Names
      BY <2>1, <3>2 DEF Connected
    <3>4. Undialled' \subseteq Names
      BY <3>2 DEF Job, JobRecord
    <3>5. \A n \in Undialled' : Exists(n)' => clusters'[n].conn = inCluster'
      BY <1>2, <3>3, <3>4 DEF IInv, BootInv
    <3>6. QED
      BY <3>1, <3>5 DEF BootInv
  <2>2. CASE w # Main
    <3>1. job'[Main] = job[Main]
      BY <1>1, <2>2 DEF Workers
    <3>2. QED
      BY <1>2, <3>1 DEF IInv, BootInv, Undialled
  <2>3. QED
    BY <2>1, <2>2
<1>9. OnlyInClusterLeaks'
  BY <1>2, <1>3 DEF IInv, OnlyInClusterLeaks, Owned
<1>10. QED
  BY <1>4, <1>5, <1>6, <1>7, <1>8, <1>9 DEF IInv
\* One connection at a time is being opened: under the lock, or by main()
\* before any request.
LEMMA OneConnecting ==
  ASSUME IInv, NEW v \in Workers, NEW w \in Workers, Connecting(v), Connecting(w)
  PROVE  v = w
  BY DEF IInv, RolesInv, LockInv, Connecting, ConnectingPcs, Workers, Serving, BootPcs

LEMMA BootAlone ==
  ASSUME IInv, ~Serving, NEW v \in Workers, v # Main
  PROVE  job[v].pc = "idle"
  BY DEF IInv, RolesInv, Workers

LEMMA StartInformersJob ==
  ASSUME TypeOK, NEW w \in Workers, NEW x, NEW c, NEW pc, StartInformers(w, x, c, pc)
  PROVE  /\ job'[w].pc = pc
         /\ job'[w].map = job[w].map
         /\ job'[w].todo = job[w].todo \ {x}
         /\ job'[w].cur.conn = c /\ job'[w].cur.name = x /\ job'[w].cur.conf = job[w].conf
         /\ \A v \in Workers : v # w => job'[v] = job[v]
<1> DEFINE j == [job[w] EXCEPT !.pc = pc, !.todo = @ \ {x},
                               !.cur = [conn |-> c, name |-> x, conf |-> job[w].conf]]
<1>1. job[w] \in JobRecord
  BY JobType DEF Job
<1>2. /\ j.pc = pc
      /\ j.map = job[w].map
      /\ j.todo = job[w].todo \ {x}
      /\ j.cur.conn = c /\ j.cur.name = x /\ j.cur.conf = job[w].conf
  BY <1>1 DEF JobRecord
<1> HIDE DEF j
<1>3. Become(w, j)
  BY DEF StartInformers, j
<1>4. QED
  BY <1>2, <1>3, BecomeOne

\* A step that starts the informers of a fresh client for worker w.
LEMMA DialStep ==
  ASSUME TypeOK, IInv, NEW w \in Workers, NEW x \in Names, NEW c \in Fresh,
         NEW pc \in ConnectingPcs, StartInformers(w, x, c, pc),
         UNCHANGED <<clusters, lock>>,
         inCluster' = inCluster \/ running = {},
         job[w].pc \notin ConnectingPcs,
         job[w].pc = "each" <=> pc = "sync",
         \A v \in Workers : ~Connecting(v),
         pc = "sync" => ~Exists(Target(w, x)),
         pc # "sync" => w = Main,
         w = Main => ~Serving
  PROVE  RolesInv' /\ LockInv' /\ EntriesInv' /\ ConnectingInv' /\ OnlyInClusterLeaks'
<1>1. /\ job'[w].pc = pc
      /\ job'[w].map = job[w].map
      /\ job'[w].cur.conn = c /\ job'[w].cur.name = x
  BY StartInformersJob
<1>2. \A v \in Workers : v # w => job'[v] = job[v]
  BY StartInformersJob
<1>3. Connected' = Connected /\ (\A n : Exists(n)' = Exists(n))
  BY DEF Connected, Exists
<1>4. c \notin running /\ running' = running \cup {c}
  BY DEF Fresh, InUse, StartInformers
<1>5. RolesInv'
  BY <1>1, <1>2, WorkersAssumption
  DEF IInv, RolesInv, Workers, Serving, ConnectingPcs, Pcs, BootPcs, AddPcs
<1>6. LockInv'
  BY <1>1, <1>2 DEF IInv, LockInv, ConnectingPcs
<1>7. EntriesInv'
  BY <1>3, <1>4 DEF IInv, EntriesInv
<1>8. \A v \in Workers : Connecting(v)' <=> v = w
  BY <1>1, <1>2 DEF Connecting
<1>9. ConnectingInv'
  <2>1. \A n \in Connected : clusters[n].conn # c
    BY <1>4 DEF IInv, EntriesInv
  <2>2. Target(w, job[w].cur.name)' = Target(w, x)
    BY <1>1, <1>2 DEF Target
  <2>3. QED
    BY <1>1, <1>2, <1>3, <1>4, <1>8, <2>1, <2>2 DEF ConnectingInv
<1>10. OnlyInClusterLeaks'
  <2>1. Owned(c)'
    BY <1>1, <1>2, <1>8 DEF Owned
  <2>2. \A d \in running : Owned(d) => Owned(d)'
    BY <1>3 DEF Owned
  <2>3. QED
    BY <1>4, <2>1, <2>2 DEF IInv, OnlyInClusterLeaks
<1>11. QED
  BY <1>5, <1>6, <1>7, <1>9, <1>10

\* A step that registers the client worker w was connecting under the name n.
\* Only the in-cluster connection can be displaced.
LEMMA RegisterStep ==
  ASSUME TypeOK, IInv, NEW w \in Workers, Connecting(w), NEW j \in Job, Become(w, j),
         NEW n \in Names, NEW cl \in Client,
         cl.name = n, cl.conn = job[w].cur.conn,
         clusters' = [clusters EXCEPT ![n] = cl],
         UNCHANGED <<running, lock, inCluster>>,
         j.pc \notin ConnectingPcs,
         job[w].pc = "sync" <=> j.pc = "each",
         j.map = job[w].map,
         job[w].pc # "sync" => w = Main /\ j.pc \in BootPcs,
         w = Main => ~Serving /\ j.pc # "serve",
         Exists(n) => clusters[n].conn = inCluster
  PROVE  RolesInv' /\ LockInv' /\ EntriesInv' /\ ConnectingInv' /\ OnlyInClusterLeaks'
<1>1. job'[w] = j /\ \A v \in Workers : v # w => job'[v] = job[v]
  BY BecomeOne
<1>2. /\ \A m \in Names : clusters'[m] = IF m = n THEN cl ELSE clusters[m]
      /\ Connected' = Connected \cup {n}
  BY WorkersAssumption DEF TypeOK, Connected, Exists, Client
<1>3. \A v \in Workers : ~Connecting(v)'
  BY <1>1, OneConnecting DEF Connecting
<1>4. cl.conn \in running /\ \A m \in Connected : clusters[m].conn # cl.conn
  BY DEF IInv, ConnectingInv
<1>5. RolesInv'
  BY <1>1, WorkersAssumption
  DEF IInv, RolesInv, Workers, Serving, Job, JobRecord, Pcs, BootPcs, AddPcs
<1>6. LockInv'
  BY <1>1 DEF IInv, LockInv, Connecting, ConnectingPcs
<1>7. EntriesInv'
  BY <1>2, <1>4 DEF IInv, EntriesInv, Connected
<1>8. ConnectingInv'
  BY <1>3 DEF ConnectingInv
<1>9. OnlyInClusterLeaks'
  <2>1. ASSUME NEW c \in running, Owned(c), c # inCluster PROVE Owned(c)'
    <3>1. CASE \E m \in Connected : clusters[m].conn = c
      <4>1. PICK m \in Connected : clusters[m].conn = c
        BY <3>1
      <4>2. m # n
        BY <2>1, <4>1 DEF Connected
      <4>3. m \in Connected' /\ clusters'[m].conn = c
        BY <1>2, <4>1, <4>2 DEF Connected
      <4>4. QED
        BY <4>3 DEF Owned
    <3>2. CASE \E v \in Workers : Connecting(v) /\ job[v].cur.conn = c
      <4>1. cl.conn = c
        BY <3>2, OneConnecting
      <4>2. n \in Connected' /\ clusters'[n].conn = c
        BY <1>2, <4>1
      <4>3. QED
        BY <4>2 DEF Owned
    <3>3. QED
      BY <2>1, <3>1, <3>2 DEF Owned
  <2>2. QED
    BY <2>1 DEF IInv, OnlyInClusterLeaks
<1>10. QED
  BY <1>5, <1>6, <1>7, <1>8, <1>9
-----------------------------------------------------------------------------
LEMMA StartUpInv == ASSUME TypeOK, IInv, StartUp PROVE IInv'
<1> USE WorkersAssumption
<1>0. /\ Main \in Workers
      /\ job[Main] \in Job
      /\ job[Main].map = Identity
      /\ Main \notin Reqs
  BY JobType DEF Workers, IInv, RolesInv
<1>a. ASSUME job[Main].pc \in {"start", "home", "dial", "dialing", "files"}
      PROVE  ~Serving /\ \A v \in Workers : Connecting(v) => v = Main
  BY <1>a, BootAlone DEF Serving, Connecting, ConnectingPcs
<1>1. CASE NotInCluster
  <2> DEFINE j == [job[Main] EXCEPT !.pc = "dial", !.conf = Initial, !.todo = InitialContexts]
  <2>1. j \in Job /\ j.pc = "dial" /\ j.map = Identity
    BY <1>0, ContextsType DEF Job, JobRecord, Pcs, ConnectingPcs
  <2>2. Connected = {}
    BY <1>1 DEF NotInCluster, IInv, BootInv
  <2> HIDE DEF j
  <2>3. QED
    BY <1>0, <1>1, <1>a, <2>1, <2>2, QuietStep
    DEF NotInCluster, OnlyJobChanges, j, ConnectingPcs, BootPcs, AddPcs
<1>2. CASE InitInClusterClient
  <2>1. PICK c \in Fresh : StartInformers(Main, Default, c, "home") /\ inCluster' = c
    BY <1>2 DEF InitInClusterClient
  <2>2. running = {} /\ Connected = {}
    BY <1>2 DEF InitInClusterClient, IInv, BootInv
  <2>3. RolesInv' /\ LockInv' /\ EntriesInv' /\ ConnectingInv' /\ OnlyInClusterLeaks'
    BY <1>0, <1>2, <1>a, <2>1, <2>2, DialStep, NamesAssumption
    DEF InitInClusterClient, ConnectingPcs, Connecting
  <2>4. job'[Main].pc = "home" /\ job'[Main].cur.conn = c /\ job'[Main].cur.name = Default
    BY <1>0, <2>1, StartInformersJob
  <2>5. Connected' = {}
    BY <1>2, <2>2 DEF InitInClusterClient, Connected, Exists
  <2>6. BootInv'
    BY <2>1, <2>4, <2>5 DEF BootInv, Undialled
  <2>7. QED
    BY <2>3, <2>6 DEF IInv
<1>3. CASE InClusterSynced
  <2> DEFINE j == [job[Main] EXCEPT !.pc = "dial", !.conf = Initial, !.cur = NoClient,
                                   !.todo = InitialContexts]
  <2>1. j \in Job /\ j.pc = "dial" /\ j.map = Identity
    BY <1>0, ContextsType DEF Job, JobRecord, Pcs, ConnectingPcs
  <2>2. /\ Connected = {}
        /\ job[Main].cur \in Client
        /\ job[Main].cur.name = Default
        /\ job[Main].cur.conn = inCluster
    BY <1>0, <1>3 DEF InClusterSynced, IInv, BootInv, Job, ConnectingPcs
  <2> HIDE DEF j
  <2>3. Become(Main, j)
    BY <1>3 DEF InClusterSynced, j
  <2>4. ~Exists(Default)
    BY <2>2, NamesAssumption DEF Connected
  <2>5. RolesInv' /\ LockInv' /\ EntriesInv' /\ ConnectingInv' /\ OnlyInClusterLeaks'
    BY <1>0, <1>3, <1>a, <2>1, <2>2, <2>3, <2>4, RegisterStep, NamesAssumption
    DEF InClusterSynced, ConnectingPcs, Connecting, BootPcs
  <2>6. job'[Main].pc = "dial"
    BY <1>0, <2>1, <2>3, BecomeOne
  <2>7. \A n \in Names : Exists(n)' => n = Default /\ clusters'[n].conn = inCluster'
    BY <1>3, <2>2 DEF InClusterSynced, Exists, Connected, TypeOK
  <2>8. Undialled' \subseteq Names
    BY <1>0, <2>1, <2>3, <2>6, BecomeOne DEF Undialled, Job, JobRecord
  <2>9. BootInv'
    BY <2>6, <2>7, <2>8 DEF BootInv
  <2>10. QED
    BY <2>5, <2>9 DEF IInv
<1>4. CASE InitialConnect
  <2>1. PICK x \in job[Main].todo, c \in Fresh : StartInformers(Main, x, c, "dialing")
    BY <1>4 DEF InitialConnect
  <2>2. x \in Names
    BY <1>0 DEF Job, JobRecord
  <2>3. RolesInv' /\ LockInv' /\ EntriesInv' /\ ConnectingInv' /\ OnlyInClusterLeaks'
    BY <1>0, <1>4, <1>a, <2>1, <2>2, DialStep DEF InitialConnect, ConnectingPcs, Connecting
  <2>4. /\ job'[Main].pc = "dialing"
        /\ job'[Main].cur.conn = c /\ job'[Main].cur.name = x
        /\ job'[Main].todo = job[Main].todo \ {x}
    BY <1>0, <2>1, StartInformersJob
  <2>5. Undialled' \subseteq Undialled
    BY <1>4, <2>1, <2>4 DEF InitialConnect, Undialled
  <2>6. BootInv'
    BY <1>4, <2>4, <2>5 DEF IInv, BootInv, InitialConnect, Exists
  <2>7. QED
    BY <2>3, <2>6 DEF IInv
<1>5. CASE InitialFailed
  <2> DEFINE j(x) == [job[Main] EXCEPT !.todo = @ \ {x}]
  <2>1. PICK x \in job[Main].todo : Become(Main, j(x))
    BY <1>5 DEF InitialFailed
  <2>2. j(x) \in Job /\ j(x).pc = "dial" /\ j(x).map = Identity
    BY <1>0, <1>5 DEF InitialFailed, Job, JobRecord, ConnectingPcs
  <2>3. j(x).todo \subseteq Undialled
    BY <1>0, <1>5 DEF InitialFailed, Job, JobRecord, Undialled
  <2> HIDE DEF j
  <2>4. QED
    BY <1>0, <1>5, <1>a, <2>1, <2>2, <2>3, QuietStep
    DEF InitialFailed, OnlyJobChanges, ConnectingPcs, BootPcs, AddPcs
<1>6. CASE InitialSynced
  <2> DEFINE j == [job[Main] EXCEPT !.pc = "dial", !.cur = NoClient]
             x == job[Main].cur.name
  <2>1. j \in Job /\ j.pc = "dial" /\ j.map = Identity /\ j.todo = job[Main].todo
    BY <1>0 DEF Job, JobRecord, Pcs, ConnectingPcs
  <2>2. job[Main].cur \in Client /\ x \in Names
    BY <1>0, <1>6 DEF InitialSynced, Job, ConnectingPcs, Client
  <2>3. x \in Undialled /\ x \notin job[Main].todo /\ job[Main].todo \subseteq Undialled
    BY <1>6 DEF InitialSynced, Undialled, IInv, BootInv
  <2>4. Exists(x) => clusters[x].conn = inCluster
    BY <2>3 DEF IInv, BootInv
  <2> HIDE DEF j
  <2>5. Become(Main, j)
    BY <1>6 DEF InitialSynced, j
  <2>6. RolesInv' /\ LockInv' /\ EntriesInv' /\ ConnectingInv' /\ OnlyInClusterLeaks'
    BY <1>0, <1>6, <1>a, <2>1, <2>2, <2>4, <2>5, RegisterStep
    DEF InitialSynced, ConnectingPcs, Connecting, BootPcs
  <2>7. job'[Main] = j
    BY <1>0, <2>5, BecomeOne
  <2>8. Undialled' = job[Main].todo
    BY <2>1, <2>7 DEF Undialled
  <2>9. \A n \in Undialled' : clusters'[n] = clusters[n]
    BY <1>6, <2>3, <2>8 DEF InitialSynced, TypeOK
  <2>10. BootInv'
    BY <1>6, <2>1, <2>3, <2>7, <2>8, <2>9 DEF InitialSynced, IInv, BootInv, Exists
  <2>11. QED
    BY <2>6, <2>10 DEF IInv
<1>7. CASE ReadStoredDir
  <2> DEFINE j == [job[Main] EXCEPT !.pc = "files", !.queue = {f \in Files : stored[f] # "absent"}]
  <2>1. j \in Job /\ j.pc = "files" /\ j.map = Identity
    BY <1>0 DEF Job, JobRecord, Pcs, ConnectingPcs
  <2> HIDE DEF j
  <2>2. QED
    BY <1>0, <1>7, <1>a, <2>1, QuietStep
    DEF ReadStoredDir, OnlyJobChanges, j, ConnectingPcs, BootPcs, AddPcs
<1>8. CASE LoadStoredFile
  <2> DEFINE j(f) == [job[Main] EXCEPT
                        !.queue = @ \ {f}, !.file = f, !.op = "load", !.conf = stored[f],
                        !.pc = IF stored[f] = "garbled" THEN "files" ELSE "lock"]
  <2>1. PICK f \in job[Main].queue : Become(Main, j(f))
    BY <1>8 DEF LoadStoredFile
  <2>2. f \in Files /\ stored[f] \in Contents
    BY <1>0 DEF Job, JobRecord, TypeOK
  <2>3. j(f) \in Job /\ j(f).pc \in {"files", "lock"} /\ j(f).map = Identity
    BY <1>0, <2>2 DEF Job, JobRecord, Pcs, ConnectingPcs
  <2> HIDE DEF j
  <2>4. QED
    BY <1>0, <1>8, <1>a, <2>1, <2>3, QuietStep
    DEF LoadStoredFile, OnlyJobChanges, ConnectingPcs, BootPcs, AddPcs
<1>9. CASE StartServing
  <2> DEFINE j == [Idle EXCEPT !.pc = "serve"]
  <2>1. j \in Job /\ j.pc = "serve" /\ j.map = Identity
    BY IdleType DEF Job, JobRecord, Pcs, ConnectingPcs, Idle
  <2> HIDE DEF j
  <2>2. QED
    BY <1>0, <1>9, <1>a, <2>1, QuietStep
    DEF StartServing, OnlyJobChanges, j, ConnectingPcs, BootPcs, AddPcs
<1>10. QED
  BY <1>1, <1>2, <1>3, <1>4, <1>5, <1>6, <1>7, <1>8, <1>9 DEF StartUp
-----------------------------------------------------------------------------
\* Only main() loads stored files, and it adds clusters for nothing else.
OpsInv ==
    /\ job[Main].pc \in AddPcs => job[Main].op = "load"
    /\ \A r \in Reqs : job[r].op # "load"

LEMMA OpsBecome ==
  ASSUME TypeOK, OpsInv, NEW w \in Workers,
         \A v \in Workers : v # w => job'[v] = job[v],
         w = Main => (job'[w].pc \in AddPcs => job'[w].op = "load"),
         w \in Reqs => job'[w].op # "load"
  PROVE  OpsInv'
  BY WorkersAssumption DEF OpsInv, Workers

LEMMA OpsStart ==
  ASSUME TypeOK, OpsInv, NEW w \in Workers, NEW x, NEW c, NEW pc, StartInformers(w, x, c, pc),
         w = Main => job[w].pc \in AddPcs \/ pc \notin AddPcs
  PROVE  OpsInv'
<1> DEFINE j == [job[w] EXCEPT !.pc = pc, !.todo = @ \ {x},
                               !.cur = [conn |-> c, name |-> x, conf |-> job[w].conf]]
<1>1. j.pc = pc /\ j.op = job[w].op
  BY JobType DEF Job, JobRecord
<1>2. Become(w, j)
  BY DEF StartInformers
<1> HIDE DEF j
<1>3. QED
  BY <1>1, <1>2, BecomeOne, OpsBecome DEF OpsInv

LEMMA OpsStartUp == ASSUME TypeOK, OpsInv, StartUp PROVE OpsInv'
<1>0. Main \in Workers /\ Main \notin Reqs /\ job \in [Workers -> JobRecord]
  BY WorkersAssumption, JobType DEF Workers, Job, TypeOK
<1>1. CASE InitInClusterClient \/ InitialConnect
  BY <1>0, <1>1, OpsStart DEF InitInClusterClient, InitialConnect, AddPcs
<1>2. CASE ~(InitInClusterClient \/ InitialConnect)
  <2>1. /\ \A v \in Workers : v # Main => job'[v] = job[v]
        /\ \/ job'[Main].pc \in {"dial", "files", "serve"}
           \/ job'[Main].pc = "lock" /\ job'[Main].op = "load"
    <3>1. CASE NotInCluster
      BY <1>0, <3>1 DEF Become, NotInCluster, JobRecord
    <3>2. CASE InClusterSynced
      BY <1>0, <3>2 DEF Become, InClusterSynced, JobRecord
    <3>3. CASE InitialFailed
      BY <1>0, <3>3 DEF Become, InitialFailed, JobRecord
    <3>4. CASE InitialSynced
      BY <1>0, <3>4 DEF Become, InitialSynced, JobRecord
    <3>5. CASE ReadStoredDir
      BY <1>0, <3>5 DEF Become, ReadStoredDir, JobRecord
    <3>6. CASE LoadStoredFile
      <4>1. PICK f \in job[Main].queue :
              Become(Main, [job[Main] EXCEPT
                 !.queue = @ \ {f}, !.file = f, !.op = "load", !.conf = stored[f],
                 !.pc = IF stored[f] = "garbled" THEN "files" ELSE "lock"])
        BY <3>6 DEF LoadStoredFile
      <4>2. QED
        BY <1>0, <4>1 DEF Become, JobRecord
    <3>7. CASE StartServing
      BY <1>0, <3>7 DEF Become, StartServing, Idle, JobRecord
    <3>8. QED
      BY <1>2, <3>1, <3>2, <3>3, <3>4, <3>5, <3>6, <3>7 DEF StartUp
  <2>2. QED
    BY <1>0, <2>1, OpsBecome DEF AddPcs
<1>3. QED
  BY <1>1, <1>2

LEMMA OpsStep == ASSUME TypeOK, OpsInv, NEW w \in Workers, Step(w) PROVE OpsInv'
<1>0. job \in [Workers -> JobRecord]
  BY JobType DEF Job, TypeOK
<1>1. CASE Connect(w)
  BY <1>1, OpsStart DEF Connect, AddPcs, OpsInv
<1>2. CASE ~Connect(w)
  <2>1. /\ \A v \in Workers : v # w => job'[v] = job[v]
        /\ \/ job'[w].op = job[w].op /\ (job'[w].pc \in AddPcs => job[w].pc \in AddPcs)
           \/ job'[w].op \in {"none", "get"} /\ job'[w].pc \notin AddPcs
    <3>1. CASE AcquireLock(w)
      BY <1>0, <3>1 DEF Become, AcquireLock, AddPcs, JobRecord
    <3>2. CASE SkipExisting(w)
      BY <1>0, <3>2 DEF Become, SkipExisting, JobRecord
    <3>3. CASE ConnectFailed(w)
      BY <1>0, <3>3 DEF Become, ConnectFailed, JobRecord
    <3>4. CASE AddSynced(w)
      BY <1>0, <3>4 DEF Become, AddSynced, AddPcs, JobRecord
    <3>5. CASE ReleaseLock(w)
      <4> DEFINE after == [Idle EXCEPT !.pc = "files", !.queue = job[w].queue, !.failed = job[w].failed]
                 saved == [Idle EXCEPT !.pc = "save", !.conf = job[w].conf, !.file = SaveName(w)]
      <4>1. /\ after.pc = "files" /\ saved.pc = "save" /\ Idle.pc = "idle"
            /\ after.op = "none" /\ saved.op = "none" /\ Idle.op = "none"
        BY DEF Idle
      <4>2. PICK j \in {after, saved, Idle} : Become(w, j)
        BY <3>5 DEF ReleaseLock, Proceed
      <4> HIDE DEF after, saved
      <4>3. QED
        BY <4>1, <4>2, BecomeOne DEF AddPcs
    <3>6. CASE SaveTruncate(w)
      BY <1>0, <3>6 DEF Become, SaveTruncate, AddPcs, JobRecord
    <3>7. CASE SaveWrite(w) \/ SaveFailed(w) \/ RemoveCluster(w) \/ ListDone(w) \/ Answer(w)
      BY <1>0, <3>7 DEF Become, SaveWrite, SaveFailed, RemoveCluster, Disconnect, ListDone, Answer, AddPcs, Idle, JobRecord
    <3>8. CASE GetClient(w)
      <4> DEFINE held(n) == [Idle EXCEPT !.pc = "use", !.op = "get", !.cur = clusters[n]]
      <4>1. PICK n : Become(w, held(n)) \/ Become(w, Idle)
        BY <3>8 DEF GetClient
      <4>2. /\ held(n).pc = "use" /\ held(n).op = "get"
            /\ Idle.pc = "idle" /\ Idle.op = "none"
        BY DEF Idle
      <4> HIDE DEF held
      <4>3. QED
        BY <4>1, <4>2, BecomeOne DEF AddPcs
    <3>9. CASE ListOne(w)
      <4>1. PICK n \in job[w].todo :
              Become(w, [job[w] EXCEPT !.todo = @ \ {n},
                                       !.cur = IF Exists(n) THEN clusters[n] ELSE @])
        BY <3>9 DEF ListOne
      <4>2. QED
        BY <1>0, <4>1 DEF Become, JobRecord
    <3>10. QED
      BY <1>2, <3>1, <3>2, <3>3, <3>4, <3>5, <3>6, <3>7, <3>8, <3>9 DEF Step, AddClusters, Handle
  <2>2. QED
    BY <2>1, OpsBecome DEF OpsInv, AddPcs
<1>3. QED
  BY <1>1, <1>2

LEMMA OpsArrive == ASSUME TypeOK, OpsInv, NEW r \in Reqs, Arrive(r) PROVE OpsInv'
<1>0. r \in Workers /\ r # Main /\ job \in [Workers -> JobRecord]
  BY WorkersAssumption, JobType DEF Workers, Job, TypeOK
<1>1. CASE DeleteStoredKubeconfig(r)
  BY <1>1 DEF DeleteStoredKubeconfig, OpsInv
<1>2. CASE ~DeleteStoredKubeconfig(r)
  <2>1. (\A v \in Workers : v # r => job'[v] = job[v]) /\ job'[r].op # "load"
    <3>1. CASE UploadKubeconfig(r)
      BY <1>0, <3>1 DEF Become, UploadKubeconfig, Idle, JobRecord
    <3>2. CASE ImportClustersFromKubeconfig(r)
      BY <1>0, <3>2 DEF Become, ImportClustersFromKubeconfig, Idle, JobRecord
    <3>3. CASE AskCluster(r, "remove", "lock") \/ AskCluster(r, "get", "read")
      BY <1>0, <3>3 DEF Become, AskCluster, Idle, JobRecord
    <3>4. CASE ListClusters(r)
      BY <1>0, <3>4 DEF Become, ListClusters, JobRecord
    <3>5. QED
      BY <1>2, <3>1, <3>2, <3>3, <3>4 DEF Arrive
  <2>2. QED
    BY <1>0, <2>1, OpsBecome
<1>3. QED
  BY <1>1, <1>2

LEMMA OpsNext == ASSUME TypeOK, OpsInv, [Next]_vars PROVE OpsInv'
<1>1. CASE Crash
  BY <1>1, WorkersAssumption DEF Crash, OpsInv, Booted, Workers, Idle, AddPcs
<1>2. CASE UNCHANGED vars
  BY <1>2 DEF vars, OpsInv
<1>3. QED
  BY <1>1, <1>2, OpsStartUp, OpsStep, OpsArrive DEF Next
-----------------------------------------------------------------------------
\* The goroutine of a request has work only while the server is open, and the
\* one of main() is in the range loop only while it is not.
LEMMA AwakeStep ==
  ASSUME IInv, NEW w \in Workers, job[w].pc \in {"each", "sync", "lock", "save", "write", "read", "list", "use"}
  PROVE  /\ w = Main => ~Serving
         /\ w \in Reqs => Serving /\ w # Main
         /\ w = Main => Undialled = {} /\ job[w].pc \in AddPcs
  BY WorkersAssumption DEF IInv, RolesInv, Serving, Undialled, BootPcs, AddPcs

\* While worker w is in the range loop nobody is connecting.
LEMMA LoopAlone ==
  ASSUME IInv, NEW w \in Workers, job[w].pc = "each"
  PROVE  \A v \in Workers : ~Connecting(v)
  BY DEF IInv, RolesInv, LockInv, Connecting, ConnectingPcs, Workers, Serving, BootPcs, AddPcs

\* Nobody is connecting while requests are served and the lock is free.
LEMMA FreeAlone ==
  ASSUME IInv, Serving, lock = Nobody
  PROVE  \A v \in Workers : ~Connecting(v)
  BY WorkersAssumption
  DEF IInv, RolesInv, LockInv, Connecting, ConnectingPcs, Workers, Serving, BootPcs, AddPcs

\* The steps of the range loop that connect to nothing.
LEMMA LoopInv ==
  ASSUME TypeOK, IInv, NEW w \in Workers, SkipExisting(w) \/ ConnectFailed(w)
  PROVE  IInv'
<1>0. job[w] \in Job /\ job[w].pc = "each" /\ (w = Main => job[w].map = Identity)
  BY JobType DEF SkipExisting, ConnectFailed, IInv, RolesInv
<1>1. PICK x \in job[w].todo :
         \/ Become(w, [job[w] EXCEPT !.todo = @ \ {x}])
         \/ Become(w, [job[w] EXCEPT !.todo = @ \ {x},
             !.failed = @ \cup {<<job[w].conf, Target(w, x)>>}])
  BY DEF SkipExisting, ConnectFailed
<1>2. <<job[w].conf, Target(w, x)>> \in Contents \X Names
  BY <1>0, TargetType DEF Job, JobRecord
<1>3. PICK j \in Job : Become(w, j) /\ j.pc = "each" /\ (w = Main => j.map = Identity)
  <2>1. [job[w] EXCEPT !.todo = @ \ {x}] \in Job
    BY <1>0 DEF Job, JobRecord
  <2> DEFINE tried == <<job[w].conf, Target(w, x)>>
  <2> HIDE DEF tried
  <2>2. [job[w] EXCEPT !.todo = @ \ {x}, !.failed = @ \cup {tried}] \in Job
    <3>1. tried \in Contents \X Names
      BY <1>2 DEF tried
    <3>2. QED
      BY <1>0, <3>1 DEF Job, JobRecord
  <2>3. QED
    BY <1>0, <1>1, <2>1, <2>2 DEF Job, JobRecord, tried
<1>4. QED
  BY <1>0, <1>3, AwakeStep, QuietStep
  DEF SkipExisting, ConnectFailed, OnlyJobChanges, ConnectingPcs, BootPcs, AddPcs

\* Taking and letting go of the lock.
LEMMA AcquireInv ==
  ASSUME TypeOK, IInv, NEW w \in Workers, AcquireLock(w)
  PROVE  IInv'
<1> DEFINE j == [job[w] EXCEPT !.pc = "each", !.todo = ContextsOf(job[w].conf)]
<1>0. job[w] \in Job /\ job[w].pc = "lock" /\ lock = Nobody /\ lock' = w
  BY JobType DEF AcquireLock
<1>1. j.pc = "each" /\ j.map = job[w].map
  BY <1>0 DEF Job, JobRecord
<1> HIDE DEF j
<1>2. job'[w] = j /\ \A v \in Workers : v # w => job'[v] = job[v]
  BY BecomeOne DEF AcquireLock, j
<1>3. Connected' = Connected /\ (\A n : Exists(n)' = Exists(n))
  BY DEF AcquireLock, Connected, Exists
<1>4. \A v \in Workers : /\ Connecting(v)' <=> Connecting(v)
                         /\ Connecting(v) => job'[v] = job[v]
  BY <1>0, <1>1, <1>2 DEF Connecting, ConnectingPcs
<1>5. RolesInv'
  BY <1>0, <1>1, <1>2, WorkersAssumption
  DEF IInv, RolesInv, Workers, Serving, Pcs, BootPcs, AddPcs
<1>6. LockInv'
  BY <1>0, <1>1, <1>2, WorkersAssumption DEF IInv, LockInv
<1>7. EntriesInv' /\ ConnectingInv' /\ OnlyInClusterLeaks'
  BY <1>3, <1>4 DEF AcquireLock, IInv, EntriesInv, ConnectingInv, OnlyInClusterLeaks, Owned, Target
<1>8. BootInv'
  <2>1. CASE w = Main
    BY <1>1, <1>2, <2>1 DEF BootInv, Undialled
  <2>2. CASE w # Main
    BY <1>2, <1>3, <2>2 DEF AcquireLock, IInv, BootInv, Undialled, Workers
  <2>3. QED
    BY <2>1, <2>2
<1>9. QED
  BY <1>5, <1>6, <1>7, <1>8 DEF IInv

LEMMA ReleaseInv ==
  ASSUME TypeOK, IInv, OpsInv, NEW w \in Workers, ReleaseLock(w)
  PROVE  IInv'
<1>0. job \in [Workers -> Job] /\ job[w].pc = "each" /\ lock = w /\ lock' = Nobody
  BY DEF TypeOK, ReleaseLock, Proceed, IInv, LockInv
<1> DEFINE next == [Idle EXCEPT !.pc = "files", !.queue = job[w].queue, !.failed = job[w].failed]
           saved == [Idle EXCEPT !.pc = "save", !.conf = job[w].conf, !.file = SaveName(w)]
<1>1. /\ job'[w].map = Identity
      /\ IF w = Main THEN job'[w].pc = "files" ELSE job'[w].pc \in {"save", "idle"}
  <2>1. /\ next.pc = "files" /\ saved.pc = "save" /\ Idle.pc = "idle"
        /\ \A j \in {next, saved, Idle} : j.map = Identity
    BY DEF Idle
  <2>2. w = Main <=> job[w].op = "load"
    BY <1>0, WorkersAssumption DEF OpsInv, AddPcs, Workers
  <2>3. PICK j \in {next, saved, Idle} : Become(w, j) /\ (w = Main <=> j = next)
    <3>1. next # saved /\ next # Idle
      BY <2>1
    <3>2. CASE w = Main
      BY <2>2, <3>2 DEF ReleaseLock, Proceed
    <3>3. CASE w # Main
      BY <2>2, <3>1, <3>3 DEF ReleaseLock, Proceed
    <3>4. QED
      BY <3>2, <3>3
  <2> HIDE DEF next, saved
  <2>4. QED
    BY <2>1, <2>3, BecomeOne
<1>2. \A v \in Workers : v # w => job'[v] = job[v]
  BY BecomeOne DEF ReleaseLock, Proceed
<1>3. Connected' = Connected /\ (\A n : Exists(n)' = Exists(n))
  BY DEF ReleaseLock, Proceed, Connected, Exists
<1>4. \A v \in Workers : ~Connecting(v)'
  BY <1>0, <1>1, <1>2, LoopAlone DEF Connecting, ConnectingPcs
<1>5. RolesInv'
  BY <1>0, <1>1, <1>2, WorkersAssumption
  DEF IInv, RolesInv, Workers, Serving, Pcs, BootPcs, AddPcs
<1>6. LockInv'
  BY <1>0, <1>1, <1>2, WorkersAssumption DEF IInv, LockInv
<1>7. EntriesInv' /\ ConnectingInv' /\ OnlyInClusterLeaks'
  BY <1>0, <1>3, <1>4, LoopAlone
  DEF ReleaseLock, Proceed, IInv, EntriesInv, ConnectingInv, OnlyInClusterLeaks, Owned
<1>8. BootInv'
  <2>1. CASE w = Main
    BY <1>1, <1>2, <2>1 DEF BootInv, Undialled
  <2>2. CASE w # Main
    BY <1>2, <1>3, <2>2 DEF ReleaseLock, Proceed, IInv, BootInv, Undialled, Workers
  <2>3. QED
    BY <2>1, <2>2
<1>9. QED
  BY <1>5, <1>6, <1>7, <1>8 DEF IInv

\* A context is dialled under the lock, and only if its name is free.
LEMMA ConnectInv ==
  ASSUME TypeOK, IInv, NEW w \in Workers, Connect(w)
  PROVE  IInv'
<1>0. job[w] \in Job /\ job[w].pc = "each"
  BY JobType DEF Connect
<1>1. PICK x \in job[w].todo, c \in Fresh :
         ~Exists(Target(w, x)) /\ StartInformers(w, x, c, "sync")
  BY DEF Connect
<1>2. x \in Names
  BY <1>0 DEF Job, JobRecord
<1>3. RolesInv' /\ LockInv' /\ EntriesInv' /\ ConnectingInv' /\ OnlyInClusterLeaks'
  BY <1>0, <1>1, <1>2, DialStep, LoopAlone, AwakeStep DEF Connect, ConnectingPcs
<1>4. BootInv'
  <2>1. /\ job'[w].pc = "sync"
        /\ \A v \in Workers : v # w => job'[v] = job[v]
    BY <1>1, StartInformersJob
  <2>2. CASE w = Main
    BY <2>1, <2>2 DEF BootInv, Undialled
  <2>3. CASE w # Main
    <3>1. job'[Main] = job[Main] /\ job[Main].pc = "serve"
      BY <1>0, <2>1, <2>3, AwakeStep DEF Workers, Serving
    <3>2. QED
      BY <3>1 DEF BootInv, Undialled
  <2>4. QED
    BY <2>2, <2>3
<1>5. QED
  BY <1>3, <1>4 DEF IInv

\* The name is still free when the caches have synced: the lock was held.
LEMMA AddSyncedInv ==
  ASSUME TypeOK, IInv, NEW w \in Workers, AddSynced(w)
  PROVE  IInv'
<1> DEFINE name == Target(w, job[w].cur.name)
           cl == [job[w].cur EXCEPT !.name = name]
           j == [job[w] EXCEPT !.pc = "each", !.cur = NoClient, !.added = Append(@, name)]
<1>0. job[w] \in Job /\ job[w].pc = "sync" /\ job[w].cur \in Client
  BY JobType DEF AddSynced, Job, ConnectingPcs
<1>1. name \in Names /\ ~Exists(name)
  BY <1>0, TargetType DEF Client, IInv, ConnectingInv, Connecting, ConnectingPcs
<1>2. cl \in Client /\ cl.name = name /\ cl.conn = job[w].cur.conn
  BY <1>0, <1>1 DEF Client
<1>3. /\ clusters' = [clusters EXCEPT ![name] = cl]
      /\ Become(w, j)
      /\ UNCHANGED <<running, lock, inCluster>>
  BY DEF AddSynced
<1>4. j \in Job /\ j.pc = "each" /\ j.map = job[w].map
  <2>1. job[w].added \in Seq(Names)
    BY <1>0 DEF Job, JobRecord
  <2> HIDE DEF name
  <2>2. Append(job[w].added, name) \in Seq(Names)
    BY <1>1, <2>1
  <2>3. QED
    BY <1>0, <2>2 DEF Job, JobRecord, Pcs, ConnectingPcs
<1> HIDE DEF name, cl, j
<1>5. RolesInv' /\ LockInv' /\ EntriesInv' /\ ConnectingInv' /\ OnlyInClusterLeaks'
  BY <1>0, <1>1, <1>2, <1>3, <1>4, RegisterStep, AwakeStep DEF Connecting, ConnectingPcs
<1>6. BootInv'
  <2>1. /\ job'[w] = j
        /\ \A v \in Workers : v # w => job'[v] = job[v]
    BY <1>3, BecomeOne
  <2>2. CASE w = Main
    BY <1>4, <2>1, <2>2 DEF BootInv, Undialled
  <2>3. CASE w # Main
    <3>1. job'[Main] = job[Main] /\ job[Main].pc = "serve"
      BY <1>0, <2>1, <2>3, AwakeStep DEF Workers, Serving
    <3>2. QED
      BY <3>1 DEF BootInv, Undialled
  <2>4. QED
    BY <2>2, <2>3
<1>7. QED
  BY <1>5, <1>6 DEF IInv

\* Deleting the entry and closing its StopCh are one critical section.
LEMMA RemoveInv ==
  ASSUME TypeOK, IInv, NEW r \in Reqs, RemoveCluster(r)
  PROVE  IInv'
<1>0. /\ r \in Workers /\ r # Main /\ Main \in Workers
      /\ job[r].pc = "lock" /\ lock = Nobody /\ Serving
      /\ Become(r, Idle)
  BY AwakeStep, WorkersAssumption DEF RemoveCluster, Disconnect, Workers
<1>1. /\ job'[r] = Idle
      /\ \A v \in Workers : v # r => job'[v] = job[v]
  BY <1>0, BecomeOne
<1>2. \A v \in Workers : ~Connecting(v) /\ ~Connecting(v)'
  BY <1>0, <1>1, FreeAlone DEF Connecting, ConnectingPcs, Idle
<1>3. PICK n \in Names :
         IF Exists(n)
         THEN /\ running' = running \ {clusters[n].conn}
              /\ clusters' = [clusters EXCEPT ![n] = NoClient]
              /\ inCluster' = IF inCluster = clusters[n].conn THEN NoConn ELSE inCluster
         ELSE UNCHANGED <<running, clusters, inCluster>>
  BY <1>0, JobType DEF RemoveCluster, Disconnect, Job, JobRecord
<1>4. RolesInv'
  <2>1. Idle.pc = "idle"
    BY DEF Idle
  <2>2. job'[Main] = job[Main] /\ \A v \in Reqs : job'[v] = job[v] \/ job'[v] = Idle
    BY <1>0, <1>1 DEF Workers
  <2>3. QED
    BY <1>0, <2>1, <2>2 DEF IInv, RolesInv, Serving, Pcs, BootPcs
<1>5. LockInv'
  BY <1>0, <1>1 DEF RemoveCluster, Disconnect, IInv, LockInv, Idle
<1>6. ConnectingInv'
  BY <1>2 DEF ConnectingInv
<1>7. BootInv'
  BY <1>0, <1>1 DEF BootInv, Undialled, Serving
<1>8. EntriesInv' /\ OnlyInClusterLeaks'
  <2>1. CASE Exists(n)
    <3>1. /\ \A m \in Names : clusters'[m] = IF m = n THEN NoClient ELSE clusters[m]
          /\ Connected' = Connected \ {n}
      BY <1>3, <2>1 DEF TypeOK, Connected, Exists
    <3>2. n \in Connected /\ running' = running \ {clusters[n].conn}
      BY <1>3, <2>1 DEF Connected
    <3>3. EntriesInv'
      BY <3>1, <3>2 DEF IInv, EntriesInv, Connected
    <3>4. ASSUME NEW c \in running' PROVE Owned(c)' \/ c = inCluster'
      <4>1. c \in running /\ c # clusters[n].conn
        BY <3>2, <3>4
      <4>2. CASE c = inCluster
        BY <1>3, <2>1, <4>1, <4>2
      <4>3. CASE Owned(c)
        <5>1. PICK m \in Connected : clusters[m].conn = c
          BY <1>2, <4>3 DEF Owned
        <5>2. m \in Connected' /\ clusters'[m].conn = c
          BY <3>1, <4>1, <5>1 DEF Connected
        <5>3. QED
          BY <5>2 DEF Owned
      <4>4. QED
        BY <4>1, <4>2, <4>3 DEF IInv, OnlyInClusterLeaks
    <3>5. QED
      BY <3>3, <3>4 DEF OnlyInClusterLeaks
  <2>2. CASE UNCHANGED <<running, clusters, inCluster>>
    <3>1. Connected' = Connected
      BY <2>2 DEF Connected, Exists
    <3>2. QED
      BY <1>2, <2>2, <3>1 DEF IInv, EntriesInv, OnlyInClusterLeaks, Owned
  <2>3. QED
    BY <1>3, <2>1, <2>2
<1>9. QED
  BY <1>4, <1>5, <1>6, <1>7, <1>8 DEF IInv

\* The handlers' other steps touch neither the map nor a connection.
LEMMA HandleInv ==
  ASSUME TypeOK, IInv, NEW r \in Reqs, Handle(r)
  PROVE  IInv'
<1>0. /\ r \in Workers /\ r # Main /\ job[r] \in Job
      /\ job[r].pc \in {"save", "write", "list", "use", "read", "lock"}
  BY WorkersAssumption, JobType
  DEF Workers, Handle, SaveTruncate, SaveWrite, SaveFailed, RemoveCluster, Disconnect, GetClient, ListOne, ListDone, Answer
<1>1. Serving
  BY <1>0, AwakeStep
<1>2. ASSUME NEW j \in Job, Become(r, j), UNCHANGED <<clusters, running, lock, inCluster>>,
             j.pc \in {"idle", "write", "list", "use"}
      PROVE  IInv'
  BY <1>0, <1>1, <1>2, QuietStep DEF ConnectingPcs, BootPcs
<1>3. Idle \in Job /\ Idle.pc = "idle"
  BY IdleType DEF Idle
<1>4. CASE SaveTruncate(r)
  <2> DEFINE j == [job[r] EXCEPT !.pc = "write"]
  <2>1. j \in Job /\ j.pc = "write"
    BY <1>0 DEF Job, JobRecord, Pcs, ConnectingPcs
  <2> HIDE DEF j
  <2>2. QED
    BY <1>2, <1>4, <2>1 DEF SaveTruncate, j
<1>5. CASE SaveWrite(r) \/ SaveFailed(r) \/ ListDone(r) \/ Answer(r)
  BY <1>2, <1>3, <1>5 DEF SaveWrite, SaveFailed, ListDone, Answer, OnlyJobChanges
<1>6. CASE GetClient(r)
  <2> DEFINE j(n) == [Idle EXCEPT !.pc = "use", !.op = "get", !.cur = clusters[n]]
  <2>1. PICK n \in job[r].todo : Become(r, j(n)) \/ Become(r, Idle)
    BY <1>6 DEF GetClient
  <2>2. clusters[n] \in Client \cup {NoClient}
    BY <1>0 DEF Job, JobRecord, TypeOK
  <2>3. j(n) \in Job /\ j(n).pc = "use"
    BY <1>3, <2>2 DEF Job, JobRecord, Pcs, ConnectingPcs
  <2> HIDE DEF j
  <2>4. QED
    BY <1>2, <1>3, <1>6, <2>1, <2>3 DEF GetClient, OnlyJobChanges
<1>7. CASE ListOne(r)
  <2> DEFINE j(n) == [job[r] EXCEPT !.todo = @ \ {n},
                                    !.cur = IF Exists(n) THEN clusters[n] ELSE @]
  <2>1. PICK n \in job[r].todo : Become(r, j(n))
    BY <1>7 DEF ListOne
  <2>2. clusters[n] \in Client \cup {NoClient} /\ job[r].pc = "list"
    BY <1>0, <1>7 DEF ListOne, Job, JobRecord, TypeOK
  <2>3. j(n) \in Job /\ j(n).pc = "list"
    BY <1>0, <2>2 DEF Job, JobRecord, ConnectingPcs
  <2> HIDE DEF j
  <2>4. QED
    BY <1>2, <1>7, <2>1, <2>3 DEF ListOne, OnlyJobChanges
<1>8. QED
  BY <1>4, <1>5, <1>6, <1>7, RemoveInv DEF Handle

LEMMA StepInv == ASSUME TypeOK, OpsInv, IInv, NEW w \in Workers, Step(w) PROVE IInv'
  BY LoopInv, AcquireInv, ReleaseInv, ConnectInv, AddSyncedInv, HandleInv DEF Step, AddClusters

\* A request begins only when the server is open.
LEMMA ArriveInv == ASSUME TypeOK, IInv, NEW r \in Reqs, Arrive(r) PROVE IInv'
<1>0. r \in Workers /\ r # Main /\ job[r] \in Job
  BY WorkersAssumption, JobType DEF Workers
<1>1. ASSUME NEW j \in Job, Become(r, j), OnlyJobChanges, Serving, job[r].pc = "idle",
             j.pc \in {"lock", "read", "list"}
      PROVE  IInv'
  BY <1>0, <1>1, QuietStep DEF OnlyJobChanges, ConnectingPcs, BootPcs
<1>2. CASE UploadKubeconfig(r)
  <2> DEFINE j(c, m, f) == [Idle EXCEPT !.pc = "lock", !.op = "upload",
                                        !.conf = c, !.map = m, !.file = f]
  <2>1. PICK c \in Configs, m \in Mappings, f \in UploadFiles : Become(r, j(c, m, f))
    BY <1>2 DEF UploadKubeconfig
  <2>2. j(c, m, f) \in Job /\ j(c, m, f).pc = "lock"
    BY IdleType, NamesAssumption, FilesAssumption DEF Job, JobRecord, Pcs, ConnectingPcs, Contents
  <2> HIDE DEF j
  <2>3. QED
    BY <1>1, <1>2, <2>1, <2>2 DEF UploadKubeconfig
<1>3. CASE ImportClustersFromKubeconfig(r)
  <2> DEFINE j(c) == [Idle EXCEPT !.pc = "lock", !.op = "import", !.conf = c]
  <2>1. PICK c \in Configs : Become(r, j(c))
    BY <1>3 DEF ImportClustersFromKubeconfig
  <2>2. j(c) \in Job /\ j(c).pc = "lock"
    BY IdleType DEF Job, JobRecord, Pcs, ConnectingPcs, Contents
  <2> HIDE DEF j
  <2>3. QED
    BY <1>1, <1>3, <2>1, <2>2 DEF ImportClustersFromKubeconfig
<1>4. ASSUME NEW op \in {"remove", "get"}, NEW pc \in {"lock", "read"}, AskCluster(r, op, pc)
      PROVE  IInv'
  <2> DEFINE j(n) == [Idle EXCEPT !.pc = pc, !.op = op, !.todo = {n}]
  <2>1. PICK n \in Names : Become(r, j(n))
    BY <1>4 DEF AskCluster
  <2>2. j(n) \in Job /\ j(n).pc = pc
    BY IdleType DEF Job, JobRecord, Pcs, ConnectingPcs
  <2> HIDE DEF j
  <2>3. QED
    BY <1>1, <1>4, <2>1, <2>2 DEF AskCluster
<1>5. CASE ListClusters(r)
  <2> DEFINE j == [job[r] EXCEPT !.pc = "list", !.op = "list", !.todo = Connected]
  <2>1. j \in Job /\ j.pc = "list"
    BY <1>0 DEF Job, JobRecord, Pcs, ConnectingPcs, Connected
  <2> HIDE DEF j
  <2>2. QED
    BY <1>1, <1>5, <2>1 DEF ListClusters, j
<1>6. CASE DeleteStoredKubeconfig(r)
  <2>1. UNCHANGED <<clusters, running, lock, job, inCluster>>
    BY <1>6 DEF DeleteStoredKubeconfig
  <2>2. QED
    BY <2>1 DEF IInv, RolesInv, LockInv, EntriesInv, ConnectingInv, BootInv, Undialled,
                OnlyInClusterLeaks, Owned, Connected, Exists, Connecting, Serving, Target
<1>7. QED
  BY <1>2, <1>3, <1>4, <1>5, <1>6 DEF Arrive

\* What holds when the process starts, for the first time or again.
Blank ==
    /\ clusters = [n \in Names |-> NoClient]
    /\ running = {}
    /\ lock = Nobody
    /\ job = Booted

LEMMA BootedInv == ASSUME Blank PROVE IInv /\ OpsInv
<1> USE DEF Blank
<1>1. /\ Main \in Workers /\ job[Main] = [Idle EXCEPT !.pc = "start"]
      /\ \A r \in Reqs : r \in Workers /\ job[r] = Idle
  BY WorkersAssumption DEF Booted, Workers
<1>2. /\ job[Main].pc = "start" /\ job[Main].map = Identity
      /\ \A r \in Reqs : job[r].pc = "idle" /\ job[r].op = "none"
  BY <1>1 DEF Idle
<1>3. Connected = {}
  BY DEF Connected, Exists
<1>4. RolesInv /\ OpsInv
  BY <1>2 DEF RolesInv, OpsInv, Pcs, BootPcs, AddPcs
<1>5. LockInv /\ ConnectingInv
  BY <1>2, WorkersAssumption DEF LockInv, ConnectingInv, Connecting, ConnectingPcs, Workers
<1>6. EntriesInv /\ BootInv /\ OnlyInClusterLeaks
  BY <1>2, <1>3 DEF EntriesInv, BootInv, Undialled, OnlyInClusterLeaks
<1>7. QED
  BY <1>4, <1>5, <1>6 DEF IInv

LEMMA RestartInv == Blank' => IInv'
<1>1. Blank => IInv
  BY BootedInv
<1>2. QED
  BY <1>1, PTL

LEMMA InvNext == ASSUME TypeOK, OpsInv, IInv, [Next]_vars PROVE IInv'
<1>1. CASE Crash
  <2>1. Blank'
    BY <1>1 DEF Crash, Blank, Booted, Idle
  <2>2. QED
    BY <2>1, RestartInv
<1>2. CASE UNCHANGED vars
  BY <1>2 DEF vars, IInv, RolesInv, LockInv, EntriesInv, ConnectingInv, BootInv, Undialled,
              OnlyInClusterLeaks, Owned, Connected, Exists, Connecting, Serving, Target
<1>3. QED
  BY <1>1, <1>2, StartUpInv, StepInv, ArriveInv DEF Next

\* The inductive invariant.
THEOREM Inductive == Spec => [](TypeOK /\ OpsInv /\ IInv)
<1>1. Init => TypeOK /\ OpsInv /\ IInv
  BY BootedInv, BootedType, WorkersAssumption DEF Init, TypeOK, Contents, Blank
<1>2. TypeOK /\ OpsInv /\ IInv /\ [Next]_vars => (TypeOK /\ OpsInv /\ IInv)'
  BY TypeStep, OpsNext, InvNext
<1>3. QED
  BY <1>1, <1>2, PTL DEF Spec

\* GetClient never hands out a client whose informers were stopped.
THEOREM ServedClientsRunAlways == Spec => []ServedClientsRun
<1>1. IInv => ServedClientsRun
  BY DEF IInv, EntriesInv, ServedClientsRun
<1>2. QED
  BY <1>1, Inductive, PTL

\* A client's Name is the key of its entry, renamed contexts included.
THEOREM NameIsKeyAlways == Spec => []NameIsKey
<1>1. IInv => NameIsKey
  BY DEF IInv, EntriesInv, NameIsKey
<1>2. QED
  BY <1>1, Inductive, PTL

\* The only connection whose StopCh is ever lost is the in-cluster one.
THEOREM OnlyInClusterLeaksAlways == Spec => []OnlyInClusterLeaks
<1>1. IInv => OnlyInClusterLeaks
  BY DEF IInv
<1>2. QED
  BY <1>1, Inductive, PTL
=============================================================================
