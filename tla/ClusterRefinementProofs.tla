----------------------- MODULE ClusterRefinementProofs -----------------------
(***************************************************************************)
(* The manager implements ClusterRegistry, and what its steps never do.    *)
(***************************************************************************)
EXTENDS ClusterManagerProofs

\* What the registry sees: nobody dials, or one worker does.
LEMMA DiallingNone ==
  ASSUME \A v \in Workers : ~Connecting(v)
  PROVE  Dialling = {}
  BY DEF Dialling

LEMMA DiallingOne ==
  ASSUME IInv, NEW w \in Workers, Connecting(w)
  PROVE  Dialling = {<<Target(w, job[w].cur.name), job[w].cur.conn>>}
<1>1. {v \in Workers : Connecting(v)} = {w}
  BY OneConnecting
<1>2. QED
  BY <1>1 DEF Dialling

LEMMA TableEntry ==
  ASSUME TypeOK, NEW n \in Names
  PROVE  Table[n] = NoConn <=> ~Exists(n)
  BY WorkersAssumption DEF TypeOK, Table, Exists, Client

\* A step that moves one worker between states outside createClient is
\* invisible.
LEMMA QuietStutter ==
  ASSUME TypeOK, NEW w \in Workers, NEW j, Become(w, j), UNCHANGED <<clusters, running>>,
         job[w].pc \notin ConnectingPcs, j.pc \notin ConnectingPcs, Serving' = Serving
  PROVE  UNCHANGED Registry!vars
<1>1. \A v \in Workers : /\ Connecting(v)' <=> Connecting(v)
                         /\ Connecting(v) => job'[v] = job[v]
  BY BecomeOne DEF Connecting
<1>2. Table' = Table
  BY DEF Table, Exists
<1>3. Dialling' = Dialling
  BY <1>1 DEF Dialling, Target
<1>4. QED
  BY <1>2, <1>3 DEF Registry!vars

\* Starting the informers of a client is a Dial ...
LEMMA DialSimulation ==
  ASSUME TypeOK, IInv, IInv', NEW w \in Workers, NEW x \in Names, NEW c \in Fresh,
         NEW pc \in ConnectingPcs, StartInformers(w, x, c, pc),
         UNCHANGED clusters, \A v \in Workers : ~Connecting(v),
         Target(w, x) \in Names,
         Serving => ~Exists(Target(w, x)), w = Main => ~Serving
  PROVE  Registry!Dial(Target(w, x), c)
<1>1. /\ job'[w].pc = pc
      /\ job'[w].map = job[w].map
      /\ job'[w].cur.conn = c /\ job'[w].cur.name = x
      /\ \A v \in Workers : v # w => job'[v] = job[v]
  BY StartInformersJob
<1>2. Dialling = {}
  BY DiallingNone
<1>3. Connecting(w)'
  BY <1>1 DEF Connecting
<1>4. Dialling' = {<<Target(w, x), c>>}
  <2>1. {v \in Workers : Connecting(v)'} = {w}
    BY <1>1, <1>3 DEF Connecting
  <2>2. QED
    BY <1>1, <2>1 DEF Dialling, Target
<1>5. c \notin running /\ running' = running \cup {c}
  BY DEF Fresh, InUse, StartInformers
<1>6. Table' = Table
  BY DEF Table, Exists
<1>7. Serving' = Serving
  BY <1>1, WorkersAssumption DEF Serving, Workers, ConnectingPcs
<1>8. QED
  BY <1>2, <1>4, <1>5, <1>6, <1>7, TableEntry DEF Registry!Dial

\* ... registering it is a Settle.
LEMMA SettleSimulation ==
  ASSUME TypeOK, IInv, NEW w \in Workers, Connecting(w), NEW j, Become(w, j),
         NEW n \in Names, NEW cl \in Client,
         n = Target(w, job[w].cur.name), cl.conn = job[w].cur.conn,
         clusters' = [clusters EXCEPT ![n] = cl], running' = running,
         j.pc \notin ConnectingPcs \cup {"serve"}, w = Main => ~Serving
  PROVE  Registry!Settle(n, cl.conn)
<1>1. job'[w] = j /\ \A v \in Workers : v # w => job'[v] = job[v]
  BY BecomeOne
<1>2. Dialling = {<<n, cl.conn>>}
  BY DiallingOne
<1>3. Dialling' = {}
  <2>1. \A v \in Workers : ~Connecting(v)'
    BY <1>1, OneConnecting DEF Connecting
  <2>2. QED
    BY <2>1 DEF Dialling
<1>4. Table' = [Table EXCEPT ![n] = cl.conn]
  <2>1. \A m \in Names : clusters'[m] = IF m = n THEN cl ELSE clusters[m]
    BY DEF TypeOK
  <2>2. cl # NoClient
    BY WorkersAssumption DEF Client
  <2>3. Table' = [m \in Names |-> IF m = n THEN cl.conn ELSE Table[m]]
    BY <2>1, <2>2 DEF Table, Exists
  <2>4. Table = [m \in Names |-> Table[m]]
    BY DEF Table
  <2> HIDE DEF Table
  <2>5. QED
    BY <2>3, <2>4
<1>5. Serving' = Serving
  BY <1>1 DEF Serving, Workers
<1>6. QED
  BY <1>2, <1>3, <1>4, <1>5 DEF Registry!Settle
-----------------------------------------------------------------------------
LEMMA StartUpSimulation ==
  ASSUME TypeOK, IInv, IInv', StartUp
  PROVE  Registry!Next \/ UNCHANGED Registry!vars
<1>0. /\ Main \in Workers /\ job[Main] \in Job /\ job[Main].map = Identity
      /\ \A x \in Names : Target(Main, x) = x
  BY JobType DEF Workers, IInv, RolesInv, Target, Identity
<1>a. ASSUME job[Main].pc \in {"start", "dial", "files"}
      PROVE  ~Serving /\ \A v \in Workers : ~Connecting(v)
  BY <1>a, BootAlone DEF Serving, Connecting, ConnectingPcs
<1>1. CASE NotInCluster \/ InitialFailed \/ ReadStoredDir \/ LoadStoredFile
  <2> DEFINE began == [job[Main] EXCEPT !.pc = "dial", !.conf = Initial, !.todo = InitialContexts]
             skipped(x) == [job[Main] EXCEPT !.todo = @ \ {x}]
             listed == [job[Main] EXCEPT !.pc = "files",
                                         !.queue = {f \in Files : stored[f] # "absent"}]
             loaded(f) == [job[Main] EXCEPT
                             !.queue = @ \ {f}, !.file = f, !.op = "load", !.conf = stored[f],
                             !.pc = IF stored[f] = "garbled" THEN "files" ELSE "lock"]
  <2>0. /\ began.pc = "dial" /\ listed.pc = "files"
        /\ \A x : skipped(x).pc = job[Main].pc
        /\ \A f : loaded(f).pc \in {"files", "lock"}
    BY <1>0 DEF Job, JobRecord
  <2> HIDE DEF began, skipped, listed, loaded
  <2>1. PICK j : Become(Main, j) /\ j.pc \in {"dial", "files", "lock"}
    <3>1. CASE NotInCluster
      BY <2>0, <3>1 DEF NotInCluster, began
    <3>2. CASE InitialFailed
      <4>1. PICK x : Become(Main, skipped(x)) /\ job[Main].pc = "dial"
        BY <3>2 DEF InitialFailed, skipped
      <4>2. QED
        BY <2>0, <4>1
    <3>3. CASE ReadStoredDir
      BY <2>0, <3>3 DEF ReadStoredDir, listed
    <3>4. CASE LoadStoredFile
      <4>1. PICK f : Become(Main, loaded(f))
        BY <3>4 DEF LoadStoredFile, loaded
      <4>2. QED
        BY <2>0, <4>1
    <3>5. QED
      BY <1>1, <3>1, <3>2, <3>3, <3>4
  <2>2. job[Main].pc \in {"start", "dial", "files"} /\ UNCHANGED <<clusters, running>>
    BY <1>1 DEF NotInCluster, InitialFailed, ReadStoredDir, LoadStoredFile, OnlyJobChanges
  <2>3. Serving' = Serving
    BY <1>0, <2>1, <2>2, BecomeOne DEF Serving
  <2>4. QED
    BY <1>0, <2>1, <2>2, <2>3, QuietStutter DEF ConnectingPcs
<1>2. CASE InitInClusterClient
  <2>1. PICK c \in Fresh : StartInformers(Main, Default, c, "home")
    BY <1>2 DEF InitInClusterClient
  <2>2. Registry!Dial(Default, c)
    BY <1>0, <1>2, <1>a, <2>1, DialSimulation, NamesAssumption DEF InitInClusterClient, ConnectingPcs
  <2>3. QED
    BY <2>2, NamesAssumption DEF Registry!Next, Fresh
<1>3. CASE InitialConnect
  <2>1. PICK x \in job[Main].todo, c \in Fresh : StartInformers(Main, x, c, "dialing")
    BY <1>3 DEF InitialConnect
  <2>2. x \in Names
    BY <1>0 DEF Job, JobRecord
  <2>3. Registry!Dial(x, c)
    BY <1>0, <1>3, <1>a, <2>1, <2>2, DialSimulation DEF InitialConnect, ConnectingPcs
  <2>4. QED
    BY <2>2, <2>3 DEF Registry!Next, Fresh
<1>4. CASE InClusterSynced \/ InitialSynced
  <2> DEFINE j1 == [job[Main] EXCEPT !.pc = "dial", !.conf = Initial, !.cur = NoClient,
                                   !.todo = InitialContexts]
             j2 == [job[Main] EXCEPT !.pc = "dial", !.cur = NoClient]
             cl == job[Main].cur
  <2>1. j1.pc = "dial" /\ j2.pc = "dial"
    BY <1>0 DEF Job, JobRecord
  <2>2. /\ job[Main].pc \in {"home", "dialing"}
        /\ cl \in Client /\ cl.name \in Names /\ cl.conn \in Conns
    BY <1>0, <1>4 DEF InClusterSynced, InitialSynced, Job, ConnectingPcs, Client
  <2>3. /\ clusters' = [clusters EXCEPT ![cl.name] = cl]
        /\ running' = running
        /\ Become(Main, j1) \/ Become(Main, j2)
    BY <1>4 DEF InClusterSynced, InitialSynced, IInv, BootInv
  <2> HIDE DEF j1, j2
  <2>4. Registry!Settle(cl.name, cl.conn)
    BY <1>0, <2>1, <2>2, <2>3, SettleSimulation DEF Connecting, ConnectingPcs, Serving
  <2>5. QED
    BY <2>2, <2>4 DEF Registry!Next
<1>5. CASE StartServing
  <2> DEFINE j == [Idle EXCEPT !.pc = "serve"]
  <2>1. j.pc = "serve"
    BY DEF Idle
  <2> HIDE DEF j
  <2>2. job'[Main] = j /\ \A v \in Workers : v # Main => job'[v] = job[v]
    BY <1>0, <1>5, BecomeOne DEF StartServing, j
  <2>3. Dialling = {} /\ Dialling' = {}
    BY <1>5, <1>a, <2>1, <2>2 DEF StartServing, Dialling, Connecting, ConnectingPcs
  <2>4. Registry!Open
    BY <1>5, <2>1, <2>2, <2>3 DEF StartServing, OnlyJobChanges, Registry!Open, Table, Exists, Serving
  <2>5. QED
    BY <2>4 DEF Registry!Next
<1>6. QED
  BY <1>1, <1>2, <1>3, <1>4, <1>5 DEF StartUp
-----------------------------------------------------------------------------
LEMMA HandleSimulation ==
  ASSUME TypeOK, IInv, NEW r \in Reqs, Handle(r)
  PROVE  Registry!Next \/ UNCHANGED Registry!vars
<1>0. /\ r \in Workers /\ r # Main /\ Main \in Workers /\ job[r] \in Job
      /\ job[r].pc \in {"save", "write", "list", "use", "read", "lock"}
  BY WorkersAssumption, JobType
  DEF Workers, Handle, SaveTruncate, SaveWrite, SaveFailed, RemoveCluster, GetClient, ListOne, ListDone, Answer
<1>1. \A j : Become(r, j) => Serving' = Serving
  BY <1>0, BecomeOne DEF Serving
<1>2. ASSUME NEW j, Become(r, j), UNCHANGED <<clusters, running>>,
             j.pc \in {"idle", "write", "list", "use"}
      PROVE  UNCHANGED Registry!vars
  BY <1>0, <1>1, <1>2, QuietStutter DEF ConnectingPcs
<1>3. Idle.pc = "idle"
  BY DEF Idle
<1>4. CASE SaveTruncate(r)
  <2> DEFINE j == [job[r] EXCEPT !.pc = "write"]
  <2>1. j.pc = "write"
    BY <1>0 DEF Job, JobRecord
  <2> HIDE DEF j
  <2>2. QED
    BY <1>2, <1>4, <2>1 DEF SaveTruncate, j
<1>5. CASE SaveWrite(r) \/ SaveFailed(r) \/ ListDone(r) \/ Answer(r)
  BY <1>2, <1>3, <1>5 DEF SaveWrite, SaveFailed, ListDone, Answer, OnlyJobChanges
<1>6. CASE GetClient(r)
  <2> DEFINE j(n) == [Idle EXCEPT !.pc = "use", !.op = "get", !.cur = clusters[n]]
  <2>1. PICK n : Become(r, j(n)) \/ Become(r, Idle)
    BY <1>6 DEF GetClient
  <2>2. j(n).pc = "use"
    BY DEF Idle
  <2> HIDE DEF j
  <2>3. QED
    BY <1>2, <1>3, <1>6, <2>1, <2>2 DEF GetClient, OnlyJobChanges
<1>7. CASE ListOne(r)
  <2> DEFINE j(n) == [job[r] EXCEPT !.todo = @ \ {n},
                                    !.cur = IF Exists(n) THEN clusters[n] ELSE @]
  <2>1. PICK n : Become(r, j(n))
    BY <1>7 DEF ListOne
  <2>2. j(n).pc = "list"
    BY <1>0, <1>7 DEF ListOne, Job, JobRecord
  <2> HIDE DEF j
  <2>3. QED
    BY <1>2, <1>7, <2>1, <2>2 DEF ListOne, OnlyJobChanges
<1>8. CASE RemoveCluster(r)
  <2>1. Serving /\ lock = Nobody /\ Become(r, Idle)
    BY <1>0, <1>8, AwakeStep DEF RemoveCluster
  <2>2. PICK n \in Names : Disconnect(n)
    BY <1>0, <1>8 DEF RemoveCluster, Job, JobRecord
  <2>3. CASE Exists(n)
    <3>1. Table[n] = clusters[n].conn /\ Table[n] # NoConn
      BY <2>3, TableEntry DEF Table
    <3>2. Table' = [Table EXCEPT ![n] = NoConn]
      <4>1. \A m \in Names : clusters'[m] = IF m = n THEN NoClient ELSE clusters[m]
        BY <2>2, <2>3 DEF Disconnect, TypeOK
      <4>2. Table' = [m \in Names |-> IF m = n THEN NoConn ELSE Table[m]]
        BY <4>1 DEF Table, Exists
      <4>3. Table = [m \in Names |-> Table[m]]
        BY DEF Table
      <4> HIDE DEF Table
      <4>4. QED
        BY <4>2, <4>3
    <3>3. \A v \in Workers : ~Connecting(v) /\ ~Connecting(v)'
      BY <1>0, <1>3, <2>1, BecomeOne, FreeAlone DEF Connecting, ConnectingPcs
    <3>4. Dialling = {} /\ Dialling' = {}
      BY <3>3 DEF Dialling
    <3>5. Registry!Drop(n)
      BY <1>1, <2>1, <2>2, <2>3, <3>1, <3>2, <3>4 DEF Disconnect, Registry!Drop
    <3>6. QED
      BY <3>5 DEF Registry!Next
  <2>4. CASE ~Exists(n)
    BY <1>2, <1>3, <2>1, <2>2, <2>4 DEF Disconnect
  <2>5. QED
    BY <2>3, <2>4
<1>9. QED
  BY <1>4, <1>5, <1>6, <1>7, <1>8 DEF Handle

LEMMA StepSimulation ==
  ASSUME TypeOK, OpsInv, IInv, IInv', NEW w \in Workers, Step(w)
  PROVE  Registry!Next \/ UNCHANGED Registry!vars
<1>0. job[w] \in Job
  BY JobType
<1>1. CASE AcquireLock(w)
  <2> DEFINE j == [job[w] EXCEPT !.pc = "each", !.todo = ContextsOf(job[w].conf)]
  <2>1. j.pc = "each"
    BY <1>0 DEF Job, JobRecord
  <2> HIDE DEF j
  <2>2. Become(w, j) /\ job[w].pc = "lock" /\ UNCHANGED <<clusters, running>>
    BY <1>1 DEF AcquireLock, j
  <2>3. Serving' = Serving
    BY <2>1, <2>2, BecomeOne DEF Serving, Workers
  <2>4. QED
    BY <2>1, <2>2, <2>3, QuietStutter DEF ConnectingPcs
<1>2. CASE SkipExisting(w) \/ ConnectFailed(w)
  <2> DEFINE j1(x) == [job[w] EXCEPT !.todo = @ \ {x}]
             j2(x) == [job[w] EXCEPT !.todo = @ \ {x}, !.failed = @ \cup {<<job[w].conf, Target(w, x)>>}]
  <2>1. \A x : j1(x).pc = job[w].pc /\ j2(x).pc = job[w].pc
    BY <1>0 DEF Job, JobRecord
  <2>2. PICK x : Become(w, j1(x)) \/ Become(w, j2(x))
    BY <1>2 DEF SkipExisting, ConnectFailed
  <2>3. job[w].pc = "each" /\ UNCHANGED <<clusters, running>>
    BY <1>2 DEF SkipExisting, ConnectFailed, OnlyJobChanges
  <2> HIDE DEF j1, j2
  <2>4. PICK j : Become(w, j) /\ j.pc = "each"
    BY <2>1, <2>2, <2>3
  <2>5. Serving' = Serving
    BY <2>3, <2>4, BecomeOne DEF Serving, Workers
  <2>6. QED
    BY <2>3, <2>4, <2>5, QuietStutter DEF ConnectingPcs
<1>3. CASE Connect(w)
  <2>1. PICK x \in job[w].todo, c \in Fresh :
           ~Exists(Target(w, x)) /\ StartInformers(w, x, c, "sync")
    BY <1>3 DEF Connect
  <2>2. x \in Names /\ Target(w, x) \in Names
    BY <1>0, TargetType DEF Job, JobRecord
  <2>3. /\ \A v \in Workers : ~Connecting(v)
        /\ w = Main => ~Serving
        /\ UNCHANGED clusters
    BY <1>3, LoopAlone, AwakeStep DEF Connect
  <2>4. Registry!Dial(Target(w, x), c)
    BY <2>1, <2>2, <2>3, DialSimulation DEF ConnectingPcs
  <2>5. QED
    BY <2>2, <2>4 DEF Registry!Next, Fresh
<1>4. CASE AddSynced(w)
  <2> DEFINE name == Target(w, job[w].cur.name)
             cl == [job[w].cur EXCEPT !.name = name]
             j == [job[w] EXCEPT !.pc = "each", !.cur = NoClient, !.added = Append(@, name)]
  <2>0. job[w].pc = "sync" /\ job[w].cur \in Client
    BY <1>0, <1>4 DEF AddSynced, Job, ConnectingPcs
  <2>1. name \in Names
    BY <2>0, TargetType DEF Client
  <2>2. cl \in Client /\ cl.conn = job[w].cur.conn /\ cl.conn \in Conns
    BY <2>0, <2>1 DEF Client
  <2>3. j.pc = "each"
    BY <1>0 DEF Job, JobRecord
  <2>4. /\ clusters' = [clusters EXCEPT ![name] = cl]
        /\ running' = running
        /\ Become(w, j)
    BY <1>4 DEF AddSynced
  <2> HIDE DEF cl, j
  <2>5. Connecting(w) /\ (w = Main => ~Serving)
    BY <2>0, AwakeStep DEF Connecting, ConnectingPcs
  <2>6. Registry!Settle(name, cl.conn)
    BY <2>1, <2>2, <2>3, <2>4, <2>5, SettleSimulation DEF ConnectingPcs
  <2>7. QED
    BY <2>1, <2>2, <2>6 DEF Registry!Next
<1>5. CASE ReleaseLock(w)
  <2> DEFINE after == [Idle EXCEPT !.pc = "files", !.queue = job[w].queue, !.failed = job[w].failed]
             saved == [Idle EXCEPT !.pc = "save", !.conf = job[w].conf, !.file = SaveName(w)]
  <2>1. after.pc = "files" /\ saved.pc = "save" /\ Idle.pc = "idle"
    BY DEF Idle
  <2>2. PICK j \in {after, saved, Idle} : Become(w, j)
    BY <1>5 DEF ReleaseLock, Proceed
  <2> HIDE DEF after, saved
  <2>3. job[w].pc = "each" /\ UNCHANGED <<clusters, running>>
    BY <1>5 DEF ReleaseLock
  <2>4. Serving' = Serving
    BY <2>1, <2>2, <2>3, BecomeOne DEF Serving, Workers
  <2>5. QED
    BY <2>1, <2>2, <2>3, <2>4, QuietStutter DEF ConnectingPcs
<1>6. QED
  BY <1>1, <1>2, <1>3, <1>4, <1>5, HandleSimulation DEF Step, AddClusters

LEMMA ArriveSimulation ==
  ASSUME TypeOK, IInv, NEW r \in Reqs, Arrive(r)
  PROVE  UNCHANGED Registry!vars
<1>0. r \in Workers /\ r # Main /\ Main \in Workers /\ job[r] \in Job
  BY WorkersAssumption, JobType DEF Workers
<1>1. CASE DeleteStoredKubeconfig(r)
  BY <1>1 DEF DeleteStoredKubeconfig, Registry!vars, Table, Exists, Dialling, Connecting, Target, Serving
<1>2. CASE ~DeleteStoredKubeconfig(r)
  <2> DEFINE j1(c, m, f) == [Idle EXCEPT !.pc = "lock", !.op = "upload",
                                         !.conf = c, !.map = m, !.file = f]
             j2(c) == [Idle EXCEPT !.pc = "lock", !.op = "import", !.conf = c]
             j3(pc, op, n) == [Idle EXCEPT !.pc = pc, !.op = op, !.todo = {n}]
             j4 == [job[r] EXCEPT !.pc = "list", !.op = "list", !.todo = Connected]
  <2>1. /\ \A c, m, f : j1(c, m, f).pc = "lock"
        /\ \A c : j2(c).pc = "lock"
        /\ \A pc, op, n : j3(pc, op, n).pc = pc
        /\ j4.pc = "list"
    BY <1>0 DEF Idle, Job, JobRecord
  <2>2. \/ \E c, m, f : Become(r, j1(c, m, f))
        \/ \E c : Become(r, j2(c))
        \/ \E n : Become(r, j3("lock", "remove", n)) \/ Become(r, j3("read", "get", n))
        \/ Become(r, j4)
    BY <1>2 DEF Arrive, UploadKubeconfig, ImportClustersFromKubeconfig, AskCluster, ListClusters
  <2>3. job[r].pc = "idle" /\ UNCHANGED <<clusters, running>>
    BY <1>2 DEF Arrive, UploadKubeconfig, ImportClustersFromKubeconfig, AskCluster, ListClusters,
                OnlyJobChanges
  <2> HIDE DEF j1, j2, j3, j4
  <2>4. PICK j : Become(r, j) /\ j.pc \in {"lock", "read", "list"}
    BY <2>1, <2>2
  <2>5. Serving' = Serving
    BY <1>0, <2>4, BecomeOne DEF Serving
  <2>6. QED
    BY <1>0, <2>3, <2>4, <2>5, QuietStutter DEF ConnectingPcs
<1>3. QED
  BY <1>1, <1>2

LEMMA CrashSimulation == ASSUME Crash PROVE Registry!Restart
<1>1. \A v \in Workers : job'[v].pc \in {"start", "idle"}
  BY DEF Crash, Booted, Idle
<1>2. Main \in Workers /\ Dialling' = {}
  BY <1>1 DEF Dialling, Connecting, ConnectingPcs, Workers
<1>3. Table' = [n \in Names |-> NoConn]
  BY DEF Crash, Table, Exists
<1>4. QED
  BY <1>1, <1>2, <1>3 DEF Crash, Registry!Restart, Serving

\* Every step of the manager is a step of the registry or invisible.
THEOREM Refinement == Spec => ImplementsRegistry
<1>1. Init => Registry!Init
  <2> SUFFICES ASSUME Init PROVE Registry!Init
    OBVIOUS
  <2>1. Table = [n \in Names |-> NoConn]
    BY DEF Init, Table, Exists
  <2>2. \A v \in Workers : job[v].pc \in {"start", "idle"}
    BY DEF Init, Booted, Idle
  <2>3. Main \in Workers /\ Dialling = {}
    BY <2>2 DEF Dialling, Connecting, ConnectingPcs, Workers
  <2>4. QED
    BY <2>1, <2>2, <2>3 DEF Init, Registry!Init, Serving
<1>2. TypeOK /\ OpsInv /\ IInv /\ [Next]_vars => [Registry!Next]_(Registry!vars)
  <2> SUFFICES ASSUME TypeOK, OpsInv, IInv, [Next]_vars
               PROVE  Registry!Next \/ UNCHANGED Registry!vars
    OBVIOUS
  <2>1. IInv'
    BY InvNext
  <2>2. CASE UNCHANGED vars
    BY <2>2 DEF vars, Registry!vars, Table, Exists, Dialling, Connecting, Target, Serving
  <2>3. CASE Crash
    BY <2>3, CrashSimulation DEF Registry!Next
  <2>4. QED
    BY <2>1, <2>2, <2>3, StartUpSimulation, StepSimulation, ArriveSimulation DEF Next
<1>3. QED
  BY <1>1, <1>2, Inductive, PTL DEF Spec, ImplementsRegistry, Registry!Spec
-----------------------------------------------------------------------------
\* The steps that write the map.
LEMMA MapWriters ==
  ASSUME [Next]_vars, clusters' # clusters
  PROVE  \/ InClusterSynced \/ InitialSynced \/ Crash
         \/ \E w \in Workers : AddSynced(w)
         \/ \E r \in Reqs : RemoveCluster(r)
<1>1. CASE StartUp
  BY <1>1 DEF StartUp, NotInCluster, InitInClusterClient, InitialConnect, InitialFailed,
              ReadStoredDir, LoadStoredFile, StartServing, OnlyJobChanges
<1>2. ASSUME NEW w \in Workers, Step(w)
      PROVE  AddSynced(w) \/ (w \in Reqs /\ RemoveCluster(w))
  BY <1>2 DEF Step, AddClusters, Handle, AcquireLock, SkipExisting, ConnectFailed, Connect,
              ReleaseLock, SaveTruncate, SaveWrite, SaveFailed, GetClient, ListOne, ListDone,
              Answer, OnlyJobChanges
<1>3. ASSUME NEW r \in Reqs, Arrive(r) PROVE FALSE
  BY <1>3 DEF Arrive, UploadKubeconfig, ImportClustersFromKubeconfig, AskCluster, ListClusters,
              DeleteStoredKubeconfig, OnlyJobChanges
<1>4. QED
  BY <1>1, <1>2, <1>3 DEF Next, vars

\* While the server is open, an entry is only ever deleted, and its informers
\* stop in the same step.
THEOREM NoSilentReplacementEver == Spec => NoSilentReplacement
<1> DEFINE Kept == \A n \in Names : Serving /\ Exists(n) /\ clusters'[n] # clusters[n]
                      => clusters'[n] = NoClient /\ clusters[n].conn \notin running'
<1>1. TypeOK /\ OpsInv /\ IInv /\ [Next]_vars => Kept \/ UNCHANGED vars
  <2> SUFFICES ASSUME TypeOK, IInv, [Next]_vars, ~UNCHANGED vars,
                      NEW n \in Names, Serving, Exists(n), clusters'[n] # clusters[n]
               PROVE  clusters'[n] = NoClient /\ clusters[n].conn \notin running'
    OBVIOUS
  <2>1. CASE InClusterSynced \/ InitialSynced
    BY <2>1 DEF InClusterSynced, InitialSynced, Serving
  <2>2. CASE Crash
    BY <2>2 DEF Crash
  <2>3. ASSUME NEW w \in Workers, AddSynced(w) PROVE FALSE
    <3>1. Target(w, job[w].cur.name) = n
      BY <2>3 DEF AddSynced, TypeOK
    <3>2. ~Exists(n)
      BY <2>3, <3>1 DEF AddSynced, IInv, ConnectingInv, Connecting, ConnectingPcs
    <3>3. QED
      BY <3>2
  <2>4. ASSUME NEW r \in Reqs, RemoveCluster(r)
        PROVE  clusters'[n] = NoClient /\ clusters[n].conn \notin running'
    <3>1. PICK m : Disconnect(m)
      BY <2>4 DEF RemoveCluster
    <3>2. m = n /\ Exists(m)
      BY <3>1 DEF Disconnect, TypeOK
    <3>3. QED
      BY <3>1, <3>2 DEF Disconnect, TypeOK
  <2>5. QED
    BY <2>1, <2>2, <2>3, <2>4, MapWriters
<1>2. QED
  BY <1>1, Inductive, PTL DEF Spec, NoSilentReplacement
-----------------------------------------------------------------------------
\* The added and failed lists of a request agree with the map.
Reported(w) ==
    /\ \A i \in DOMAIN job[w].added : Exists(job[w].added[i])
    /\ \A n \in Connected : <<job[w].conf, n>> \in job[w].failed
          => \E i \in DOMAIN job[w].added : job[w].added[i] = n

\* They do from the moment the request has the lock.
ReportInv ==
    \A r \in Reqs :
        /\ job[r].pc = "lock" => job[r].added = <<>> /\ job[r].failed = {}
        /\ job[r].pc \in {"each", "sync"} => Reported(r)

\* A step of another goroutine does not touch the map while r has the lock.
LEMMA ReportOthers ==
  ASSUME TypeOK, OpsInv, IInv, ReportInv, [Next]_vars, ~Crash, NEW r \in Reqs,
         job'[r] = job[r]
  PROVE  /\ job'[r].pc = "lock" => job'[r].added = <<>> /\ job'[r].failed = {}
         /\ job'[r].pc \in {"each", "sync"} => Reported(r)'
<1>0. r \in Workers /\ r # Main /\ r # Nobody
  BY WorkersAssumption DEF Workers
<1>1. CASE job[r].pc \in {"each", "sync"}
  <2>1. lock = r /\ Serving
    BY <1>0, <1>1, AwakeStep DEF IInv, LockInv
  <2>2. ~InClusterSynced /\ ~InitialSynced /\ \A v \in Reqs : ~RemoveCluster(v)
    BY <1>0, <2>1 DEF InClusterSynced, InitialSynced, RemoveCluster, Serving
  <2>3. \A w \in Workers : ~AddSynced(w)
    <3>1. SUFFICES ASSUME NEW w \in Workers, AddSynced(w) PROVE FALSE
      OBVIOUS
    <3>2. w = r
      BY <2>1, <3>1 DEF AddSynced, IInv, LockInv
    <3> DEFINE j == [job[r] EXCEPT !.pc = "each", !.cur = NoClient,
                                   !.added = Append(@, Target(r, job[r].cur.name))]
    <3>3. j.pc = "each" /\ job[r].pc = "sync"
      BY <1>0, <3>1, <3>2, JobType DEF AddSynced, Job, JobRecord
    <3>4. Become(r, j)
      BY <3>1, <3>2 DEF AddSynced
    <3> HIDE DEF j
    <3>5. QED
      BY <1>0, <3>3, <3>4, BecomeOne
  <2>4. clusters' = clusters
    BY <2>2, <2>3, MapWriters
  <2>5. QED
    BY <1>1, <2>4 DEF ReportInv, Reported, Connected, Exists
<1>2. CASE job[r].pc \notin {"each", "sync"}
  BY <1>2 DEF ReportInv
<1>3. QED
  BY <1>1, <1>2

\* A step of r itself.
LEMMA ReportStep ==
  ASSUME TypeOK, OpsInv, IInv, ReportInv, NEW r \in Reqs, Step(r)
  PROVE  /\ job'[r].pc # "lock"
         /\ job'[r].pc \in {"each", "sync"} => Reported(r)'
<1>0. r \in Workers /\ job[r] \in Job /\ job[r] \in JobRecord
  BY JobType DEF Workers, Job
<1>1. CASE AcquireLock(r)
  <2> DEFINE j == [job[r] EXCEPT !.pc = "each", !.todo = ContextsOf(job[r].conf)]
  <2>1. j.pc = "each" /\ j.added = job[r].added /\ j.failed = job[r].failed
    BY <1>0 DEF JobRecord
  <2> HIDE DEF j
  <2>2. job'[r] = j
    BY <1>0, <1>1, BecomeOne DEF AcquireLock, j
  <2>3. job[r].added = <<>> /\ job[r].failed = {}
    BY <1>1 DEF AcquireLock, ReportInv
  <2>4. QED
    BY <2>1, <2>2, <2>3 DEF Reported
<1>2. CASE SkipExisting(r)
  <2> DEFINE j(x) == [job[r] EXCEPT !.todo = @ \ {x}]
  <2>1. PICK x : Become(r, j(x))
    BY <1>2 DEF SkipExisting
  <2>2. /\ j(x).pc = job[r].pc /\ j(x).added = job[r].added /\ j(x).failed = job[r].failed
        /\ j(x).conf = job[r].conf
    BY <1>0 DEF JobRecord
  <2> HIDE DEF j
  <2>3. job'[r] = j(x) /\ job[r].pc = "each" /\ clusters' = clusters
    BY <1>0, <1>2, <2>1, BecomeOne DEF SkipExisting, OnlyJobChanges
  <2>4. QED
    BY <2>2, <2>3 DEF ReportInv, Reported, Connected, Exists
<1>3. CASE ConnectFailed(r)
  <2> DEFINE j(x) == [job[r] EXCEPT !.todo = @ \ {x},
                                    !.failed = @ \cup {<<job[r].conf, Target(r, x)>>}]
  <2>1. PICK x : ~Exists(Target(r, x)) /\ Become(r, j(x))
    BY <1>3 DEF ConnectFailed
  <2>2. /\ j(x).pc = job[r].pc /\ j(x).added = job[r].added
        /\ j(x).failed = job[r].failed \cup {<<job[r].conf, Target(r, x)>>}
        /\ j(x).conf = job[r].conf
    BY <1>0 DEF JobRecord
  <2> HIDE DEF j
  <2>3. job'[r] = j(x) /\ job[r].pc = "each" /\ clusters' = clusters
    BY <1>0, <1>3, <2>1, BecomeOne DEF ConnectFailed, OnlyJobChanges
  <2>4. QED
    BY <2>1, <2>2, <2>3 DEF ReportInv, Reported, Connected, Exists
<1>4. CASE Connect(r)
  <2> DEFINE j(x, c) == [job[r] EXCEPT !.pc = "sync", !.todo = @ \ {x},
                                       !.cur = [conn |-> c, name |-> x, conf |-> job[r].conf]]
  <2>1. PICK x, c : Become(r, j(x, c))
    BY <1>4 DEF Connect, StartInformers
  <2>2. /\ j(x, c).pc = "sync" /\ j(x, c).added = job[r].added
        /\ j(x, c).failed = job[r].failed /\ j(x, c).conf = job[r].conf
    BY <1>0 DEF JobRecord
  <2> HIDE DEF j
  <2>3. job'[r] = j(x, c) /\ job[r].pc = "each" /\ clusters' = clusters
    BY <1>0, <1>4, <2>1, BecomeOne DEF Connect
  <2>4. QED
    BY <2>2, <2>3 DEF ReportInv, Reported, Connected, Exists
<1>5. CASE AddSynced(r)
  <2> DEFINE name == Target(r, job[r].cur.name)
             cl == [job[r].cur EXCEPT !.name = name]
             j == [job[r] EXCEPT !.pc = "each", !.cur = NoClient, !.added = Append(@, name)]
  <2>0. job[r].pc = "sync" /\ job[r].cur \in Client
    BY <1>0, <1>5 DEF AddSynced, Job, ConnectingPcs
  <2>1. name \in Names
    BY <1>0, <2>0, TargetType DEF Client
  <2>2. cl # NoClient
    BY <2>0, <2>1, WorkersAssumption DEF Client
  <2>3. /\ j.pc = "each" /\ j.failed = job[r].failed /\ j.conf = job[r].conf
        /\ j.added = Append(job[r].added, name)
    BY <1>0 DEF JobRecord
  <2>4. clusters' = [clusters EXCEPT ![name] = cl]
    BY <1>5 DEF AddSynced
  <2>5. job'[r] = j
    BY <1>0, <1>5, BecomeOne DEF AddSynced
  <2> HIDE DEF name, cl, j
  <2>6. \A n \in Names : n \in Connected' <=> n \in Connected \/ n = name
    <3>1. \A n \in Names : clusters'[n] = IF n = name THEN cl ELSE clusters[n]
      BY <2>1, <2>4 DEF TypeOK
    <3>2. QED
      BY <2>2, <3>1 DEF Connected, Exists
  <2>7. job[r].added \in Seq(Names) /\ Connected' \subseteq Names /\ Reported(r)
    BY <1>0, <2>0 DEF JobRecord, ReportInv, Connected
  <2> DEFINE old == job[r].added
             new == job'[r].added
  <2>8. new = Append(old, name)
    BY <2>3, <2>5
  <2>9. /\ \A i \in DOMAIN old : i \in DOMAIN new /\ new[i] = old[i]
        /\ \A i \in DOMAIN new : new[i] \in Names /\ (i \in DOMAIN old \/ new[i] = name)
        /\ \E i \in DOMAIN new : new[i] = name
    BY <2>1, <2>7, <2>8
  <2>10. \A i \in DOMAIN new : new[i] \in Connected'
    BY <2>6, <2>7, <2>9 DEF Reported, Connected
  <2>11. \A n \in Connected' : <<job'[r].conf, n>> \in job'[r].failed
            => \E i \in DOMAIN new : new[i] = n
    BY <2>3, <2>5, <2>6, <2>7, <2>9 DEF Reported
  <2>12. QED
    BY <2>3, <2>5, <2>10, <2>11 DEF Reported, Connected
<1>6. CASE ReleaseLock(r)
  <2> DEFINE after == [Idle EXCEPT !.pc = "files", !.queue = job[r].queue, !.failed = job[r].failed]
             saved == [Idle EXCEPT !.pc = "save", !.conf = job[r].conf, !.file = SaveName(r)]
  <2>1. after.pc = "files" /\ saved.pc = "save" /\ Idle.pc = "idle"
    BY DEF Idle
  <2>2. PICK j \in {after, saved, Idle} : Become(r, j)
    BY <1>6 DEF ReleaseLock, Proceed
  <2> HIDE DEF after, saved
  <2>3. QED
    BY <1>0, <2>1, <2>2, BecomeOne
<1>7. CASE Handle(r)
  <2> DEFINE j1 == [job[r] EXCEPT !.pc = "write"]
             j2(n) == [Idle EXCEPT !.pc = "use", !.op = "get", !.cur = clusters[n]]
             j3(n) == [job[r] EXCEPT !.todo = @ \ {n},
                                     !.cur = IF Exists(n) THEN clusters[n] ELSE @]
  <2>1. /\ j1.pc = "write" /\ Idle.pc = "idle"
        /\ \A n : j2(n).pc = "use" /\ j3(n).pc = job[r].pc
    BY <1>0 DEF JobRecord, Idle
  <2>2. \/ \E n : Become(r, j1) \/ Become(r, Idle) \/ Become(r, j2(n))
        \/ job[r].pc = "list" /\ \E n : Become(r, j3(n))
    BY <1>7 DEF Handle, SaveTruncate, SaveWrite, SaveFailed, RemoveCluster, GetClient, ListOne,
                ListDone, Answer
  <2> HIDE DEF j1, j2, j3
  <2>3. QED
    BY <1>0, <2>1, <2>2, BecomeOne
<1>8. QED
  BY <1>1, <1>2, <1>3, <1>4, <1>5, <1>6, <1>7 DEF Step, AddClusters

\* A request that asks for the lock has reported nothing yet.
LEMMA ReportArrive ==
  ASSUME TypeOK, NEW r \in Reqs, Arrive(r)
  PROVE  \/ job' = job
         \/ /\ job'[r].pc \notin {"each", "sync"}
            /\ job'[r].pc = "lock" => job'[r].added = <<>> /\ job'[r].failed = {}
<1>0. r \in Workers /\ job[r] \in JobRecord
  BY JobType DEF Workers, Job
<1> DEFINE j1(c, m, f) == [Idle EXCEPT !.pc = "lock", !.op = "upload",
                                       !.conf = c, !.map = m, !.file = f]
           j2(c) == [Idle EXCEPT !.pc = "lock", !.op = "import", !.conf = c]
           j3(pc, op, n) == [Idle EXCEPT !.pc = pc, !.op = op, !.todo = {n}]
           j4 == [job[r] EXCEPT !.pc = "list", !.op = "list", !.todo = Connected]
           blank(j) == j.added = <<>> /\ j.failed = {} /\ j.pc \in {"lock", "read"}
<1>1. /\ \A c, m, f : blank(j1(c, m, f))
      /\ \A c : blank(j2(c))
      /\ \A n : blank(j3("lock", "remove", n)) /\ blank(j3("read", "get", n))
      /\ j4.pc = "list"
  BY <1>0 DEF Idle, JobRecord
<1>2. CASE DeleteStoredKubeconfig(r)
  BY <1>2 DEF DeleteStoredKubeconfig
<1>3. CASE ~DeleteStoredKubeconfig(r)
  <2>1. \/ \E c, m, f : Become(r, j1(c, m, f))
        \/ \E c : Become(r, j2(c))
        \/ \E n : Become(r, j3("lock", "remove", n)) \/ Become(r, j3("read", "get", n))
        \/ Become(r, j4)
    BY <1>3 DEF Arrive, UploadKubeconfig, ImportClustersFromKubeconfig, AskCluster, ListClusters
  <2> HIDE DEF j1, j2, j3, j4
  <2>2. QED
    BY <1>0, <1>1, <2>1, BecomeOne
<1>4. QED
  BY <1>2, <1>3

\* A step belongs to one goroutine and leaves the others' locals alone.
LEMMA StepsApart ==
  ASSUME TypeOK, NEW w \in Workers, Step(w) \/ (w \in Reqs /\ Arrive(w)),
         NEW v \in Workers, v # w
  PROVE  job'[v] = job[v]
<1>0. job \in [Workers -> Job]
  BY DEF TypeOK
<1>1. CASE Step(w)
  BY <1>0, <1>1
  DEF Become, Step, AddClusters, Handle, AcquireLock, SkipExisting, ConnectFailed, Connect,
      StartInformers, AddSynced, ReleaseLock, Proceed, SaveTruncate, SaveWrite, SaveFailed,
      RemoveCluster, GetClient, ListOne, ListDone, Answer
<1>2. CASE Arrive(w)
  BY <1>0, <1>2
  DEF Become, Arrive, UploadKubeconfig, ImportClustersFromKubeconfig, AskCluster, ListClusters,
      DeleteStoredKubeconfig
<1>3. QED
  BY <1>1, <1>2

LEMMA StartUpApart ==
  ASSUME TypeOK, StartUp, NEW v \in Workers, v # Main
  PROVE  job'[v] = job[v]
<1>0. job \in [Workers -> Job]
  BY DEF TypeOK
<1>1. QED
  BY <1>0
  DEF Become, StartUp, NotInCluster, InitInClusterClient, InClusterSynced, InitialConnect,
      StartInformers, InitialFailed, InitialSynced, ReadStoredDir, LoadStoredFile, StartServing

LEMMA ReportNext == ASSUME TypeOK, OpsInv, IInv, ReportInv, [Next]_vars PROVE ReportInv'
<1>1. CASE Crash
  <2>1. \A r \in Reqs : job'[r].pc = "idle"
    BY <1>1, WorkersAssumption DEF Crash, Booted, Workers, Idle
  <2>2. QED
    BY <2>1 DEF ReportInv
<1>2. ASSUME ~Crash, NEW r \in Reqs, job'[r] # job[r]
      PROVE  /\ job'[r].pc = "lock" => job'[r].added = <<>> /\ job'[r].failed = {}
             /\ job'[r].pc \in {"each", "sync"} => Reported(r)'
  <2>0. r \in Workers /\ r # Main
    BY WorkersAssumption DEF Workers
  <2>1. Step(r) \/ Arrive(r)
    <3>1. ~StartUp /\ ~UNCHANGED vars
      BY <1>2, <2>0, StartUpApart DEF vars
    <3>2. \A w \in Workers : Step(w) => w = r
      BY <1>2, <2>0, StepsApart
    <3>3. \A w \in Reqs : Arrive(w) => w = r
      BY <1>2, <2>0, StepsApart DEF Workers
    <3>4. QED
      BY <1>2, <3>1, <3>2, <3>3 DEF Next
  <2>2. QED
    BY <1>2, <2>1, ReportStep, ReportArrive
<1>3. QED
  BY <1>1, <1>2, ReportOthers DEF ReportInv

\* The report of an import is the truth when the lock is released.
THEOREM ReportsAreTrueEver == Spec => ReportsAreTrue
<1> DEFINE Truthful == \A w \in Reqs : lock = w /\ lock' # w /\ restarts' = restarts =>
                     /\ \A i \in DOMAIN job[w].added : Exists(job[w].added[i])
                     /\ \A n \in Connected : <<job[w].conf, n>> \in job[w].failed
                           => \E i \in DOMAIN job[w].added : job[w].added[i] = n
<1>1. Init => ReportInv
  BY WorkersAssumption DEF Init, ReportInv, Booted, Workers, Idle
<1>2. TypeOK /\ OpsInv /\ IInv /\ ReportInv /\ [Next]_vars => ReportInv'
  BY ReportNext
<1>3. IInv /\ ReportInv => Truthful
  BY DEF IInv, LockInv, ReportInv, Reported, Workers
<1>4. QED
  BY <1>1, <1>2, <1>3, Inductive, PTL DEF Spec, ReportsAreTrue
=============================================================================
