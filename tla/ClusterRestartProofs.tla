------------------------ MODULE ClusterRestartProofs ------------------------
(***************************************************************************)
(* What the start of the server makes of the stored kubeconfigs, for every *)
(* value of the constants of ClusterManager.                               *)
(***************************************************************************)
EXTENDS ClusterRefinementProofs

DialPcs == {"start", "home", "dial", "dialing"}
LoadPcs == {"files", "lock", "each", "sync"}

\* Dialled from the in-cluster configuration or from $KUBECONFIG.
FromBoot(c) == c \in {"absent", Initial}

\* Until the stored files are read nothing comes from them.
BootSourceInv ==
    /\ job[Main].pc \in {"start", "home"} => job[Main].conf = "absent"
    /\ job[Main].pc \in {"dial", "dialing"} => job[Main].conf = Initial
    /\ job[Main].pc \in {"home", "dialing"} => FromBoot(job[Main].cur.conf)
    /\ job[Main].pc \in DialPcs => \A n \in Connected : FromBoot(Source(n))

\* The file being loaded comes before those that are left, and is what the
\* clients are dialled from.
FileInv ==
    /\ job[Main].pc \in AddPcs =>
         /\ job[Main].file \in Files
         /\ job[Main].conf = stored[job[Main].file]
         /\ \A g \in job[Main].queue : job[Main].file < g
    /\ job[Main].pc = "sync" => job[Main].cur.conf = job[Main].conf

\* File g has been loaded, or is being loaded.
Reached(g) ==
    /\ \A h \in job[Main].queue : g < h
    /\ job[Main].pc # "files" => g <= job[Main].file

\* Every entry comes from the boot or from a file that has been reached.
OriginInv ==
    job[Main].pc \in LoadPcs =>
        \A n \in Connected : \/ FromBoot(Source(n))
                             \/ \E g \in Files : Source(n) = stored[g] /\ Reached(g)

\* The context x of file f is still to be dealt with.
Pending(f, x) ==
    \/ f \in job[Main].queue
    \/ /\ f = job[Main].file
       /\ \/ job[Main].pc = "lock"
          \/ job[Main].pc \in {"each", "sync"} /\ x \in job[Main].todo
          \/ job[Main].pc = "sync" /\ x = job[Main].cur.name

Settled(f, x) ==
    \/ <<stored[f], x>> \in job[Main].failed
    \/ Exists(x) /\ (Source(x) = stored[f] \/ TakenBefore(f, x))

\* While main() loads the stored files, every context of each of them is still
\* to come or settled.
RestoreInv ==
    job[Main].pc \in LoadPcs =>
        \A f \in Files : \A x \in ContextsOf(stored[f]) : Pending(f, x) \/ Settled(f, x)

LoadInv == BootSourceInv /\ FileInv /\ OriginInv /\ RestoreInv
-----------------------------------------------------------------------------
LEMMA MainType == TypeOK => Main \in Workers /\ job[Main] \in Job /\ job[Main] \in JobRecord
  BY JobType DEF Workers, Job

LEMMA FilesOrder == \A g, h \in Files : g <= g /\ (g <= h <=> g < h \/ g = h)
  BY FilesAssumption

\* An entry that is there stays as it is, so what is settled stays settled.
LEMMA SettledStays ==
  ASSUME stored' = stored, NEW f \in Files, NEW x \in Names, Settled(f, x),
         Exists(x) => clusters'[x] = clusters[x],
         job[Main].failed \subseteq job'[Main].failed
  PROVE  Settled(f, x)'
  BY DEF Settled, Exists, Source, TakenBefore

\* A step of the loading that registers nothing keeps the origins.
LEMMA OriginStays ==
  ASSUME OriginInv, UNCHANGED <<stored, clusters>>, job[Main].pc \in LoadPcs,
         \A g \in Files : Reached(g) => Reached(g)'
  PROVE  OriginInv'
<1>1. Connected' = Connected /\ \A n : Source(n)' = Source(n)
  BY DEF Connected, Exists, Source
<1>2. QED
  BY <1>1 DEF OriginInv

LEMMA MainDials ==
  ASSUME TypeOK, NEW x, NEW c, NEW pc, StartInformers(Main, x, c, pc)
  PROVE  /\ job'[Main].pc = pc
         /\ job'[Main].todo = job[Main].todo \ {x}
         /\ job'[Main].cur.name = x
         /\ job'[Main].cur.conf = job[Main].conf
         /\ job'[Main].conf = job[Main].conf
         /\ job'[Main].queue = job[Main].queue
         /\ job'[Main].file = job[Main].file
         /\ job'[Main].failed = job[Main].failed
<1> DEFINE j == [job[Main] EXCEPT !.pc = pc, !.todo = @ \ {x},
                                  !.cur = [conn |-> c, name |-> x, conf |-> job[Main].conf]]
<1>1. /\ j.pc = pc /\ j.todo = job[Main].todo \ {x}
      /\ j.cur.name = x /\ j.cur.conf = job[Main].conf /\ j.conf = job[Main].conf
      /\ j.queue = job[Main].queue /\ j.file = job[Main].file /\ j.failed = job[Main].failed
  BY MainType DEF JobRecord
<1>2. Become(Main, j)
  BY DEF StartInformers
<1> HIDE DEF j
<1>3. QED
  BY <1>1, <1>2, MainType, BecomeOne

-----------------------------------------------------------------------------
\* Up to the stored files, everything comes from the boot.
LEMMA LoadBoot ==
  ASSUME TypeOK, LoadInv,
         NotInCluster \/ InitInClusterClient \/ InClusterSynced \/ InitialConnect
             \/ InitialFailed \/ InitialSynced
  PROVE  LoadInv' /\ ~Serving'
<1>0. Main \in Workers /\ job[Main] \in JobRecord /\ job[Main] \in Job
  BY MainType
<1>a. job[Main].pc \in DialPcs
  BY DEF NotInCluster, InitInClusterClient, InClusterSynced, InitialConnect, InitialFailed,
         InitialSynced, DialPcs
<1>1. SUFFICES /\ job'[Main].pc \in DialPcs
               /\ BootSourceInv'
  BY DEF LoadInv, FileInv, OriginInv, RestoreInv, DialPcs, LoadPcs, AddPcs, Serving
<1>2. CASE InitInClusterClient
  <2>1. PICK c : StartInformers(Main, Default, c, "home")
    BY <1>2 DEF InitInClusterClient
  <2>2. clusters' = clusters /\ job[Main].pc = "start"
    BY <1>2 DEF InitInClusterClient
  <2>3. job'[Main].pc = "home" /\ job'[Main].conf = job[Main].conf
        /\ job'[Main].cur.conf = job[Main].conf
    BY <2>1, MainDials
  <2>4. QED
    BY <2>2, <2>3 DEF LoadInv, BootSourceInv, DialPcs, Connected, Exists, Source, FromBoot
<1>3. CASE InitialConnect
  <2>1. PICK x, c : StartInformers(Main, x, c, "dialing")
    BY <1>3 DEF InitialConnect
  <2>2. clusters' = clusters /\ job[Main].pc = "dial"
    BY <1>3 DEF InitialConnect
  <2>3. job'[Main].pc = "dialing" /\ job'[Main].conf = job[Main].conf
        /\ job'[Main].cur.conf = job[Main].conf
    BY <2>1, MainDials
  <2>4. QED
    BY <2>2, <2>3 DEF LoadInv, BootSourceInv, DialPcs, Connected, Exists, Source, FromBoot
<1>4. CASE NotInCluster \/ InitialFailed
  <2> DEFINE j1 == [job[Main] EXCEPT !.pc = "dial", !.conf = Initial, !.todo = InitialContexts]
             j2(x) == [job[Main] EXCEPT !.todo = @ \ {x}]
  <2>1. j1.pc = "dial" /\ j1.conf = Initial
    BY <1>0 DEF JobRecord
  <2>2. \A x : j2(x).pc = job[Main].pc /\ j2(x).conf = job[Main].conf
    BY <1>0 DEF JobRecord
  <2>3. \/ Become(Main, j1)
        \/ job[Main].pc = "dial" /\ \E x : Become(Main, j2(x))
    BY <1>4 DEF NotInCluster, InitialFailed
  <2>4. clusters' = clusters
    BY <1>4 DEF NotInCluster, InitialFailed, OnlyJobChanges
  <2> HIDE DEF j1, j2
  <2>5. job'[Main].pc = "dial" /\ job'[Main].conf = Initial
    BY <1>0, <2>1, <2>2, <2>3, BecomeOne DEF LoadInv, BootSourceInv
  <2>6. QED
    BY <1>a, <2>4, <2>5 DEF LoadInv, BootSourceInv, DialPcs, Connected, Exists, Source
<1>5. CASE InClusterSynced \/ InitialSynced
  <2> DEFINE j1 == [job[Main] EXCEPT !.pc = "dial", !.conf = Initial, !.cur = NoClient,
                                     !.todo = InitialContexts]
             j2 == [job[Main] EXCEPT !.pc = "dial", !.cur = NoClient]
  <2>1. j1.pc = "dial" /\ j1.conf = Initial /\ j2.pc = "dial" /\ j2.conf = job[Main].conf
    BY <1>0 DEF JobRecord
  <2>2. Become(Main, j1) \/ (job[Main].pc = "dialing" /\ Become(Main, j2))
    BY <1>5 DEF InClusterSynced, InitialSynced
  <2>3. PICK k : clusters' = [clusters EXCEPT ![k] = job[Main].cur]
    BY <1>5 DEF InClusterSynced, InitialSynced
  <2>4. job[Main].pc \in {"home", "dialing"}
    BY <1>5 DEF InClusterSynced, InitialSynced
  <2> HIDE DEF j1, j2
  <2>5. job'[Main].pc = "dial" /\ job'[Main].conf = Initial
    BY <1>0, <2>1, <2>2, BecomeOne DEF LoadInv, BootSourceInv
  <2>6. \A n \in Names : clusters'[n] \in {clusters[n], job[Main].cur}
    BY <2>3 DEF TypeOK
  <2>7. \A n \in Connected' : FromBoot(clusters'[n].conf)
    BY <1>a, <2>4, <2>6 DEF Connected, Exists, LoadInv, BootSourceInv, Source
  <2>8. QED
    BY <2>5, <2>7 DEF BootSourceInv, Source, DialPcs
<1>6. QED
  BY <1>2, <1>3, <1>4, <1>5

\* Reading the directory and taking up the next file.
LEMMA LoadFiles ==
  ASSUME TypeOK, LoadInv, ReadStoredDir \/ LoadStoredFile
  PROVE  LoadInv' /\ ~Serving'
<1>0. Main \in Workers /\ job[Main] \in JobRecord /\ job[Main] \in Job
  BY MainType
<1>a. UNCHANGED <<stored, clusters>>
  BY DEF ReadStoredDir, LoadStoredFile, OnlyJobChanges
<1>b. Connected' = Connected /\ \A n : Source(n)' = Source(n)
  BY <1>a DEF Connected, Exists, Source
<1>1. CASE ReadStoredDir
  <2> DEFINE j == [job[Main] EXCEPT !.pc = "files", !.queue = {f \in Files : stored[f] # "absent"}]
  <2>1. j.pc = "files" /\ j.queue = {f \in Files : stored[f] # "absent"}
    BY <1>0 DEF JobRecord
  <2> HIDE DEF j
  <2>2. job'[Main] = j /\ job[Main].pc = "dial"
    BY <1>0, <1>1, BecomeOne DEF ReadStoredDir, j
  <2>3. ContextsOf("absent") = {}
    BY FilesAssumption DEF ContextsOf
  <2>4. RestoreInv'
    BY <1>a, <2>1, <2>2, <2>3 DEF RestoreInv, Pending
  <2>5. OriginInv'
    BY <1>b, <2>2 DEF OriginInv, LoadInv, BootSourceInv, DialPcs
  <2>6. BootSourceInv' /\ FileInv' /\ ~Serving'
    BY <2>1, <2>2 DEF BootSourceInv, FileInv, DialPcs, AddPcs, Serving
  <2>7. QED
    BY <2>4, <2>5, <2>6 DEF LoadInv
<1>2. CASE LoadStoredFile
  <2> DEFINE j(g) == [job[Main] EXCEPT
                        !.queue = @ \ {g}, !.file = g, !.op = "load", !.conf = stored[g],
                        !.pc = IF stored[g] = "garbled" THEN "files" ELSE "lock"]
  <2>1. PICK g \in job[Main].queue : Become(Main, j(g)) /\ \A h \in job[Main].queue : g <= h
    BY <1>2 DEF LoadStoredFile
  <2>2. /\ j(g).queue = job[Main].queue \ {g} /\ j(g).failed = job[Main].failed
        /\ j(g).conf = stored[g] /\ j(g).file = g
        /\ j(g).pc = IF stored[g] = "garbled" THEN "files" ELSE "lock"
    BY <1>0 DEF JobRecord
  <2> HIDE DEF j
  <2>3. job'[Main] = j(g) /\ job[Main].pc = "files"
    BY <1>0, <1>2, <2>1, BecomeOne DEF LoadStoredFile
  <2>4. ContextsOf("garbled") = {}
    BY FilesAssumption DEF ContextsOf
  <2>5. job[Main].queue \subseteq Files /\ \A h \in job[Main].queue \ {g} : g < h
    BY <1>0, <2>1, FilesOrder DEF JobRecord
  <2>6. BootSourceInv' /\ FileInv' /\ ~Serving'
    BY <1>a, <2>1, <2>2, <2>3, <2>5 DEF BootSourceInv, FileInv, DialPcs, AddPcs, Serving
  <2>7. OriginInv'
    <3>1. \A h \in Files : Reached(h) => Reached(h)'
      BY <2>1, <2>2, <2>3, <2>5, FilesOrder DEF Reached
    <3>2. QED
      BY <1>a, <2>3, <3>1, OriginStays DEF LoadInv, LoadPcs
  <2>8. ASSUME NEW f \in Files, NEW x \in ContextsOf(stored[f])
        PROVE  Pending(f, x)' \/ Settled(f, x)'
    <3>1. f \in job[Main].queue \/ Settled(f, x)
      BY <2>3 DEF LoadInv, RestoreInv, LoadPcs, Pending
    <3>2. CASE Settled(f, x)
      <4>1. x \in Names /\ job'[Main].failed = job[Main].failed
        BY <2>2, <2>3, ContextsType
      <4>2. QED
        BY <1>a, <3>2, <4>1, SettledStays
    <3>3. CASE f \in job[Main].queue /\ f # g
      BY <2>2, <2>3, <3>3 DEF Pending
    <3>4. CASE f = g
      BY <2>2, <2>3, <2>4, <3>4 DEF Pending
    <3>5. QED
      BY <3>1, <3>2, <3>3, <3>4
  <2>9. QED
    BY <1>a, <2>6, <2>7, <2>8 DEF LoadInv, RestoreInv
<1>3. QED
  BY <1>1, <1>2

-----------------------------------------------------------------------------
\* What main() does in the range over the contexts of one file.
LEMMA RestoreLoop ==
  ASSUME TypeOK, OpsInv, IInv, LoadInv, Step(Main)
  PROVE  LoadInv' /\ ~Serving'
<1>0. Main \in Workers /\ Main \notin Reqs /\ job[Main] \in Job /\ job[Main] \in JobRecord
  BY MainType, WorkersAssumption
<1>a. \A f : ContextsOf(stored[f]) \subseteq Names
  BY ContextsType
<1>1. CASE AcquireLock(Main)
  <2> DEFINE j == [job[Main] EXCEPT !.pc = "each", !.todo = ContextsOf(job[Main].conf)]
  <2>1. /\ j.pc = "each" /\ j.todo = ContextsOf(job[Main].conf)
        /\ j.queue = job[Main].queue /\ j.failed = job[Main].failed
        /\ j.conf = job[Main].conf /\ j.file = job[Main].file
    BY <1>0 DEF JobRecord
  <2>2. Become(Main, j) /\ job[Main].pc = "lock" /\ UNCHANGED <<stored, clusters>>
    BY <1>1 DEF AcquireLock
  <2> HIDE DEF j
  <2>3. job'[Main] = j
    BY <1>0, <2>2, BecomeOne
  <2>4. BootSourceInv' /\ FileInv' /\ ~Serving'
    BY <2>1, <2>2, <2>3 DEF LoadInv, BootSourceInv, FileInv, DialPcs, AddPcs, Serving
  <2>5. OriginInv'
    BY <2>1, <2>2, <2>3, OriginStays DEF LoadInv, LoadPcs, Reached
  <2>6. ASSUME NEW f \in Files, NEW x \in ContextsOf(stored[f])
        PROVE  Pending(f, x)' \/ Settled(f, x)'
    <3>1. Pending(f, x) \/ Settled(f, x)
      BY <2>2 DEF LoadInv, RestoreInv, LoadPcs
    <3>2. CASE Settled(f, x)
      BY <1>a, <2>1, <2>2, <2>3, <3>2, SettledStays
    <3>3. CASE Pending(f, x)
      BY <2>1, <2>2, <2>3, <3>3 DEF Pending, LoadInv, FileInv, AddPcs
    <3>4. QED
      BY <3>1, <3>2, <3>3
  <2>7. QED
    BY <2>2, <2>4, <2>5, <2>6 DEF LoadInv, RestoreInv
<1>2. CASE SkipExisting(Main) \/ ConnectFailed(Main)
  <2> DEFINE tried(x) == <<job[Main].conf, Target(Main, x)>>
             j1(x) == [job[Main] EXCEPT !.todo = @ \ {x}]
             j2(x) == [job[Main] EXCEPT !.todo = @ \ {x}, !.failed = @ \cup {tried(x)}]
  <2>1. PICK y \in job[Main].todo : \/ Exists(Target(Main, y)) /\ Become(Main, j1(y))
                                    \/ Become(Main, j2(y))
    BY <1>2 DEF SkipExisting, ConnectFailed
  <2>2. /\ j1(y).pc = job[Main].pc /\ j1(y).todo = job[Main].todo \ {y}
        /\ j1(y).queue = job[Main].queue /\ j1(y).failed = job[Main].failed
        /\ j1(y).conf = job[Main].conf /\ j1(y).file = job[Main].file
        /\ j2(y).pc = job[Main].pc /\ j2(y).todo = job[Main].todo \ {y}
        /\ j2(y).conf = job[Main].conf /\ j2(y).file = job[Main].file
        /\ j2(y).queue = job[Main].queue
        /\ j2(y).failed = job[Main].failed \cup {tried(y)}
    BY <1>0 DEF JobRecord
  <2> HIDE DEF j1, j2
  <2>3. job[Main].pc = "each" /\ UNCHANGED <<stored, clusters>>
    BY <1>2 DEF SkipExisting, ConnectFailed, OnlyJobChanges
  <2>4. Target(Main, y) = y /\ y \in Names
    BY <1>0, <2>1 DEF Target, IInv, RolesInv, Identity, JobRecord
  <2>5. job'[Main] = j1(y) \/ job'[Main] = j2(y)
    BY <1>0, <2>1, BecomeOne
  <2>6. /\ job'[Main].pc = "each" /\ job'[Main].queue = job[Main].queue
        /\ job'[Main].todo = job[Main].todo \ {y}
        /\ job'[Main].conf = job[Main].conf /\ job'[Main].file = job[Main].file
        /\ job[Main].failed \subseteq job'[Main].failed
    BY <2>2, <2>3, <2>5
  <2>7. /\ job[Main].file \in Files /\ job[Main].conf = stored[job[Main].file]
    BY <2>3 DEF LoadInv, FileInv, AddPcs
  <2>8. Settled(job[Main].file, y)'
    <3>1. CASE Exists(y) /\ Become(Main, j1(y))
      <4>1. y \in Connected
        BY <2>4, <3>1 DEF Connected
      <4>2. \/ FromBoot(Source(y))
            \/ \E g \in Files : Source(y) = stored[g] /\ g <= job[Main].file
        BY <2>3, <4>1 DEF LoadInv, OriginInv, LoadPcs, Reached
      <4>3. Source(y) = stored[job[Main].file] \/ TakenBefore(job[Main].file, y)
        BY <2>7, <4>2, FilesOrder DEF TakenBefore, FromBoot
      <4>4. Settled(job[Main].file, y)
        BY <3>1, <4>3 DEF Settled
      <4>5. QED
        <5> DEFINE f == job[Main].file
        <5>1. f' = f
          BY <2>6
        <5> HIDE DEF f
        <5>2. f \in Files /\ Settled(f, y)
          BY <2>7, <4>4 DEF f
        <5>3. Settled(f, y)'
          <6>1. stored' = stored /\ clusters' = clusters
            BY <2>3
          <6>2. QED
            BY <2>6, <5>1, <5>2, <6>1 DEF Settled, Exists, Source, TakenBefore
        <5>4. QED
          BY <5>3 DEF f
    <3>2. CASE Become(Main, j2(y))
      <4>1. job'[Main] = j2(y)
        BY <1>0, <3>2, BecomeOne
      <4>2. <<stored[job[Main].file], y>> \in job'[Main].failed
        BY <2>2, <2>4, <2>7, <4>1
      <4>3. QED
        BY <2>3, <2>6, <4>2 DEF Settled
    <3>3. QED
      BY <2>1, <2>4, <3>1, <3>2
  <2>9. BootSourceInv' /\ FileInv' /\ ~Serving'
    BY <2>3, <2>6 DEF LoadInv, BootSourceInv, FileInv, DialPcs, AddPcs, Serving
  <2>10. OriginInv'
    BY <2>3, <2>6, OriginStays DEF LoadInv, LoadPcs, Reached
  <2>11. ASSUME NEW f \in Files, NEW x \in ContextsOf(stored[f])
         PROVE  Pending(f, x)' \/ Settled(f, x)'
    <3>1. Pending(f, x) \/ Settled(f, x)
      BY <2>3 DEF LoadInv, RestoreInv, LoadPcs
    <3>2. CASE Settled(f, x)
      BY <1>a, <2>3, <2>6, <3>2, SettledStays
    <3>3. CASE Pending(f, x) /\ f = job[Main].file /\ x = y
      BY <2>6, <2>8, <3>3
    <3>4. CASE Pending(f, x) /\ ~(f = job[Main].file /\ x = y)
      BY <2>3, <2>6, <3>4 DEF Pending
    <3>5. QED
      BY <3>1, <3>2, <3>3, <3>4
  <2>12. QED
    BY <2>3, <2>9, <2>10, <2>11 DEF LoadInv, RestoreInv
<1>3. CASE Connect(Main)
  <2>1. PICK y, c : StartInformers(Main, y, c, "sync")
    BY <1>3 DEF Connect
  <2>2. job[Main].pc = "each" /\ UNCHANGED <<stored, clusters>>
    BY <1>3 DEF Connect
  <2>3. /\ job'[Main].pc = "sync" /\ job'[Main].todo = job[Main].todo \ {y}
        /\ job'[Main].cur.name = y /\ job'[Main].cur.conf = job[Main].conf
        /\ job'[Main].conf = job[Main].conf /\ job'[Main].queue = job[Main].queue
        /\ job'[Main].file = job[Main].file /\ job'[Main].failed = job[Main].failed
    BY <2>1, MainDials
  <2>4. BootSourceInv' /\ FileInv' /\ ~Serving'
    BY <2>2, <2>3 DEF LoadInv, BootSourceInv, FileInv, DialPcs, AddPcs, Serving
  <2>5. OriginInv'
    BY <2>2, <2>3, OriginStays DEF LoadInv, LoadPcs, Reached
  <2>6. ASSUME NEW f \in Files, NEW x \in ContextsOf(stored[f])
        PROVE  Pending(f, x)' \/ Settled(f, x)'
    <3>1. Pending(f, x) \/ Settled(f, x)
      BY <2>2 DEF LoadInv, RestoreInv, LoadPcs
    <3>2. CASE Settled(f, x)
      BY <1>a, <2>2, <2>3, <3>2, SettledStays
    <3>3. CASE Pending(f, x)
      BY <2>2, <2>3, <3>3 DEF Pending
    <3>4. QED
      BY <3>1, <3>2, <3>3
  <2>7. QED
    BY <2>2, <2>4, <2>5, <2>6 DEF LoadInv, RestoreInv
<1>4. CASE AddSynced(Main)
  <2> DEFINE name == Target(Main, job[Main].cur.name)
             cl == [job[Main].cur EXCEPT !.name = name]
             j == [job[Main] EXCEPT !.pc = "each", !.cur = NoClient, !.added = Append(@, name)]
  <2>0. job[Main].pc = "sync" /\ job[Main].cur \in Client
    BY <1>0, <1>4 DEF AddSynced, Job, ConnectingPcs
  <2>1. name = job[Main].cur.name /\ name \in Names
    BY <1>0, <2>0 DEF Target, IInv, RolesInv, Identity, Client
  <2>2. cl # NoClient /\ cl.conf = job[Main].conf
    BY <2>0, <2>1, WorkersAssumption DEF Client, LoadInv, FileInv
  <2>3. /\ j.pc = "each" /\ j.failed = job[Main].failed /\ j.queue = job[Main].queue
        /\ j.todo = job[Main].todo /\ j.conf = job[Main].conf /\ j.file = job[Main].file
    BY <1>0 DEF JobRecord
  <2>4. clusters' = [clusters EXCEPT ![name] = cl] /\ stored' = stored
    BY <1>4 DEF AddSynced
  <2>5. job'[Main] = j
    BY <1>0, <1>4, BecomeOne DEF AddSynced
  <2>a. ~Exists(name)
    BY <1>0, <2>0 DEF IInv, ConnectingInv, Connecting, ConnectingPcs
  <2> HIDE DEF name, cl, j
  <2>6. \A n \in Names : clusters'[n] = IF n = name THEN cl ELSE clusters[n]
    BY <2>1, <2>4 DEF TypeOK
  <2>7. /\ job[Main].file \in Files /\ job[Main].conf = stored[job[Main].file]
        /\ \A g \in job[Main].queue : job[Main].file < g
    BY <2>0 DEF LoadInv, FileInv, AddPcs
  <2>8. BootSourceInv' /\ FileInv' /\ ~Serving'
    BY <2>3, <2>4, <2>5, <2>7 DEF BootSourceInv, FileInv, DialPcs, AddPcs, Serving
  <2>9. OriginInv'
    <3>1. \A g \in Files : Reached(g) => Reached(g)'
      BY <2>0, <2>3, <2>5 DEF Reached
    <3> DEFINE f == job[Main].file
    <3>2. Reached(f)
      BY <2>7, FilesOrder DEF Reached
    <3>3. f \in Files /\ cl.conf = stored[f]
      BY <2>2, <2>7
    <3> HIDE DEF f
    <3>4. ASSUME NEW n \in Connected'
          PROVE  \/ FromBoot(clusters'[n].conf)
                 \/ \E g \in Files : clusters'[n].conf = stored[g] /\ Reached(g)
      <4>1. n \in Names /\ (n # name => n \in Connected)
        BY <2>6 DEF Connected, Exists
      <4>2. CASE n = name
        BY <2>6, <3>2, <3>3, <4>1, <4>2
      <4>3. CASE n # name
        BY <2>0, <2>6, <4>1, <4>3 DEF LoadInv, OriginInv, LoadPcs, Source
      <4>4. QED
        BY <4>2, <4>3
    <3>5. QED
      BY <2>4, <3>1, <3>4 DEF OriginInv, Source
  <2>10. ASSUME NEW f \in Files, NEW x \in ContextsOf(stored[f])
         PROVE  Pending(f, x)' \/ Settled(f, x)'
    <3>1. x \in Names
      BY <1>a
    <3>2. Pending(f, x) \/ Settled(f, x)
      BY <2>0 DEF LoadInv, RestoreInv, LoadPcs
    <3>3. CASE Settled(f, x)
      BY <2>3, <2>4, <2>5, <2>6, <2>a, <3>1, <3>3, SettledStays
    <3>4. CASE f = job[Main].file /\ x = name
      BY <2>2, <2>4, <2>6, <2>7, <3>1, <3>4 DEF Settled, Exists, Source
    <3>5. CASE Pending(f, x) /\ ~(f = job[Main].file /\ x = name)
      BY <2>0, <2>1, <2>3, <2>5, <3>5 DEF Pending
    <3>6. QED
      BY <3>2, <3>3, <3>4, <3>5
  <2>11. QED
    BY <2>4, <2>8, <2>9, <2>10 DEF LoadInv, RestoreInv
<1>5. CASE ReleaseLock(Main)
  <2> DEFINE j == [Idle EXCEPT !.pc = "files", !.queue = job[Main].queue,
                               !.failed = job[Main].failed]
  <2>1. job[Main].pc = "each" /\ job[Main].todo = {} /\ UNCHANGED <<stored, clusters>>
    BY <1>5 DEF ReleaseLock
  <2>2. job[Main].op = "load"
    BY <2>1 DEF OpsInv, AddPcs
  <2>3. Become(Main, j)
    BY <1>5, <2>2 DEF ReleaseLock, Proceed
  <2>4. j.pc = "files" /\ j.queue = job[Main].queue /\ j.failed = job[Main].failed
    BY DEF Idle
  <2> HIDE DEF j
  <2>5. job'[Main] = j
    BY <1>0, <2>3, BecomeOne
  <2>6. BootSourceInv' /\ FileInv' /\ ~Serving'
    BY <2>4, <2>5 DEF BootSourceInv, FileInv, DialPcs, AddPcs, Serving
  <2>7. OriginInv'
    BY <2>1, <2>4, <2>5, OriginStays DEF LoadInv, LoadPcs, Reached
  <2>8. ASSUME NEW f \in Files, NEW x \in ContextsOf(stored[f])
        PROVE  Pending(f, x)' \/ Settled(f, x)'
    <3>1. f \in job[Main].queue \/ Settled(f, x)
      BY <2>1 DEF LoadInv, RestoreInv, LoadPcs, Pending
    <3>2. QED
      BY <1>a, <2>1, <2>4, <2>5, <3>1, SettledStays DEF Pending
  <2>9. QED
    BY <2>1, <2>6, <2>7, <2>8 DEF LoadInv, RestoreInv
<1>6. QED
  BY <1>0, <1>1, <1>2, <1>3, <1>4, <1>5 DEF Step, AddClusters

\* A request has something to do only while the server is open, and nothing
\* of what it does is a step of main().
LEMMA RequestsLater ==
  ASSUME TypeOK, IInv, NEW r \in Reqs, Step(r) \/ Arrive(r)
  PROVE  Serving /\ job'[Main] = job[Main]
<1>0. r \in Workers /\ Main \in Workers /\ r # Main
  BY WorkersAssumption DEF Workers
<1>1. job'[Main] = job[Main]
  BY <1>0, StepsApart
<1>2. CASE Arrive(r)
  <2>1. CASE DeleteStoredKubeconfig(r)
    BY <1>1, <2>1 DEF DeleteStoredKubeconfig
  <2>2. QED
    BY <1>1, <1>2, <2>1 DEF Arrive, UploadKubeconfig, ImportClustersFromKubeconfig, AskCluster,
                      ListClusters
<1>3. CASE Step(r)
  <2>1. job[r].pc # "idle"
    BY <1>3 DEF Step, AddClusters, Handle, AcquireLock, SkipExisting, ConnectFailed, Connect,
                AddSynced, ReleaseLock, SaveTruncate, SaveWrite, SaveFailed, RemoveCluster,
                GetClient, ListOne, ListDone, Answer
  <2>2. QED
    BY <1>1, <2>1 DEF IInv, RolesInv
<1>4. QED
  BY <1>1, <1>2, <1>3

LEMMA LoadNext == ASSUME TypeOK, OpsInv, IInv, LoadInv, [Next]_vars PROVE LoadInv'
<1>1. CASE Crash \/ StartServing
  <2>1. \/ job'[Main].pc = "start" /\ job'[Main].conf = "absent" /\ Connected' = {}
        \/ job'[Main].pc = "serve"
    <3>1. CASE Crash
      BY <3>1 DEF Crash, Booted, Workers, Idle, Connected, Exists
    <3>2. CASE StartServing
      <4> DEFINE j == [Idle EXCEPT !.pc = "serve"]
      <4>1. j.pc = "serve" /\ Become(Main, j)
        BY <3>2 DEF StartServing, Idle
      <4> HIDE DEF j
      <4>2. QED
        BY <4>1, MainType, BecomeOne
    <3>3. QED
      BY <1>1, <3>1, <3>2
  <2>2. QED
    BY <2>1 DEF LoadInv, BootSourceInv, FileInv, OriginInv, RestoreInv, LoadPcs, DialPcs, AddPcs
<1>2. CASE UNCHANGED vars
  BY <1>2 DEF vars, LoadInv, BootSourceInv, FileInv, OriginInv, RestoreInv, Pending, Settled,
              Reached, Source, TakenBefore, Connected, Exists
<1>3. ASSUME NEW r \in Reqs, Step(r) \/ Arrive(r) PROVE LoadInv'
  <2>1. job'[Main].pc = "serve"
    BY <1>3, RequestsLater DEF Serving
  <2>2. QED
    BY <2>1 DEF LoadInv, BootSourceInv, FileInv, OriginInv, RestoreInv, LoadPcs, DialPcs, AddPcs
<1>4. QED
  BY <1>1, <1>2, <1>3, LoadBoot, LoadFiles, RestoreLoop DEF Next, StartUp, Workers

\* When the server opens, each context of each stored kubeconfig is connected
\* from that kubeconfig, unless dialling it has just failed or its name was
\* taken before, by the in-cluster connection, $KUBECONFIG or an earlier file:
\* LoadStoredKubeconfigs and the loop of AddClustersFromKubeconfig leave out
\* nothing else, and put no client in the place of another one.
THEOREM RestartRestoresStoredEver == Spec => RestartRestoresStored
<1> DEFINE Restored == ~Serving /\ Serving' =>
              \A f \in Files : \A x \in ContextsOf(stored[f]) :
                 \/ <<stored[f], x>> \in job[Main].failed
                 \/ Exists(x) /\ (Source(x) = stored[f] \/ TakenBefore(f, x))
<1>1. Init => LoadInv
  BY DEF Init, LoadInv, BootSourceInv, FileInv, OriginInv, RestoreInv, Booted, Workers, Idle,
         LoadPcs, DialPcs, AddPcs, Connected, Exists
<1>2. TypeOK /\ OpsInv /\ IInv /\ LoadInv /\ [Next]_vars => LoadInv'
  BY LoadNext
<1>3. TypeOK /\ OpsInv /\ IInv /\ LoadInv /\ [Next]_vars => Restored
  <2> SUFFICES ASSUME TypeOK, OpsInv, IInv, LoadInv, [Next]_vars, ~Serving, Serving'
               PROVE  StartServing
    BY DEF StartServing, LoadInv, RestoreInv, LoadPcs, Pending, Settled
  <2>1. ~UNCHANGED vars
    BY DEF vars, Serving
  <2>2. ~Crash
    BY DEF Crash, Booted, Workers, Idle, Serving
  <2>3. \A r \in Reqs : ~(Step(r) \/ Arrive(r))
    BY RequestsLater
  <2>4. QED
    BY <2>1, <2>2, <2>3, LoadBoot, LoadFiles, RestoreLoop DEF Next, StartUp, Workers
<1>4. QED
  BY <1>1, <1>2, <1>3, Inductive, PTL DEF Spec, RestartRestoresStored
=============================================================================
