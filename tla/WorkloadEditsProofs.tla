------------------------ MODULE WorkloadEditsProofs -------------------------
(***************************************************************************)
(* Theorems about WorkloadEdits, for every value of its constants.         *)
(***************************************************************************)
EXTENDS WorkloadEdits, TLAPS

-----------------------------------------------------------------------------
LEMMA ApplyType ==
  ASSUME NEW c \in Content, NEW a \in Changes
  PROVE  Apply(c, a) \in Content
BY DEF Apply, Content, Changes

LEMMA WishType ==
  ASSUME NEW v \in Values, NEW f \in Fields
  PROVE  [Nothing EXCEPT ![f] = v] \in Changes
BY DEF Nothing, Changes

LEMMA PlainType == /\ Plain \in Content
                   /\ \A n \in Nat, v \in Values : New(n, v) \in Stored /\ New(n, v).rv = n
<1>1. Plain \in Content
  BY ValuesAssumption DEF Plain, Content
<1>2. \A v \in Values : [Plain EXCEPT !["owner"] = v] \in Content
  BY <1>1 DEF Content
<1>3. QED
  BY <1>1, <1>2 DEF New, Stored

LEMMA GoneApart == Gone \notin Changes
BY NamesAssumption DEF Changes

LEMMA AbsentApart == Absent \notin Stored /\ Absent \notin Content
BY NamesAssumption DEF Stored, Content

LEMMA Working ==
  ASSUME TypeOK, NEW u \in Users
  PROVE  /\ job[u] = Idle \/ job[u] \in Job
         /\ job[u].pc \in {"read", "write"} => job[u] \in Job
         /\ job[u] \in Job => job[u] # Idle
<1>1. job[u] \in Job \cup {Idle}
  BY DEF TypeOK
<1>2. Idle.pc = "idle"
  BY DEF Idle
<1>3. \A j \in Job : j.pc \in {"read", "write"}
  BY DEF Job
<1>4. QED
  BY <1>1, <1>2, <1>3

LEMMA Touched ==
  ASSUME TypeOK, NEW o \in Objects, NEW u \in Users
  PROVE  /\ job[u] = Idle => Touch(o)[u] = Idle
         /\ job[u] # Idle => /\ Touch(o)[u] \in Job
                             /\ Touch(o)[u].pc = job[u].pc
                             /\ Touch(o)[u].op = job[u].op
                             /\ Touch(o)[u].obj = job[u].obj
                             /\ Touch(o)[u].ask = job[u].ask
                             /\ Touch(o)[u].rv = job[u].rv
                             /\ Touch(o)[u].copy = job[u].copy
                             /\ Touch(o)[u].touched <=> (job[u].obj = o \/ job[u].touched)
<1>1. Touch(o)[u] = IF job[u] # Idle /\ job[u].obj = o
                    THEN [job[u] EXCEPT !.touched = TRUE] ELSE job[u]
  BY DEF Touch
<1>2. CASE job[u] = Idle
  BY <1>1, <1>2
<1>3. CASE job[u] # Idle /\ job[u].obj = o
  BY <1>1, <1>3, Working DEF Job
<1>4. CASE job[u] # Idle /\ job[u].obj # o
  <2>1. Touch(o)[u] = job[u] /\ job[u] \in Job
    BY <1>1, <1>4, Working
  <2>2. job[u].touched \in BOOLEAN
    BY <2>1 DEF Job
  <2>3. QED
    BY <1>4, <2>1, <2>2
<1>5. QED
  BY <1>2, <1>3, <1>4

-----------------------------------------------------------------------------
(* The inductive invariant, one lemma per shape of step.                   *)

LEMMA InitInv == Init => IInv
<1> SUFFICES ASSUME Init PROVE IInv
  OBVIOUS
<1>1. \A v \in Values : New(0, v) \in Stored /\ New(0, v).rv = 0
  BY PlainType
<1>2. store \in [Objects -> Stored \cup {Absent}]
  BY <1>1 DEF Init
<1>3. \A o \in Objects : store[o] # Absent => store[o].rv = 0
  BY <1>1 DEF Init
<1>4. TypeOK
  BY <1>2, BoundsAssumption DEF Init, TypeOK
<1>5. \A u \in Users : job[u] = Idle
  BY DEF Init
<1>6. QED
  BY <1>3, <1>4, <1>5 DEF Init, IInv, Growing, CopiesAreCurrent, Reads, DeletesAsk, Idle

\* A request is taken: a handler that writes at once did not read.
LEMMA AskInv ==
  ASSUME IInv, NEW u \in Users, NEW o \in Objects, NEW a \in Changes \cup {Gone},
         NEW op \in {"scale", "update", "patch", "delete", "yaml"},
         NEW first \in {"read", "write"},
         op = "delete" <=> a = Gone,
         first = "write" => op \in {"patch", "delete"},
         Ask(u, op, o, a, first)
  PROVE  IInv'
<1> DEFINE j == [pc |-> first, op |-> op, obj |-> o, ask |-> a,
                 rv |-> 0, copy |-> Plain, touched |-> FALSE]
<1>1. j \in Job /\ j.op = op /\ j.ask = a /\ j.pc = first
  BY PlainType DEF Job
<1>2. job' = [job EXCEPT ![u] = j] /\ reply' = NoReply
  BY DEF Ask
<1>3. UNCHANGED <<kind, store, revision, editor>>
  BY DEF Ask
<1> HIDE DEF j
<1>4. TypeOK'
  BY <1>1, <1>2, <1>3 DEF IInv, TypeOK
<1>5. \A v \in Users : job'[v] = IF v = u THEN j ELSE job[v]
  BY <1>2 DEF IInv, TypeOK
<1>6. ~Reads(j)
  BY <1>1 DEF Reads
<1>7. CopiesAreCurrent'
  BY <1>3, <1>5, <1>6 DEF IInv, CopiesAreCurrent, Reads
<1>8. DeletesAsk'
  BY <1>1, <1>5 DEF IInv, DeletesAsk
<1>9. QED
  BY <1>3, <1>4, <1>7, <1>8 DEF IInv, Growing

LEMMA PageInv ==
  ASSUME IInv, UNCHANGED <<kind, store, revision, job>>, reply' = NoReply,
         editor' \in [Users -> Editor \cup {NoEditor}]
  PROVE  IInv'
BY DEF IInv, TypeOK, Growing, CopiesAreCurrent, Reads, DeletesAsk

\* A handler ends without having written.
LEMMA EndInv ==
  ASSUME IInv, NEW u \in Users, UNCHANGED <<kind, store, revision>>,
         job' = [job EXCEPT ![u] = Idle],
         editor' \in [Users -> Editor \cup {NoEditor}],
         reply' \in Replies \cup {NoReply}
  PROVE  IInv'
<1>1. TypeOK'
  BY DEF IInv, TypeOK
<1>2. \A v \in Users : job'[v] = IF v = u THEN Idle ELSE job[v]
  BY DEF IInv, TypeOK
<1>3. CopiesAreCurrent'
  <2>1. Idle.pc # "write"
    BY DEF Idle
  <2>2. QED
    BY <1>2, <2>1 DEF IInv, CopiesAreCurrent, Reads
<1>4. DeletesAsk'
  BY <1>2 DEF IInv, DeletesAsk
<1>5. QED
  BY <1>1, <1>3, <1>4 DEF IInv, Growing

LEMMA ReadInv ==
  ASSUME IInv, NEW u \in Users, Read(u)
  PROVE  IInv'
<1> DEFINE o == job[u].obj
           j == [pc |-> "write", op |-> job[u].op, obj |-> o, ask |-> job[u].ask,
                 rv |-> store[o].rv, copy |-> store[o].content, touched |-> FALSE]
<1>1. job[u] \in Job /\ o \in Objects /\ job[u] # Idle
  BY Working DEF Read, IInv, Job
<1>2. store[o] \in Stored /\ store[o].rv \in 0..revision
  BY <1>1 DEF Read, IInv, TypeOK, Growing
<1>3. /\ j \in Job
      /\ j.op = job[u].op /\ j.ask = job[u].ask /\ j.obj = o
      /\ j.rv = store[o].rv /\ j.copy = store[o].content /\ j.touched = FALSE
  BY <1>1, <1>2 DEF Job, Stored
<1>4. job' = [job EXCEPT ![u] = j] /\ reply' = NoReply /\ store[o] # Absent
  BY DEF Read
<1>5. UNCHANGED <<kind, store, revision, editor>>
  BY DEF Read
<1> HIDE DEF j, o
<1>6. TypeOK'
  BY <1>3, <1>4, <1>5 DEF IInv, TypeOK
<1>7. \A v \in Users : job'[v] = IF v = u THEN j ELSE job[v]
  BY <1>4 DEF IInv, TypeOK
<1>8. CopiesAreCurrent'
  BY <1>2, <1>3, <1>4, <1>5, <1>7 DEF IInv, CopiesAreCurrent, Reads
<1>9. DeletesAsk'
  BY <1>1, <1>3, <1>7, Working DEF IInv, DeletesAsk
<1>10. QED
  BY <1>5, <1>6, <1>8, <1>9 DEF IInv, Growing

\* The object at o is changed, deleted or created, by a handler that ends with
\* it or by others.
LEMMA ChangeInv ==
  ASSUME IInv, NEW o \in Objects, NEW s \in Stored \cup {Absent},
         s # Absent => s.rv = revision + 1,
         revision < MaxRevision, revision' = revision + 1,
         store' = [store EXCEPT ![o] = s],
         job' \in [Users -> Job \cup {Idle}],
         \A u \in Users : job'[u] = Idle \/ job'[u] = Touch(o)[u],
         UNCHANGED kind,
         editor' \in [Users -> Editor \cup {NoEditor}],
         reply' \in Replies \cup {NoReply}
  PROVE  IInv'
<1>1. revision \in Nat /\ MaxRevision \in Nat
  <2>1. revision \in 0..MaxRevision
    BY DEF IInv, TypeOK
  <2>2. QED
    BY <2>1, BoundsAssumption
<1>2. TypeOK'
  <2>1. revision' \in 0..MaxRevision
    BY <1>1
  <2>2. store' \in [Objects -> Stored \cup {Absent}]
    BY DEF IInv, TypeOK
  <2>3. QED
    BY <2>1, <2>2 DEF IInv, TypeOK
<1>3. \A p \in Objects : store'[p] = IF p = o THEN s ELSE store[p]
  BY DEF IInv, TypeOK
<1>4. Growing'
  BY <1>1, <1>3 DEF IInv, Growing
<1>5. CopiesAreCurrent'
  <2> SUFFICES ASSUME NEW u \in Users, Reads(job'[u])
               PROVE  LET p == job'[u].obj IN
                      /\ job'[u].rv \in 0..revision'
                      /\ job'[u].touched => store'[p] = Absent \/ store'[p].rv > job'[u].rv
                      /\ ~job'[u].touched => /\ store'[p] # Absent
                                             /\ store'[p].rv = job'[u].rv
                                             /\ store'[p].content = job'[u].copy
    BY DEF CopiesAreCurrent, Reads
  <2>1. job'[u] = Touch(o)[u] /\ job[u] # Idle
    <3>1. job'[u] # Idle
      BY DEF Reads, Idle
    <3>2. QED
      BY <3>1, Touched DEF IInv
  <2>2. /\ job'[u].obj = job[u].obj /\ job'[u].rv = job[u].rv /\ job'[u].copy = job[u].copy
        /\ job'[u].touched <=> (job[u].obj = o \/ job[u].touched)
        /\ job'[u].pc = job[u].pc /\ job'[u].op = job[u].op
    BY <2>1, Touched DEF IInv
  <2>3. Reads(job[u]) /\ job[u].obj \in Objects
    BY <2>1, <2>2, Working DEF Reads, IInv, Job
  <2>4. job[u].rv \in 0..revision
    BY <2>3 DEF IInv, CopiesAreCurrent
  <2>5. CASE job[u].obj = o
    <3>1. job'[u].touched /\ store'[job'[u].obj] = s /\ job'[u].rv = job[u].rv
      BY <1>3, <2>2, <2>5
    <3>2. job[u].rv \in 0..revision' /\ revision + 1 > job[u].rv
      BY <1>1, <2>4
    <3>3. QED
      BY <3>1, <3>2
  <2>6. CASE job[u].obj # o
    <3>1. /\ job'[u].touched <=> job[u].touched
          /\ store'[job'[u].obj] = store[job[u].obj]
      BY <1>3, <2>2, <2>3, <2>6
    <3>2. job[u].rv \in 0..revision'
      BY <1>1, <2>4
    <3>3. /\ job[u].touched => store[job[u].obj] = Absent \/ store[job[u].obj].rv > job[u].rv
          /\ ~job[u].touched => /\ store[job[u].obj] # Absent
                                /\ store[job[u].obj].rv = job[u].rv
                                /\ store[job[u].obj].content = job[u].copy
      BY <2>3 DEF IInv, CopiesAreCurrent
    <3>4. QED
      BY <2>2, <3>1, <3>2, <3>3
  <2>7. QED
    BY <2>5, <2>6
<1>6. DeletesAsk'
  BY Touched DEF IInv, DeletesAsk
<1>7. QED
  BY <1>2, <1>4, <1>5, <1>6 DEF IInv

LEMMA TouchType ==
  ASSUME TypeOK, NEW o \in Objects, NEW u \in Users
  PROVE  /\ Touch(o) \in [Users -> Job \cup {Idle}]
         /\ [Touch(o) EXCEPT ![u] = Idle] \in [Users -> Job \cup {Idle}]
         /\ \A v \in Users : \/ [Touch(o) EXCEPT ![u] = Idle][v] = Idle
                           \/ [Touch(o) EXCEPT ![u] = Idle][v] = Touch(o)[v]
<1>1. \A v \in Users : Touch(o)[v] \in Job \cup {Idle}
  BY Touched
<1>2. Touch(o) = [v \in Users |-> Touch(o)[v]]
  BY DEF Touch
<1>3. QED
  BY <1>1, <1>2

\* What the API server has of an object that is written.
LEMMA Written ==
  ASSUME IInv, NEW o \in Objects, NEW c \in Content, store[o] # Absent
  PROVE  /\ store[o] \in Stored /\ store[o].content \in Content
         /\ [rv |-> revision + 1, content |-> c] \in Stored
         /\ revision \in Nat
<1>1. revision \in Nat
  BY BoundsAssumption DEF IInv, TypeOK
<1>2. store[o] \in Stored
  BY DEF IInv, TypeOK
<1>3. QED
  BY <1>1, <1>2 DEF Stored

LEMMA BodyType ==
  ASSUME IInv, NEW u \in Users, job[u].pc = "write", job[u].op # "delete",
         store[job[u].obj] # Absent
  PROVE  /\ job[u] \in Job /\ job[u].obj \in Objects
         /\ job[u].ask \in Changes
         /\ Body(job[u]) \in Content
<1>1. job[u] \in Job /\ job[u] # Idle
  BY Working DEF IInv
<1>2. /\ job[u].obj \in Objects /\ job[u].copy \in Content
      /\ job[u].ask \in Changes \cup {Gone}
  BY <1>1 DEF Job
<1>3. job[u].ask \in Changes
  BY <1>1, <1>2 DEF IInv, DeletesAsk
<1>4. store[job[u].obj].content \in Content
  BY <1>2 DEF IInv, TypeOK, Stored
<1>5. QED
  BY <1>1, <1>2, <1>3, <1>4, ApplyType DEF Body

LEMMA WriteInv ==
  ASSUME IInv, NEW u \in Users, NEW ans \in {"ok", "failed"}, Write(u, ans)
  PROVE  IInv'
<1> DEFINE o == job[u].obj
           c == Body(job[u])
<1>1. /\ job[u].pc = "write" /\ job[u].op # "delete" /\ store[o] # Absent
      /\ Replace(o, c)
      /\ Respond(u, IF store' = store THEN job ELSE Touch(o), ans)
      /\ UNCHANGED kind
  BY DEF Write
<1>2. o \in Objects /\ c \in Content /\ job[u] \in Job
  BY <1>1, BodyType
<1>3. editor' \in [Users -> Editor \cup {NoEditor}]
  BY DEF Write, IInv, TypeOK
<1>4. /\ reply' \in Replies
      /\ job' = [(IF store' = store THEN job ELSE Touch(o)) EXCEPT ![u] = Idle]
  BY <1>1 DEF Respond, Replies
<1> HIDE DEF o, c
<1>5. CASE store' = store
  <2>1. UNCHANGED <<kind, store, revision>>
    <3>1. CASE c = store[o].content
      BY <1>1, <3>1 DEF Replace
    <3>2. CASE c # store[o].content
      <4>1. store'[o] = [rv |-> revision + 1, content |-> c]
        BY <1>1, <1>2, <3>2 DEF Replace, IInv, TypeOK
      <4>2. store'[o].content = c
        BY <4>1
      <4>3. QED
        BY <1>5, <3>2, <4>2
    <3>3. QED
      BY <3>1, <3>2
  <2>2. job' = [job EXCEPT ![u] = Idle]
    BY <1>4, <1>5
  <2>3. QED
    BY <1>3, <1>4, <2>1, <2>2, EndInv
<1>6. CASE store' # store
  <2> DEFINE s == [rv |-> revision + 1, content |-> c]
  <2>1. /\ revision < MaxRevision /\ revision' = revision + 1
        /\ store' = [store EXCEPT ![o] = s]
    BY <1>1, <1>6 DEF Replace
  <2>2. s \in Stored /\ s.rv = revision + 1
    BY <1>1, <1>2, Written
  <2> HIDE DEF s
  <2>3. job' = [Touch(o) EXCEPT ![u] = Idle]
    BY <1>4, <1>6
  <2>4. /\ job' \in [Users -> Job \cup {Idle}]
        /\ \A v \in Users : job'[v] = Idle \/ job'[v] = Touch(o)[v]
    BY <1>2, <2>3, TouchType DEF IInv
  <2>5. QED
    BY <1>1, <1>2, <1>3, <1>4, <2>1, <2>2, <2>4, ChangeInv
<1>7. QED
  BY <1>5, <1>6

LEMMA RemoveInv ==
  ASSUME IInv, NEW u \in Users, NEW ans \in {"ok", "failed"}, Remove(u, ans)
  PROVE  IInv'
<1> DEFINE o == job[u].obj
           s == [rv |-> revision + 1, content |-> store[o].content]
<1>1. /\ job[u].pc = "write" /\ store[o] # Absent
      /\ revision < MaxRevision /\ revision' = revision + 1
      /\ store' = [store EXCEPT ![o] = Absent] \/ store' = [store EXCEPT ![o] = s]
      /\ Respond(u, Touch(o), ans)
      /\ UNCHANGED <<kind, editor>>
  BY DEF Remove
<1>2. job[u] \in Job /\ o \in Objects
  BY <1>1, Working DEF IInv, Job
<1>3. store[o].content \in Content
  BY <1>1, <1>2 DEF IInv, TypeOK, Stored
<1>4. s \in Stored /\ s.rv = revision + 1
  BY <1>1, <1>2, <1>3, Written
<1>5. reply' \in Replies /\ job' = [Touch(o) EXCEPT ![u] = Idle]
  BY <1>1 DEF Respond, Replies
<1>6. /\ job' \in [Users -> Job \cup {Idle}]
      /\ \A v \in Users : job'[v] = Idle \/ job'[v] = Touch(o)[v]
  BY <1>2, <1>5, TouchType DEF IInv
<1>7. editor' \in [Users -> Editor \cup {NoEditor}]
  BY <1>1 DEF IInv, TypeOK
<1> HIDE DEF o, s
<1>8. PICK t \in Stored \cup {Absent} : /\ t # Absent => t.rv = revision + 1
                                      /\ store' = [store EXCEPT ![o] = t]
  BY <1>1, <1>4
<1>9. QED
  BY <1>1, <1>2, <1>5, <1>6, <1>7, <1>8, ChangeInv

\* Others write, delete and create.
LEMMA OthersShape ==
  ASSUME IInv, NEW o \in Objects, NEW v \in Values,
         OtherCreateOrDelete(o, v) \/ \E f \in OthersFields : OtherUpdate(o, f, v)
  PROVE  /\ revision < MaxRevision /\ revision' = revision + 1
         /\ \E s \in Stored \cup {Absent} :
               /\ s # Absent => s.rv = revision + 1
               /\ store' = [store EXCEPT ![o] = s]
         /\ job' = Touch(o)
         /\ reply' = NoReply
         /\ UNCHANGED <<kind, editor>>
<1>1. CASE OtherCreateOrDelete(o, v)
  <2>1. revision + 1 \in Nat
    BY BoundsAssumption DEF IInv, TypeOK
  <2>2. New(revision + 1, v) \in Stored /\ New(revision + 1, v).rv = revision + 1
    BY <2>1, PlainType
  <2> DEFINE s == IF store[o] = Absent THEN New(revision + 1, v) ELSE Absent
  <2>3. s \in Stored \cup {Absent} /\ (s # Absent => s.rv = revision + 1)
    BY <2>2
  <2>4. store' = [store EXCEPT ![o] = s]
    BY <1>1 DEF OtherCreateOrDelete
  <2> HIDE DEF s
  <2>5. QED
    BY <1>1, <2>3, <2>4 DEF OtherCreateOrDelete
<1>2. ASSUME NEW f \in OthersFields, OtherUpdate(o, f, v)
      PROVE  /\ revision < MaxRevision /\ revision' = revision + 1
             /\ \E s \in Stored \cup {Absent} :
                   /\ s # Absent => s.rv = revision + 1
                   /\ store' = [store EXCEPT ![o] = s]
             /\ job' = Touch(o)
             /\ reply' = NoReply
             /\ UNCHANGED <<kind, editor>>
  <2> DEFINE c == [store[o].content EXCEPT ![f] = v]
             s == [rv |-> revision + 1, content |-> c]
  <2>1. store[o] # Absent /\ store[o].content[f] # v /\ Replace(o, c)
    BY <1>2 DEF OtherUpdate
  <2>2. store[o].content \in Content /\ f \in Fields
    BY <2>1, ValuesAssumption DEF IInv, TypeOK, Stored
  <2>3. c \in Content /\ c # store[o].content
    <3>1. c[f] = v
      BY <2>2 DEF Content
    <3>2. c \in Content
      BY <2>2 DEF Content
    <3>3. QED
      BY <2>1, <3>1, <3>2
  <2>4. s \in Stored /\ s.rv = revision + 1
    BY <2>1, <2>3, Written
  <2> HIDE DEF c
  <2>5. /\ revision < MaxRevision /\ revision' = revision + 1
        /\ store' = [store EXCEPT ![o] = s]
    BY <2>1, <2>3 DEF Replace
  <2> HIDE DEF s
  <2>6. QED
    BY <1>2, <2>4, <2>5 DEF OtherUpdate
<1>3. QED
  BY <1>1, <1>2

LEMMA OthersInv ==
  ASSUME IInv, Others
  PROVE  IInv'
<1>1. PICK o \in Objects, v \in Values :
         OtherCreateOrDelete(o, v) \/ \E f \in OthersFields : OtherUpdate(o, f, v)
  BY DEF Others
<1>2. PICK s \in Stored \cup {Absent} :
         /\ s # Absent => s.rv = revision + 1
         /\ store' = [store EXCEPT ![o] = s]
  BY <1>1, OthersShape
<1>3. /\ revision < MaxRevision /\ revision' = revision + 1
      /\ job' = Touch(o) /\ reply' = NoReply
      /\ UNCHANGED <<kind, editor>>
  BY <1>1, OthersShape
<1>4. job' \in [Users -> Job \cup {Idle}]
  <2>1. \A u \in Users : Touch(o)[u] \in Job \cup {Idle}
    BY Touched DEF IInv
  <2>2. Touch(o) = [u \in Users |-> Touch(o)[u]]
    BY DEF Touch
  <2>3. QED
    BY <1>3, <2>1, <2>2
<1>5. editor' \in [Users -> Editor \cup {NoEditor}]
  BY <1>3 DEF IInv, TypeOK
<1>6. QED
  BY <1>2, <1>3, <1>4, <1>5, ChangeInv

\* The routes of a user's page.
LEMMA RequestsAsk ==
  ASSUME NEW u \in Users, Requests(u)
  PROVE  \E o \in Objects, a \in Changes \cup {Gone},
            op \in {"scale", "update", "patch", "delete", "yaml"}, first \in {"read", "write"} :
            /\ op = "delete" <=> a = Gone
            /\ first = "write" => op \in {"patch", "delete"}
            /\ Ask(u, op, o, a, first)
<1>1. PICK o \in Objects :
        \/ \E v \in Values :
              \/ Scale(u, o, v) \/ Update(u, o, v) \/ Patch(u, o, v)
              \/ Ask(u, "update", o, RestartAt(v), "read")
        \/ Delete(u, o)
  BY DEF Requests, ScaleClusterDeployment, ScaleClusterStatefulSet,
         RestartClusterDeployment, RestartClusterDaemonSet, RestartClusterStatefulSet,
         UpdateClusterPod, UpdateClusterDeployment, UpdateClusterStatefulSet,
         DeleteClusterPod, DeleteClusterDeployment, DeleteClusterDaemonSet,
         DeleteClusterStatefulSet, DeleteClusterReplicaSet
<1>2. CASE Delete(u, o)
  BY <1>2 DEF Delete
<1>3. ASSUME NEW v \in Values,
             \/ Scale(u, o, v) \/ Update(u, o, v) \/ Patch(u, o, v)
             \/ Ask(u, "update", o, RestartAt(v), "read")
      PROVE  \E a \in Changes, op \in {"scale", "update", "patch"}, first \in {"read", "write"} :
               /\ first = "write" => op = "patch"
               /\ Ask(u, op, o, a, first)
  <2>1. /\ [Nothing EXCEPT !["replicas"] = v] \in Changes
        /\ [Nothing EXCEPT !["labels"] = v] \in Changes
        /\ RestartAt(v) \in Changes
    BY WishType DEF Fields, RestartAt
  <2>2. CASE Scale(u, o, v)
    BY <2>1, <2>2 DEF Scale
  <2>3. CASE Update(u, o, v)
    BY <2>1, <2>3 DEF Update
  <2>4. CASE Patch(u, o, v)
    BY <2>1, <2>4 DEF Patch
  <2>5. CASE Ask(u, "update", o, RestartAt(v), "read")
    BY <2>1, <2>5
  <2>6. QED
    BY <1>3, <2>2, <2>3, <2>4, <2>5
<1>4. ASSUME NEW v \in Values,
             \/ Scale(u, o, v) \/ Update(u, o, v) \/ Patch(u, o, v)
             \/ Ask(u, "update", o, RestartAt(v), "read")
      PROVE  \E a \in Changes \cup {Gone},
               op \in {"scale", "update", "patch", "delete", "yaml"}, first \in {"read", "write"} :
               /\ op = "delete" <=> a = Gone
               /\ first = "write" => op \in {"patch", "delete"}
               /\ Ask(u, op, o, a, first)
  <2>1. PICK a \in Changes, op \in {"scale", "update", "patch"}, first \in {"read", "write"} :
               /\ first = "write" => op = "patch"
               /\ Ask(u, op, o, a, first)
    BY <1>4, <1>3
  <2>2. QED
    BY <2>1, GoneApart
<1>5. QED
  BY <1>1, <1>2, <1>4

LEMMA RequestsInv ==
  ASSUME IInv, NEW u \in Users, Requests(u)
  PROVE  IInv'
<1>1. PICK o \in Objects, a \in Changes \cup {Gone},
            op \in {"scale", "update", "patch", "delete", "yaml"}, first \in {"read", "write"} :
            /\ op = "delete" <=> a = Gone
            /\ first = "write" => op \in {"patch", "delete"}
            /\ Ask(u, op, o, a, first)
  BY RequestsAsk
<1>2. QED
  BY <1>1, AskInv

LEMMA SaveAsks ==
  ASSUME IInv, NEW u \in Users, UpdateClusterResourceYAML(u)
  PROVE  /\ editor[u].obj \in Objects /\ editor[u].text \in Changes
         /\ Ask(u, "yaml", editor[u].obj, editor[u].text, "read")
<1>1. editor[u] \in Editor
  BY DEF UpdateClusterResourceYAML, IInv, TypeOK
<1>2. editor[u].obj \in Objects /\ editor[u].text \in Content
  BY <1>1 DEF Editor
<1>3. \A c \in Content : c \in Changes
  BY DEF Content, Changes
<1>4. QED
  BY <1>2, <1>3 DEF UpdateClusterResourceYAML

LEMMA PageStepInv ==
  ASSUME IInv, NEW u \in Users, Page(u)
  PROVE  IInv'
<1>1. CASE UpdateClusterResourceYAML(u)
  <2>1. "yaml" \in {"scale", "update", "patch", "delete", "yaml"} /\ "read" \in {"read", "write"}
    OBVIOUS
  <2>2. editor[u].text # Gone
    BY <1>1, SaveAsks, GoneApart
  <2>3. QED
    BY <1>1, <2>1, <2>2, SaveAsks, AskInv
<1>2. ASSUME NEW o \in Objects, GetClusterResourceYAML(u, o) PROVE IInv'
  <2> DEFINE e == [obj |-> o, text |-> Stripped(store[o].content), opened |-> store[o].content]
  <2>1. store[o].content \in Content
    BY <1>2 DEF GetClusterResourceYAML, IInv, TypeOK, Stored
  <2>2. Stripped(store[o].content) \in Content
    BY <2>1, ValuesAssumption DEF Stripped, Content
  <2>3. e \in Editor
    BY <2>1, <2>2 DEF Editor
  <2>4. editor' = [editor EXCEPT ![u] = e]
    BY <1>2 DEF GetClusterResourceYAML
  <2> HIDE DEF e
  <2>5. editor' \in [Users -> Editor \cup {NoEditor}]
    BY <2>3, <2>4 DEF IInv, TypeOK
  <2>6. QED
    BY <1>2, <2>5, PageInv DEF GetClusterResourceYAML
<1>3. ASSUME NEW f \in TextFields, NEW v \in Values, Type(u, f, v) PROVE IInv'
  <2> DEFINE e == [obj |-> editor[u].obj, text |-> [editor[u].text EXCEPT ![f] = v],
                   opened |-> editor[u].opened]
  <2>1. editor[u] \in Editor
    BY <1>3 DEF Type, IInv, TypeOK
  <2>2. [editor[u].text EXCEPT ![f] = v] \in Content
    BY <2>1, ValuesAssumption DEF Editor, Content
  <2>3. e \in Editor
    BY <2>1, <2>2 DEF Editor
  <2>4. editor' = [editor EXCEPT ![u] = e]
    BY <1>3 DEF Type
  <2> HIDE DEF e
  <2>5. editor' \in [Users -> Editor \cup {NoEditor}]
    BY <2>3, <2>4 DEF IInv, TypeOK
  <2>6. QED
    BY <1>3, <2>5, PageInv DEF Type
<1>4. CASE CloseEditor(u)
  <2>1. editor' \in [Users -> Editor \cup {NoEditor}]
    BY <1>4 DEF CloseEditor, IInv, TypeOK
  <2>2. QED
    BY <1>4, <2>1, PageInv DEF CloseEditor
<1>5. QED
  BY <1>1, <1>2, <1>3, <1>4 DEF Page

LEMMA RefusedShape ==
  ASSUME NEW u \in Users, ReadRefused(u) \/ WriteRefused(u)
  PROVE  /\ job[u].pc \in {"read", "write"}
         /\ \E why \in {"conflict", "not found", "invalid", "failed"} : Respond(u, job, why)
         /\ UNCHANGED <<kind, store, revision, editor>>
BY DEF ReadRefused, WriteRefused

LEMMA RefusedInv ==
  ASSUME IInv, NEW u \in Users, ReadRefused(u) \/ WriteRefused(u)
  PROVE  IInv'
<1>1. /\ job' = [job EXCEPT ![u] = Idle]
      /\ reply' \in Replies
      /\ UNCHANGED <<kind, store, revision, editor>>
  <2>1. PICK why \in {"conflict", "not found", "invalid", "failed"} : Respond(u, job, why)
    BY RefusedShape
  <2>2. UNCHANGED <<kind, store, revision, editor>>
    BY RefusedShape
  <2>3. QED
    BY <2>1, <2>2 DEF Respond, Replies
<1>2. editor' \in [Users -> Editor \cup {NoEditor}]
  BY <1>1 DEF IInv, TypeOK
<1>3. QED
  BY <1>1, <1>2, EndInv

LEMMA AbandonInv ==
  ASSUME IInv, NEW u \in Users, Abandon(u)
  PROVE  IInv'
<1>1. editor' \in [Users -> Editor \cup {NoEditor}]
  BY DEF Abandon, IInv, TypeOK
<1>2. QED
  BY <1>1, EndInv DEF Abandon

LEMMA NextInv ==
  ASSUME IInv, [Next]_vars
  PROVE  IInv'
<1>1. ASSUME NEW u \in Users, Handle(u) PROVE IInv'
  BY <1>1, ReadInv, RefusedInv, AbandonInv, WriteInv, RemoveInv DEF Handle
<1>2. ASSUME NEW u \in Editors, Page(u) PROVE IInv'
  BY <1>2, PageStepInv, ValuesAssumption
<1>3. CASE UNCHANGED vars
  <2>1. editor' \in [Users -> Editor \cup {NoEditor}] /\ UNCHANGED <<kind, store, revision, job, reply>>
    BY <1>3 DEF vars, IInv, TypeOK
  <2>2. TypeOK'
    BY <2>1 DEF IInv, TypeOK
  <2>3. QED
    BY <2>1, <2>2 DEF IInv, Growing, CopiesAreCurrent, Reads, DeletesAsk
<1>4. QED
  BY <1>1, <1>2, <1>3, RequestsInv, OthersInv DEF Next

-----------------------------------------------------------------------------
\* The version a handler read is the object's exactly as long as nobody else
\* has written it, in every reachable state.
THEOREM Inductive == Spec => []IInv
BY InitInv, NextInv, PTL DEF Spec

\* Every reachable state is well typed.
THEOREM TypeCorrect == Spec => []TypeOK
<1>1. IInv => TypeOK
  BY DEF IInv
<1>2. QED
  BY <1>1, Inductive, PTL

\* A handler that read an object never overwrites a change it has not seen.
THEOREM NoBlindOverwriteEver == Spec => NoBlindOverwrite
<1>1. ASSUME IInv, NEW u \in Users, NEW ans \in {"ok", "failed"},
             Write(u, ans), job[u].op # "patch"
      PROVE  ~job[u].touched
  <2>1. job[u] \in Job /\ job[u].op # "delete" /\ job[u].pc = "write"
    BY <1>1, BodyType DEF Write
  <2>2. Reads(job[u])
    BY <1>1, <2>1 DEF Reads, Job
  <2>3. store[job[u].obj] # Absent /\ store[job[u].obj].rv = job[u].rv
    BY <1>1 DEF Write, Accepts
  <2>4. job[u].touched => store[job[u].obj].rv > job[u].rv
    BY <1>1, <2>2, <2>3 DEF IInv, CopiesAreCurrent
  <2>5. job[u].rv \in Nat
    BY <2>1 DEF Job
  <2>6. QED
    BY <2>3, <2>4, <2>5
<1>2. IInv /\ [Next]_vars =>
        [\A u \in Users : (\E ans \in {"ok", "failed"} : Write(u, ans)) /\ job[u].op # "patch"
           => ~job[u].touched]_vars
  BY <1>1
<1>3. QED
  BY <1>2, Inductive, PTL DEF Spec, NoBlindOverwrite

LEMMA RespondSays ==
  ASSUME NEW v, NEW jobs, NEW ans, Respond(v, jobs, ans)
  PROVE  reply'.to = v /\ reply'.says = ans
<1>1. reply' = [to |-> v, says |-> ans]
  BY DEF Respond
<1>2. QED
  BY <1>1

LEMMA ConflictsMeetAnother ==
  ASSUME IInv, NEW u \in Users, WriteRefused(u), reply' = [to |-> u, says |-> "conflict"]
  PROVE  job[u].touched
<1>1. /\ job[u].pc = "write" /\ store[job[u].obj] # Absent
      /\ job[u].op # "delete" /\ ~Accepts(job[u])
  BY DEF WriteRefused, Respond
<1>2. job[u] \in Job
  BY <1>1, Working DEF IInv
<1>3. Reads(job[u]) /\ store[job[u].obj].rv # job[u].rv
  BY <1>1, <1>2 DEF Reads, Accepts, Job
<1>4. QED
  BY <1>3 DEF IInv, CopiesAreCurrent

\* A conflict is answered only when somebody else wrote the object meanwhile.
THEOREM ConflictsAreRealEver == Spec => ConflictsAreReal
<1>1. ASSUME IInv, NEW u \in Users, reply' = [to |-> u, says |-> "conflict"], Next
      PROVE  job[u].touched
  <2>1. reply' # NoReply
    <3>1. [to |-> u, says |-> "conflict"] \in Replies
      BY DEF Replies
    <3>2. NoReply \notin Replies
      BY NamesAssumption DEF Replies
    <3>3. QED
      BY <1>1, <3>1, <3>2
  <2>2. reply'.to = u /\ reply'.says = "conflict"
    BY <1>1
  <2>3. ASSUME NEW v \in Users, Handle(v) PROVE job[u].touched
    <3>1. WriteRefused(v)
      <4>1. ~Read(v) /\ ~Abandon(v)
        BY <2>1 DEF Read, Abandon
      <4>2. ~ReadRefused(v)
        <5>1. ReadRefused(v) => \E why \in {"not found", "failed"} : Respond(v, job, why)
          BY DEF ReadRefused
        <5>2. QED
          BY <2>2, <5>1, RespondSays
      <4>3. \A ans \in {"ok", "failed"} : ~Write(v, ans) /\ ~Remove(v, ans)
        <5>1. ASSUME NEW ans \in {"ok", "failed"}, Write(v, ans) \/ Remove(v, ans)
              PROVE  reply'.says = ans
          BY <5>1, RespondSays DEF Write, Remove
        <5>2. QED
          BY <2>2, <5>1
      <4>4. QED
        BY <2>3, <4>1, <4>2, <4>3 DEF Handle
    <3>2. u = v
      BY <2>2, <3>1, RespondSays DEF WriteRefused
    <3>3. QED
      BY <1>1, <3>1, <3>2, ConflictsMeetAnother
  <2>4. \A v \in Users : ~Requests(v)
    BY <2>1, RequestsAsk DEF Ask
  <2>5. \A v \in Users : ~Page(v)
    BY <2>1 DEF Page, GetClusterResourceYAML, Type, CloseEditor, UpdateClusterResourceYAML, Ask
  <2>6. ~Others
    BY <2>1 DEF Others, OtherCreateOrDelete, OtherUpdate
  <2>7. QED
    BY <1>1, <2>3, <2>4, <2>5, <2>6, ValuesAssumption DEF Next
<1>2. ASSUME IInv, [Next]_vars
      PROVE  [\A u \in Users : reply' = [to |-> u, says |-> "conflict"] => job[u].touched]_vars
  BY <1>1, <1>2 DEF vars
<1>3. QED
  BY <1>2, Inductive, PTL DEF Spec, ConflictsAreReal

-----------------------------------------------------------------------------
(* The refinement of AtomicEdits.                                          *)

LEMMA WishIs ==
  ASSUME IInv, NEW u \in Users
  PROVE  /\ wish[u] = WishOf(job[u])
         /\ job[u] = Idle => wish[u] = NoWish
         /\ job[u] # Idle => /\ wish[u] # NoWish
                             /\ wish[u].obj = job[u].obj /\ wish[u].ask = job[u].ask
                             /\ job[u].obj \in Objects /\ job[u].ask \in Changes \cup {Gone}
<1>1. job[u] # Idle => job[u].obj \in Objects /\ job[u].ask \in Changes \cup {Gone}
  BY Working DEF IInv, Job
<1>2. ASSUME NEW o \in Objects, NEW a \in Changes \cup {Gone}
      PROVE  [obj |-> o, ask |-> a] # NoWish
  <2>1. [obj |-> o, ask |-> a] \in [obj : Objects, ask : Changes \cup {Gone}]
    OBVIOUS
  <2>2. QED
    BY <2>1, NamesAssumption DEF Changes
<1>3. wish[u] = WishOf(job[u])
  BY DEF wish
<1>4. QED
  BY <1>1, <1>2, <1>3 DEF WishOf

\* A handler that is overtaken still wants what it wanted.
LEMMA TouchKeepsWish ==
  ASSUME IInv, NEW o \in Objects, NEW u \in Users
  PROVE  WishOf(Touch(o)[u]) = WishOf(job[u])
<1>1. Touch(o)[u] \in Job => Touch(o)[u] # Idle
  BY DEF Job, Idle
<1>2. QED
  BY <1>1, Touched DEF IInv, WishOf

LEMMA SameWishes ==
  ASSUME IInv, NEW o \in Objects, job' = Touch(o)
  PROVE  wish' = wish
<1>1. \A v \in Users : WishOf(job'[v]) = WishOf(job[v])
  BY TouchKeepsWish
<1>2. QED
  BY <1>1 DEF wish

LEMMA WishesKept ==
  ASSUME IInv, NEW u \in Users, NEW jobs, job' = [jobs EXCEPT ![u] = Idle],
         jobs = job \/ \E o \in Objects : jobs = Touch(o)
  PROVE  wish' = [wish EXCEPT ![u] = NoWish]
<1>1. jobs = [v \in Users |-> jobs[v]]
  BY DEF Touch, IInv, TypeOK
<1>2. \A v \in Users : job'[v] = IF v = u THEN Idle ELSE jobs[v]
  BY <1>1
<1>3. \A v \in Users : WishOf(jobs[v]) = WishOf(job[v])
  BY TouchKeepsWish
<1>4. WishOf(Idle) = NoWish
  BY DEF WishOf
<1>5. \A v \in Users : WishOf(job'[v]) = IF v = u THEN NoWish ELSE WishOf(job[v])
  BY <1>2, <1>3, <1>4
<1>6. wish' = [v \in Users |-> WishOf(job'[v])]
  BY DEF wish
<1>7. QED
  BY <1>5, <1>6 DEF wish

\* What a change of one stored object looks like from above.
LEMMA ObjectChanges ==
  ASSUME IInv, NEW o \in Objects, NEW s \in Stored \cup {Absent}, store' = [store EXCEPT ![o] = s]
  PROVE  /\ object' = [object EXCEPT ![o] = ContentOf(s)]
         /\ object'[o] = ContentOf(s)
         /\ object'[o] \in Content \cup {Absent}
<1>1. \A p \in Objects : store'[p] = IF p = o THEN s ELSE store[p]
  BY DEF IInv, TypeOK
<1>2. \A p \in Objects : ContentOf(store'[p]) = IF p = o THEN ContentOf(s) ELSE ContentOf(store[p])
  BY <1>1
<1>3. object' = [object EXCEPT ![o] = ContentOf(s)] /\ object'[o] = ContentOf(s)
  BY <1>2 DEF object
<1>4. ContentOf(s) \in Content \cup {Absent}
  BY DEF Stored, ContentOf
<1>5. QED
  BY <1>3, <1>4

LEMMA InitRefines == Init => Atomic!Init
<1> SUFFICES ASSUME Init PROVE Atomic!Init
  OBVIOUS
<1>1. IInv
  BY InitInv
<1>2. \A o \in Objects : ContentOf(store[o]) \in Content \cup {Absent}
  BY <1>1 DEF IInv, TypeOK, Stored, ContentOf
<1>3. \A u \in Users : WishOf(job[u]) = NoWish
  BY DEF Init, WishOf
<1>4. QED
  BY <1>2, <1>3 DEF Init, Atomic!Init, Atomic!Content, Content, object, wish

LEMMA Silent ==
  ASSUME UNCHANGED <<store, job>>, reply' = NoReply
  PROVE  Atomic!Quiet
BY DEF Atomic!Quiet, object, wish

LEMMA ReadIsQuiet ==
  ASSUME IInv, NEW u \in Users, Read(u)
  PROVE  Atomic!Quiet
<1> DEFINE j == [pc |-> "write", op |-> job[u].op, obj |-> job[u].obj, ask |-> job[u].ask,
                 rv |-> store[job[u].obj].rv, copy |-> store[job[u].obj].content,
                 touched |-> FALSE]
<1>1. job' = [job EXCEPT ![u] = j] /\ reply' = NoReply /\ UNCHANGED store /\ job[u].pc = "read"
  BY DEF Read
<1>2. job[u] # Idle /\ j # Idle /\ j.obj = job[u].obj /\ j.ask = job[u].ask
  <2>1. j.pc = "write" /\ Idle.pc = "idle"
    BY DEF Idle
  <2>2. QED
    BY <1>1, <2>1
<1> HIDE DEF j
<1>3. \A v \in Users : job'[v] = IF v = u THEN j ELSE job[v]
  BY <1>1 DEF IInv, TypeOK
<1>4. WishOf(j) = WishOf(job[u])
  BY <1>2 DEF WishOf
<1>5. \A v \in Users : WishOf(job'[v]) = WishOf(job[v])
  BY <1>3, <1>4
<1>6. QED
  BY <1>1, <1>5 DEF Atomic!Quiet, object, wish

LEMMA AskRefines ==
  ASSUME IInv, NEW u \in Users, NEW o \in Objects, NEW a \in Changes \cup {Gone},
         NEW op, NEW first \in {"read", "write"}, Ask(u, op, o, a, first)
  PROVE  Atomic!Ask(u)
<1> DEFINE j == [pc |-> first, op |-> op, obj |-> o, ask |-> a,
                 rv |-> 0, copy |-> Plain, touched |-> FALSE]
           w == [obj |-> o, ask |-> a]
<1>1. job' = [job EXCEPT ![u] = j] /\ reply' = NoReply /\ UNCHANGED store /\ job[u] = Idle
  BY DEF Ask
<1>2. WishOf(j) = w
  <2>1. j.pc # "idle" /\ Idle.pc = "idle"
    BY DEF Idle
  <2>2. j # Idle /\ j.obj = o /\ j.ask = a
    BY <2>1
  <2>3. QED
    BY <2>2 DEF WishOf
<1>3. w \in [obj : Objects, ask : Atomic!Changes \cup {Gone}]
  BY DEF Atomic!Changes, Changes
<1> HIDE DEF j, w
<1>4. \A v \in Users : WishOf(job'[v]) = IF v = u THEN w ELSE WishOf(job[v])
  BY <1>1, <1>2 DEF IInv, TypeOK
<1>5. wish' = [wish EXCEPT ![u] = w] /\ wish'[u] = w
  BY <1>4 DEF wish
<1>6. wish[u] = NoWish
  BY <1>1, WishIs
<1>7. QED
  BY <1>1, <1>3, <1>5, <1>6 DEF Atomic!Ask, object

LEMMA AnsweredRefines ==
  ASSUME IInv, NEW u \in Users, NEW jobs, NEW ans, job[u] # Idle, Respond(u, jobs, ans),
         jobs = job \/ \E o \in Objects : jobs = Touch(o)
  PROVE  Atomic!Answered(u, ans)
<1>1. wish' = [wish EXCEPT ![u] = NoWish]
  BY WishesKept DEF Respond
<1>2. QED
  BY <1>1, WishIs DEF Atomic!Answered, Respond

LEMMA WriteRefines ==
  ASSUME IInv, NEW u \in Users, NEW ans \in {"ok", "failed"}, Write(u, ans)
  PROVE  Atomic!Edit(u, ans)
<1> DEFINE o == job[u].obj
           c == Body(job[u])
<1>1. /\ job[u].pc = "write" /\ job[u].op # "delete" /\ store[o] # Absent
      /\ Accepts(job[u])
      /\ Replace(o, c)
      /\ Respond(u, IF store' = store THEN job ELSE Touch(o), ans)
  BY DEF Write
<1>2. o \in Objects /\ c \in Content /\ job[u] \in Job /\ job[u].ask \in Changes
  BY <1>1, BodyType
<1>3. job[u] # Idle
  BY <1>2, Working DEF IInv
<1>4. Atomic!Answered(u, ans)
  <2> DEFINE jobs == IF store' = store THEN job ELSE Touch(o)
  <2>1. jobs = job \/ \E p \in Objects : jobs = Touch(p)
    BY <1>2
  <2>2. Respond(u, jobs, ans)
    BY <1>1
  <2> HIDE DEF jobs
  <2>3. QED
    BY <1>3, <2>1, <2>2, AnsweredRefines
<1>5. c = Apply(store[o].content, job[u].ask)
  <2>1. CASE job[u].op \in {"scale", "patch"}
    BY <2>1 DEF Body
  <2>2. CASE job[u].op \notin {"scale", "patch"}
    <3>1. Reads(job[u]) /\ store[o].rv = job[u].rv
      BY <1>1, <1>2, <2>2 DEF Reads, Accepts, Job
    <3>2. job[u].rv \in Nat
      BY <1>2 DEF Job
    <3>3. ~job[u].touched
      BY <1>1, <3>1, <3>2 DEF IInv, CopiesAreCurrent
    <3>4. store[o].content = job[u].copy
      BY <3>1, <3>3 DEF IInv, CopiesAreCurrent
    <3>5. QED
      BY <2>2, <3>4 DEF Body
  <2>3. QED
    BY <2>1, <2>2
<1>6. object[o] = store[o].content /\ object[o] # Absent /\ object[o] \in Content
  <2>1. store[o].content \in Content
    BY <1>1, <1>2 DEF IInv, TypeOK, Stored
  <2>2. object[o] = store[o].content
    BY <1>1, <1>2 DEF object, ContentOf
  <2>3. QED
    BY <2>1, <2>2, AbsentApart
<1> HIDE DEF o, c
<1>7. object' = [object EXCEPT ![o] = c]
  <2>1. CASE c = store[o].content
    <3>1. store' = store
      BY <1>1, <2>1 DEF Replace
    <3>2. object' = object
      BY <3>1 DEF object
    <3>3. object = [p \in Objects |-> object[p]]
      BY DEF object
    <3>4. QED
      BY <1>2, <1>6, <2>1, <3>2, <3>3
  <2>2. CASE c # store[o].content
    <3> DEFINE s == [rv |-> revision + 1, content |-> c]
    <3>1. s \in Stored /\ s.content = c
      BY <1>1, <1>2, Written
    <3>2. store' = [store EXCEPT ![o] = s]
      BY <1>1, <2>2 DEF Replace
    <3> HIDE DEF s
    <3>3. s # Absent
      BY <3>1, AbsentApart
    <3>4. object' = [object EXCEPT ![o] = ContentOf(s)]
      BY <1>2, <3>1, <3>2, ObjectChanges
    <3>5. QED
      BY <3>1, <3>3, <3>4 DEF ContentOf
  <2>3. QED
    BY <2>1, <2>2
<1>8. wish[u].obj = o /\ wish[u].ask = job[u].ask /\ job[u].ask # Gone
  BY <1>2, <1>3, WishIs, GoneApart DEF o
<1>9. Atomic!Apply(object[o], job[u].ask) = c
  BY <1>5, <1>6 DEF Atomic!Apply, Apply
<1>10. QED
  BY <1>4, <1>6, <1>7, <1>8, <1>9 DEF Atomic!Edit

LEMMA RemoveRefines ==
  ASSUME IInv, NEW u \in Users, NEW ans \in {"ok", "failed"}, Remove(u, ans)
  PROVE  Atomic!Remove(u, ans)
<1> DEFINE o == job[u].obj
           s == [rv |-> revision + 1, content |-> store[o].content]
<1>1. /\ job[u].pc = "write" /\ job[u].op = "delete" /\ store[o] # Absent
      /\ store' = [store EXCEPT ![o] = Absent] \/ store' = [store EXCEPT ![o] = s]
      /\ Respond(u, Touch(o), ans)
  BY DEF Remove
<1>2. job[u] \in Job /\ o \in Objects /\ job[u] # Idle
  BY <1>1, Working DEF IInv, Job
<1>3. store[o].content \in Content
  BY <1>1, <1>2 DEF IInv, TypeOK, Stored
<1>4. s \in Stored /\ s.content = store[o].content
  BY <1>1, <1>2, <1>3, Written
<1>5. object[o] = store[o].content /\ object[o] # Absent
  <2>1. object[o] = store[o].content
    BY <1>1, <1>2 DEF object, ContentOf
  <2>2. QED
    BY <1>3, <2>1, AbsentApart
<1>6. Atomic!Answered(u, ans)
  BY <1>1, <1>2, AnsweredRefines
<1> HIDE DEF o, s
<1>7. object' \in {object, [object EXCEPT ![o] = Absent]}
  <2>1. CASE store' = [store EXCEPT ![o] = Absent]
    <3>1. object' = [object EXCEPT ![o] = ContentOf(Absent)]
      BY <1>2, <2>1, ObjectChanges
    <3>2. QED
      BY <3>1 DEF ContentOf
  <2>2. CASE store' = [store EXCEPT ![o] = s]
    <3>1. object' = [object EXCEPT ![o] = ContentOf(s)]
      BY <1>2, <1>4, <2>2, ObjectChanges
    <3>2. ContentOf(s) = object[o]
      BY <1>4, <1>5, AbsentApart DEF ContentOf
    <3>3. object = [p \in Objects |-> object[p]]
      BY DEF object
    <3>4. QED
      BY <1>2, <3>1, <3>2, <3>3
  <2>3. QED
    BY <1>1, <2>1, <2>2
<1>8. wish[u].obj = o /\ wish[u].ask = job[u].ask /\ job[u].ask = Gone
  BY <1>1, <1>2, WishIs DEF IInv, DeletesAsk, o
<1>9. QED
  BY <1>5, <1>6, <1>7, <1>8 DEF Atomic!Remove

LEMMA OthersRefine ==
  ASSUME IInv, Others
  PROVE  \E o \in Objects : Atomic!Others(o)
<1>1. PICK o \in Objects, v \in Values :
         OtherCreateOrDelete(o, v) \/ \E f \in OthersFields : OtherUpdate(o, f, v)
  BY DEF Others
<1>2. PICK s \in Stored \cup {Absent} : store' = [store EXCEPT ![o] = s]
  BY <1>1, OthersShape
<1>3. job' = Touch(o) /\ reply' = NoReply
  BY <1>1, OthersShape
<1>4. wish' = wish
  BY <1>3, SameWishes
<1>5. object' = [object EXCEPT ![o] = object'[o]] /\ object'[o] \in Content \cup {Absent}
  BY <1>2, ObjectChanges
<1>6. Atomic!Others(o)
  BY <1>3, <1>4, <1>5 DEF Atomic!Others, Atomic!Content, Content
<1>7. QED
  BY <1>6

LEMMA RefusedRefines ==
  ASSUME IInv, NEW u \in Users, ReadRefused(u) \/ WriteRefused(u)
  PROVE  \E why \in Atomic!Refusals : Atomic!Refuse(u, why)
<1>1. PICK why \in {"conflict", "not found", "invalid", "failed"} : Respond(u, job, why)
  BY RefusedShape
<1>2. job[u] # Idle /\ UNCHANGED store
  <2>1. job[u].pc \in {"read", "write"} /\ UNCHANGED store
    BY RefusedShape
  <2>2. Idle.pc = "idle"
    BY DEF Idle
  <2>3. QED
    BY <2>1, <2>2
<1>3. Atomic!Answered(u, why)
  BY <1>1, <1>2, AnsweredRefines
<1>4. QED
  BY <1>1, <1>2, <1>3 DEF Atomic!Refuse, Atomic!Refusals, object

LEMMA AbandonRefines ==
  ASSUME IInv, NEW u \in Users, Abandon(u)
  PROVE  Atomic!Abandon(u)
<1>1. wish' = [wish EXCEPT ![u] = NoWish]
  BY WishesKept DEF Abandon
<1>2. QED
  BY <1>1 DEF Abandon, Atomic!Abandon, object

LEMMA PageRefines ==
  ASSUME IInv, NEW u \in Users, Page(u)
  PROVE  Atomic!Quiet \/ Atomic!Ask(u)
<1>1. CASE UpdateClusterResourceYAML(u)
  <2>1. "read" \in {"read", "write"}
    OBVIOUS
  <2>2. QED
    BY <1>1, <2>1, SaveAsks, AskRefines
<1>2. CASE ~UpdateClusterResourceYAML(u)
  <2>1. UNCHANGED <<store, job>> /\ reply' = NoReply
    BY <1>2 DEF Page, GetClusterResourceYAML, Type, CloseEditor
  <2>2. QED
    BY <2>1, Silent
<1>3. QED
  BY <1>1, <1>2

LEMMA NextRefines ==
  ASSUME IInv, [Next]_vars
  PROVE  [Atomic!Next]_(Atomic!vars)
<1>1. ASSUME NEW u \in Users, Handle(u) PROVE Atomic!Next
  BY <1>1, ReadIsQuiet, RefusedRefines, AbandonRefines, WriteRefines, RemoveRefines
     DEF Handle, Atomic!Next
<1>2. ASSUME NEW u \in Editors, Page(u) PROVE Atomic!Next
  BY <1>2, PageRefines, ValuesAssumption DEF Atomic!Next
<1>3. ASSUME NEW u \in Users, Requests(u) PROVE Atomic!Next
  <2>1. Atomic!Ask(u)
    BY <1>3, RequestsAsk, AskRefines
  <2>2. QED
    BY <2>1 DEF Atomic!Next
<1>4. CASE UNCHANGED vars
  BY <1>4 DEF vars, Atomic!vars, object, wish
<1>5. CASE Others
  BY <1>5, OthersRefine DEF Atomic!Next
<1>6. QED
  BY <1>1, <1>2, <1>3, <1>4, <1>5 DEF Next

\* Edits under optimistic locking are atomic edits.
THEOREM Refinement == Spec => ImplementsAtomicEdits
<1>1. IInv /\ [Next]_vars => [Atomic!Next]_(Atomic!vars)
  BY NextRefines
<1>2. QED
  BY <1>1, InitRefines, Inductive, PTL DEF Spec, ImplementsAtomicEdits, Atomic!Spec
=============================================================================
