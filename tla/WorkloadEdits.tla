--------------------------- MODULE WorkloadEdits ----------------------------
(***************************************************************************)
(* The handlers that change objects of a cluster: scale, restart, change   *)
(* of labels and annotations and delete of cluster_handlers.go, and the    *)
(* YAML editor of yaml_edit.go with the page it serves.                    *)
(*                                                                         *)
(* The API server gives every change of an object a new resourceVersion    *)
(* and refuses an update that carries another one than the object has.     *)
(* Between the read and the update of a handler the other users, kubectl   *)
(* and the controllers write too, and objects are deleted and created      *)
(* again under their old name.                                             *)
(***************************************************************************)
EXTENDS Naturals

CONSTANTS
    Objects, Users, Values,
    Blank,        \* the value of a field that is not set
    Editors,      \* the users who open the YAML editor
    OthersFields, \* the fields other writers change
    TextFields,   \* the fields users change in the editor
    MaxRevision,  \* bound on the changes of a behaviour
    Absent, Keep, Gone, NoWish, NoReply, NoEditor

Fields == {"replicas", "labels", "restartedAt", "spec", "owner"}
Kinds == {"pods", "deployments", "daemonsets", "statefulsets", "replicasets"}

ASSUME ValuesAssumption ==
    /\ Blank \in Values
    /\ Keep \notin Values
    /\ OthersFields \subseteq Fields
    /\ TextFields \subseteq Fields
    /\ Editors \subseteq Users
ASSUME NamesAssumption ==
    /\ Absent \notin [rv : Nat, content : [Fields -> Values]]
    /\ Absent \notin [Fields -> Values]
    /\ Gone \notin [Fields -> Values \cup {Keep}]
    /\ NoWish \notin [obj : Objects, ask : [Fields -> Values \cup {Keep}] \cup {Gone}]
    /\ NoReply \notin [to : Users, says : {"ok", "conflict", "not found", "invalid", "failed"}]
ASSUME BoundsAssumption == MaxRevision \in Nat

VARIABLES
    kind,      \* the kind of the objects: handlers of two kinds share nothing
    store,     \* the API server: the object under each name, or Absent
    revision,  \* its last resourceVersion
    job,       \* per user: the handler at work for it
    editor,    \* per user: the YAML editor of its page
    reply      \* the answer a handler gives in this step, or NoReply

vars == <<kind, store, revision, job, editor, reply>>

Content == [Fields -> Values]
Changes == [Fields -> Values \cup {Keep}]
Stored == [rv : Nat, content : Content]
\* A request that stores only what it was given.
ApplyAlone(c, a) == a
\* An object c after the changes a: a map or a field that is not in the request
\* is kept.
Apply(c, a) == [f \in Fields |-> IF a[f] = Keep THEN c[f] ELSE a[f]]
Nothing == [f \in Fields |-> Keep]
Plain == [f \in Fields |-> Blank]

\* A handler at work: what it asks of obj, what its Get returned, and (history)
\* whether obj was written by another since.
Job == [pc : {"read", "write"}, op : {"scale", "update", "patch", "delete", "yaml"},
        obj : Objects, ask : Changes \cup {Gone},
        rv : Nat, copy : Content, touched : BOOLEAN]
Idle == [pc |-> "idle"]
\* The YAML being edited and (history) the object it was made from.
Editor == [obj : Objects, text : Content, opened : Content]

Replies == [to : Users, says : {"ok", "conflict", "not found", "invalid", "failed"}]

New(n, v) == [rv |-> n, content |-> [Plain EXCEPT !["owner"] = v]]

Init ==
    /\ kind \in Kinds
    /\ revision = 0
    /\ store \in [Objects -> {Absent} \cup {New(0, v) : v \in Values}]
    /\ job = [u \in Users |-> Idle]
    /\ editor = [u \in Users |-> NoEditor]
    /\ reply = NoReply
-----------------------------------------------------------------------------
\* A request reaches its handler, on an object of a kind it has a route for.
Ask(u, op, o, a, first) ==
    /\ job[u] = Idle
    /\ job' = [job EXCEPT ![u] =
          [pc |-> first, op |-> op, obj |-> o, ask |-> a,
           rv |-> 0, copy |-> Plain, touched |-> FALSE]]
    /\ reply' = NoReply
    /\ UNCHANGED <<kind, store, revision, editor>>

Scale(u, o, v) == Ask(u, "scale", o, [Nothing EXCEPT !["replicas"] = v], "read")
\* A map of the request replaces the object's; annotations are treated like
\* labels and left out.
Update(u, o, v) == Ask(u, "update", o, [Nothing EXCEPT !["labels"] = v], "read")
RestartAt(v) == [Nothing EXCEPT !["restartedAt"] = v]
Patch(u, o, v) == Ask(u, "patch", o, RestartAt(v), "write")
Delete(u, o) == Ask(u, "delete", o, Gone, "write")

ScaleClusterDeployment(u, o, v) == kind = "deployments" /\ Scale(u, o, v)
ScaleClusterStatefulSet(u, o, v) == kind = "statefulsets" /\ Scale(u, o, v)
UpdateClusterPod(u, o, v) == kind = "pods" /\ Update(u, o, v)
UpdateClusterDeployment(u, o, v) == kind = "deployments" /\ Update(u, o, v)
UpdateClusterStatefulSet(u, o, v) == kind = "statefulsets" /\ Update(u, o, v)
RestartClusterDeployment(u, o, v) ==
    kind = "deployments" /\ Ask(u, "update", o, RestartAt(v), "read")
RestartClusterDaemonSet(u, o, v) == kind = "daemonsets" /\ Patch(u, o, v)
RestartClusterStatefulSet(u, o, v) == kind = "statefulsets" /\ Patch(u, o, v)
DeleteClusterPod(u, o) == kind = "pods" /\ Delete(u, o)
DeleteClusterDeployment(u, o) == kind = "deployments" /\ Delete(u, o)
DeleteClusterDaemonSet(u, o) == kind = "daemonsets" /\ Delete(u, o)
DeleteClusterStatefulSet(u, o) == kind = "statefulsets" /\ Delete(u, o)
DeleteClusterReplicaSet(u, o) == kind = "replicasets" /\ Delete(u, o)

\* The page asks for the YAML of an object and opens it in the editor.  The
\* owner references go with the server-managed fields.
Stripped(c) == [c EXCEPT !["owner"] = Blank]
GetClusterResourceYAML(u, o) ==
    /\ editor[u] = NoEditor
    /\ store[o] # Absent
    /\ editor' = [editor EXCEPT ![u] =
          [obj |-> o, text |-> Stripped(store[o].content), opened |-> store[o].content]]
    /\ reply' = NoReply
    /\ UNCHANGED <<kind, store, revision, job>>

\* The user types.
Type(u, f, v) ==
    /\ editor[u] # NoEditor
    /\ editor' = [editor EXCEPT ![u] =
          [obj |-> editor[u].obj, text |-> [editor[u].text EXCEPT ![f] = v],
           opened |-> editor[u].opened]]
    /\ reply' = NoReply
    /\ UNCHANGED <<kind, store, revision, job>>
\* Cancel, which a save under way does not prevent.
CloseEditor(u) ==
    /\ editor[u] # NoEditor
    /\ editor' = [editor EXCEPT ![u] = NoEditor]
    /\ reply' = NoReply
    /\ UNCHANGED <<kind, store, revision, job>>

\* The whole text is to replace the object; the handler forces its name to
\* that of the URL, whatever the text says.
UpdateClusterResourceYAML(u) ==
    /\ editor[u] # NoEditor
    /\ Ask(u, "yaml", editor[u].obj, editor[u].text, "read")

-----------------------------------------------------------------------------
\* The answer of handler u; other handlers at work on o have been overtaken.
Touch(o) ==
    [v \in Users |-> IF job[v] # Idle /\ job[v].obj = o
                     THEN [job[v] EXCEPT !.touched = TRUE] ELSE job[v]]
Respond(u, jobs, ans) ==
    /\ job' = [jobs EXCEPT ![u] = Idle]
    /\ reply' = [to |-> u, says |-> ans]

\* A read from the informer's lister instead of the API server: it may be older.
ReadLister(u) ==
    /\ job[u].pc = "read"
    /\ store[job[u].obj] # Absent
    /\ \E rv \in 0..store[job[u].obj].rv :
          job' = [job EXCEPT ![u].pc = "write", ![u].touched = FALSE, ![u].rv = rv,
                             ![u].copy = store[job[u].obj].content]
    /\ reply' = NoReply
    /\ UNCHANGED <<kind, store, revision, editor>>
\* The Get of a handler.
Read(u) ==
    /\ job[u].pc = "read"
    /\ store[job[u].obj] # Absent
    /\ job' = [job EXCEPT ![u] =
          [pc |-> "write", op |-> job[u].op, obj |-> job[u].obj, ask |-> job[u].ask,
           rv |-> store[job[u].obj].rv, copy |-> store[job[u].obj].content,
           touched |-> FALSE]]
    /\ reply' = NoReply
    /\ UNCHANGED <<kind, store, revision, editor>>
\* Only the editor tells a read that failed from an object that is not there.
ReadRefused(u) ==
    /\ job[u].pc = "read"
    /\ \/ store[job[u].obj] = Absent /\ Respond(u, job, "not found")
       \/ Respond(u, job, IF job[u].op = "yaml" THEN "failed" ELSE "not found")
    /\ UNCHANGED <<kind, store, revision, editor>>

\* The API server takes content c for o; what changes nothing is not written.
Replace(o, c) ==
    IF c = store[o].content THEN UNCHANGED <<store, revision>>
    ELSE /\ revision < MaxRevision
         /\ revision' = revision + 1
         /\ store' = [store EXCEPT ![o] =
               [rv |-> revision + 1, content |-> c]]

\* An update made of the request alone.
BodyAlone(j) == Apply(Plain, j.ask)
\* The API server merges a scale and a patch; any other update is an object
\* made from the one the handler read, or from the editor's text.
Body(j) == IF j.op \in {"scale", "patch"}
           THEN Apply(store[j.obj].content, j.ask)
           ELSE Apply(j.copy, j.ask)
\* An update without a resourceVersion.
AcceptsAny(j) == TRUE
Accepts(j) == j.op = "patch" \/ store[j.obj].rv = j.rv

\* The update is applied; its answer may be lost.  A save that is answered
\* closes the editor.
Write(u, ans) ==
    LET j == job[u] IN
    /\ j.pc = "write"
    /\ j.op # "delete"
    /\ store[j.obj] # Absent
    /\ Accepts(j)
    /\ ans \in {"ok", "failed"}
    /\ Replace(j.obj, Body(j))
    /\ Respond(u, IF store' = store THEN job ELSE Touch(j.obj), ans)
    /\ editor' = IF j.op = "yaml" /\ ans = "ok" THEN [editor EXCEPT ![u] = NoEditor] ELSE editor
    /\ UNCHANGED kind

\* The object is gone, or marked and kept for a while.
Remove(u, ans) ==
    LET j == job[u] IN
    /\ j.pc = "write"
    /\ j.op = "delete"
    /\ store[j.obj] # Absent
    /\ revision < MaxRevision
    /\ revision' = revision + 1
    /\ ans \in {"ok", "failed"}
    /\ store' \in {[store EXCEPT ![j.obj] = Absent],
                  [store EXCEPT ![j.obj] = [rv |-> revision + 1, content |-> @.content]]}
    /\ Respond(u, Touch(j.obj), ans)
    /\ UNCHANGED <<kind, editor>>

\* The API server refuses the write, or the call fails before it.  Only the
\* editor tells a conflict from other failures: a scale or a change of labels
\* that conflicts is answered 500.
WriteRefused(u) ==
    LET j == job[u] IN
    /\ j.pc = "write"
    /\ \/ /\ j.op = "yaml"
          /\ store[j.obj] # Absent
          /\ ~Accepts(j)
          /\ Respond(u, job, "conflict")
       \/ store[j.obj] = Absent /\ j.op = "patch" /\ Respond(u, job, "not found")
       \/ j.op = "yaml" /\ Respond(u, job, "invalid")
       \/ Respond(u, job, "failed")
    /\ UNCHANGED <<kind, store, revision, editor>>

\* The dashboard restarts, or the tab of a save is closed: its request context
\* ends the handler.
Abandon(u) ==
    /\ job[u] # Idle
    /\ job' = [job EXCEPT ![u] = Idle]
    /\ reply' = NoReply
    /\ UNCHANGED <<kind, store, revision, editor>>
-----------------------------------------------------------------------------
\* kubectl, controllers and other dashboards.
OtherUpdate(o, f, v) ==
    /\ store[o] # Absent
    /\ store[o].content[f] # v
    /\ Replace(o, [store[o].content EXCEPT ![f] = v])
    /\ job' = Touch(o)
    /\ reply' = NoReply
    /\ UNCHANGED <<kind, editor>>
OtherCreateOrDelete(o, v) ==
    /\ revision < MaxRevision
    /\ revision' = revision + 1
    /\ store' = [store EXCEPT ![o] = IF @ = Absent THEN New(revision + 1, v) ELSE Absent]
    /\ job' = Touch(o)
    /\ reply' = NoReply
    /\ UNCHANGED <<kind, editor>>

Requests(u) ==
    \E o \in Objects :
        \/ \E v \in Values :
              \/ ScaleClusterDeployment(u, o, v) \/ ScaleClusterStatefulSet(u, o, v)
              \/ RestartClusterDeployment(u, o, v) \/ RestartClusterDaemonSet(u, o, v)
              \/ RestartClusterStatefulSet(u, o, v)
              \/ UpdateClusterPod(u, o, v) \/ UpdateClusterDeployment(u, o, v)
              \/ UpdateClusterStatefulSet(u, o, v)
        \/ DeleteClusterPod(u, o) \/ DeleteClusterDeployment(u, o)
        \/ DeleteClusterDaemonSet(u, o) \/ DeleteClusterStatefulSet(u, o)
        \/ DeleteClusterReplicaSet(u, o)

Page(u) ==
    \/ \E o \in Objects : GetClusterResourceYAML(u, o)
    \/ \E f \in TextFields, v \in Values : Type(u, f, v)
    \/ CloseEditor(u) \/ UpdateClusterResourceYAML(u)

Handle(u) ==
    \/ Read(u) \/ ReadRefused(u) \/ WriteRefused(u) \/ Abandon(u)
    \/ \E ans \in {"ok", "failed"} : Write(u, ans) \/ Remove(u, ans)

Others ==
    \E o \in Objects, v \in Values :
        OtherCreateOrDelete(o, v) \/ \E f \in OthersFields : OtherUpdate(o, f, v)

Next == (\E u \in Users : Requests(u) \/ Handle(u)) \/ (\E u \in Editors : Page(u)) \/ Others

Spec == Init /\ [][Next]_vars
-----------------------------------------------------------------------------
TypeOK ==
    /\ kind \in Kinds
    /\ revision \in 0..MaxRevision
    /\ store \in [Objects -> Stored \cup {Absent}]
    /\ job \in [Users -> Job \cup {Idle}]
    /\ editor \in [Users -> Editor \cup {NoEditor}]
    /\ reply \in Replies \cup {NoReply}

\* What the properties rest on: versions grow, and the one a handler read is
\* still the object's exactly as long as nobody else has written it.
Growing == \A o \in Objects : store[o] # Absent => store[o].rv \in 0..revision
Reads(j) == j.pc = "write" /\ j.op \in {"scale", "update", "yaml"}
CopiesAreCurrent ==
    \A u \in Users : Reads(job[u]) =>
        LET o == job[u].obj IN
        /\ job[u].rv \in 0..revision
        /\ job[u].touched => store[o] = Absent \/ store[o].rv > job[u].rv
        /\ ~job[u].touched => /\ store[o] # Absent
                              /\ store[o].rv = job[u].rv
                              /\ store[o].content = job[u].copy
DeletesAsk ==
    \A u \in Users : job[u] # Idle => (job[u].op = "delete" <=> job[u].ask = Gone)
IInv == TypeOK /\ Growing /\ CopiesAreCurrent /\ DeletesAsk

\* A handler that read an object and updates it never overwrites a change it
\* has not seen: nobody has changed, deleted or created the object since its
\* read (UpdateClusterPod, ScaleClusterDeployment, UpdateClusterResourceYAML).
NoBlindOverwrite ==
    [][\A u \in Users : (\E ans \in {"ok", "failed"} : Write(u, ans)) /\ job[u].op # "patch"
           => ~job[u].touched]_vars

\* A save is answered "conflict" only when somebody else did write the object
\* while the handler was at work: the dashboard never conflicts with itself or
\* with a stale read of its own (UpdateClusterResourceYAML, 409).
ConflictsAreReal ==
    [][\A u \in Users : reply' = [to |-> u, says |-> "conflict"] => job[u].touched]_vars

\* Every edit is applied at one instant to the object as it is then, or not
\* at all, and an answer tells which.
ContentOf(s) == IF s = Absent THEN Absent ELSE s.content
object == [o \in Objects |-> ContentOf(store[o])]
WishOf(j) == IF j = Idle THEN NoWish ELSE [obj |-> j.obj, ask |-> j.ask]
wish == [u \in Users |-> WishOf(job[u])]
Atomic == INSTANCE AtomicEdits
ImplementsAtomicEdits == Atomic!Spec

\* "resource changed since you opened it; reload and re-edit" (yaml_edit.go:225)
\* is what a save of such an object is answered: a save that is applied finds
\* the object as it was when the editor was opened.
SavesWhatWasOpened ==
    [][\A u \in Users : Write(u, "ok") /\ job[u].op = "yaml" /\ editor[u] # NoEditor
           => store[editor[u].obj].content = editor[u].opened]_vars
=============================================================================
