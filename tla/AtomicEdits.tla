---------------------------- MODULE AtomicEdits -----------------------------
(***************************************************************************)
(* What the edits made through the dashboard promise, without resource     *)
(* versions or copies read earlier: a request that is answered ok has been *)
(* applied, at one instant, to the object as it was at that instant, and   *)
(* has changed only what it asked for; one that is refused has changed     *)
(* nothing.  After a lost answer or a restart nobody knows which it was.   *)
(***************************************************************************)
CONSTANTS
    Objects, Users,
    Fields, Values,  \* an object is a function from fields to values
    Absent,          \* there is no such object
    Keep,            \* in a wish: leave the field as it is
    Gone,            \* the wish that the object be deleted
    NoWish, NoReply

VARIABLES
    object,  \* what the cluster holds under each name
    wish,    \* per user: the edit under way
    reply    \* the answer given in this step, or NoReply

vars == <<object, wish, reply>>

Content == [Fields -> Values]
Changes == [Fields -> Values \cup {Keep}]
Refusals == {"conflict", "not found", "invalid", "failed"}

\* An object c after the changes a.
Apply(c, a) == [f \in Fields |-> IF a[f] = Keep THEN c[f] ELSE a[f]]

Init ==
    /\ object \in [Objects -> Content \cup {Absent}]
    /\ wish = [u \in Users |-> NoWish]
    /\ reply = NoReply

Ask(u) ==
    /\ wish[u] = NoWish
    /\ wish'[u] \in [obj : Objects, ask : Changes \cup {Gone}]
    /\ wish' = [wish EXCEPT ![u] = wish'[u]]
    /\ reply' = NoReply
    /\ UNCHANGED object

Answered(u, ans) ==
    /\ wish[u] # NoWish
    /\ wish' = [wish EXCEPT ![u] = NoWish]
    /\ reply' = [to |-> u, says |-> ans]

Edit(u, ans) ==
    LET o == wish[u].obj IN
    /\ Answered(u, ans)
    /\ wish[u].ask # Gone
    /\ object[o] # Absent
    /\ object' = [object EXCEPT ![o] = Apply(object[o], wish[u].ask)]

\* Finalizers and grace periods may keep a deleted object for a while.
Remove(u, ans) ==
    LET o == wish[u].obj IN
    /\ Answered(u, ans)
    /\ wish[u].ask = Gone
    /\ object[o] # Absent
    /\ object' \in {object, [object EXCEPT ![o] = Absent]}

Refuse(u, why) ==
    /\ Answered(u, why)
    /\ UNCHANGED object

Abandon(u) ==
    /\ wish' = [wish EXCEPT ![u] = NoWish]
    /\ reply' = NoReply
    /\ UNCHANGED object

Others(o) ==
    /\ object'[o] \in Content \cup {Absent}
    /\ object' = [object EXCEPT ![o] = object'[o]]
    /\ reply' = NoReply
    /\ UNCHANGED wish

\* Nothing is asked or answered.
Quiet == reply' = NoReply /\ UNCHANGED <<object, wish>>

Next ==
    \/ \E u \in Users :
        \/ Ask(u) \/ Abandon(u)
        \/ \E ans \in {"ok", "failed"} : Edit(u, ans) \/ Remove(u, ans)
        \/ \E why \in Refusals : Refuse(u, why)
    \/ \E o \in Objects : Others(o)
    \/ Quiet

Spec == Init /\ [][Next]_vars
=============================================================================
