------------------------ MODULE ResourceWatchProofs ------------------------
(***************************************************************************)
(* Theorems about ResourceWatch, for every value of its constants.         *)
(***************************************************************************)
EXTENDS ResourceWatch, FiniteSetTheorems, TLAPS

-----------------------------------------------------------------------------
(* Queues of events: what an Append and a Tail leave last for a key.       *)

LEMMA KeysType == ASSUME NEW s \in Seq(Event) PROVE KeysIn(s) \subseteq Keys
<1>1. \A i \in DOMAIN s : s[i] \in Event
  OBVIOUS
<1>2. QED
  BY <1>1 DEF KeysIn, Event

LEMMA AppendKeys ==
  ASSUME NEW s \in Seq(Event), NEW e \in Event
  PROVE  KeysIn(Append(s, e)) = KeysIn(s) \cup {e.key}
<1>1. /\ Len(s) \in Nat
      /\ DOMAIN s = 1..Len(s)
      /\ DOMAIN Append(s, e) = 1..Len(s) + 1
      /\ \A i \in 1..Len(s) : Append(s, e)[i] = s[i]
      /\ Append(s, e)[Len(s) + 1] = e
  OBVIOUS
<1>2. \A i \in DOMAIN Append(s, e) : i \in DOMAIN s \/ i = Len(s) + 1
  BY <1>1
<1>3. KeysIn(Append(s, e)) \subseteq KeysIn(s) \cup {e.key}
  BY <1>1, <1>2 DEF KeysIn
<1>4. KeysIn(s) \cup {e.key} \subseteq KeysIn(Append(s, e))
  <2>1. \A i \in DOMAIN s : i \in DOMAIN Append(s, e)
    BY <1>1
  <2>2. Len(s) + 1 \in DOMAIN Append(s, e)
    BY <1>1
  <2>3. QED
    BY <1>1, <2>1, <2>2 DEF KeysIn
<1>5. QED
  BY <1>3, <1>4

LEMMA AppendEnd ==
  ASSUME NEW s \in Seq(Event), NEW k \in Keys, NEW row \in Rows
  PROVE  EndsWith(Append(s, [key |-> k, row |-> row]), k, row)
<1> DEFINE e == [key |-> k, row |-> row]
           t == Append(s, e)
<1>1. /\ Len(s) \in Nat
      /\ DOMAIN t = 1..Len(s) + 1
      /\ t[Len(s) + 1] = e
  BY DEF Event
<1>2. Len(s) + 1 \in DOMAIN t /\ \A j \in DOMAIN t : ~(j > Len(s) + 1)
  BY <1>1
<1> HIDE DEF t
<1>3. EndsWith(t, k, row)
  BY <1>1, <1>2 DEF EndsWith
<1>4. QED
  BY <1>3 DEF t

LEMMA AppendOther ==
  ASSUME NEW s \in Seq(Event), NEW e \in Event, NEW k, NEW row, e.key # k,
         EndsWith(s, k, row)
  PROVE  EndsWith(Append(s, e), k, row)
<1> DEFINE t == Append(s, e)
<1>1. /\ Len(s) \in Nat
      /\ DOMAIN s = 1..Len(s)
      /\ DOMAIN t = 1..Len(s) + 1
      /\ \A i \in 1..Len(s) : t[i] = s[i]
      /\ t[Len(s) + 1] = e
  OBVIOUS
<1> HIDE DEF t
<1>2. PICK i \in DOMAIN s : /\ s[i] = [key |-> k, row |-> row]
                            /\ \A j \in DOMAIN s : j > i => s[j].key # k
  BY DEF EndsWith
<1>3. i \in DOMAIN t /\ t[i] = [key |-> k, row |-> row]
  BY <1>1, <1>2
<1>4. ASSUME NEW j \in DOMAIN t, j > i PROVE t[j].key # k
  <2>1. CASE j \in DOMAIN s
    BY <1>1, <1>2, <1>4, <2>1
  <2>2. CASE j = Len(s) + 1
    BY <1>1, <2>2
  <2>3. QED
    BY <1>1, <2>1, <2>2
<1>5. EndsWith(t, k, row)
  BY <1>3, <1>4 DEF EndsWith
<1>6. QED
  BY <1>5 DEF t

LEMMA TailKeys ==
  ASSUME NEW s \in Seq(Event), s # <<>>
  PROVE  KeysIn(s) = KeysIn(Tail(s)) \cup {Head(s).key}
<1> DEFINE t == Tail(s)
<1>1. /\ Len(s) \in Nat /\ Len(s) > 0
      /\ DOMAIN s = 1..Len(s)
      /\ DOMAIN t = 1..Len(s) - 1
      /\ \A i \in 1..Len(s) - 1 : t[i] = s[i + 1]
      /\ Head(s) = s[1]
  OBVIOUS
<1> HIDE DEF t
<1>2. ASSUME NEW i \in DOMAIN s PROVE s[i].key \in KeysIn(t) \cup {Head(s).key}
  <2>1. CASE i = 1
    BY <1>1, <2>1
  <2>2. CASE i # 1
    <3>1. i - 1 \in DOMAIN t /\ t[i - 1] = s[i]
      BY <1>1, <2>2
    <3>2. QED
      BY <3>1 DEF KeysIn
  <2>3. QED
    BY <2>1, <2>2
<1>3. ASSUME NEW i \in DOMAIN t PROVE t[i].key \in KeysIn(s)
  <2>1. i + 1 \in DOMAIN s /\ t[i] = s[i + 1]
    BY <1>1
  <2>2. QED
    BY <2>1 DEF KeysIn
<1>4. Head(s).key \in KeysIn(s)
  <2>1. 1 \in DOMAIN s
    BY <1>1
  <2>2. QED
    BY <1>1, <2>1 DEF KeysIn
<1>5. KeysIn(s) = KeysIn(t) \cup {Head(s).key}
  BY <1>2, <1>3, <1>4 DEF KeysIn
<1>6. QED
  BY <1>5 DEF t

LEMMA TailEnd ==
  ASSUME NEW s \in Seq(Event), s # <<>>, NEW k, NEW row, EndsWith(s, k, row)
  PROVE  IF k \in KeysIn(Tail(s)) THEN EndsWith(Tail(s), k, row)
                                  ELSE Head(s) = [key |-> k, row |-> row]
<1> DEFINE t == Tail(s)
<1>1. /\ Len(s) \in Nat /\ Len(s) > 0
      /\ DOMAIN s = 1..Len(s)
      /\ DOMAIN t = 1..Len(s) - 1
      /\ \A i \in 1..Len(s) - 1 : t[i] = s[i + 1]
      /\ Head(s) = s[1]
  OBVIOUS
<1> HIDE DEF t
<1>2. PICK i \in DOMAIN s : /\ s[i] = [key |-> k, row |-> row]
                            /\ \A j \in DOMAIN s : j > i => s[j].key # k
  BY DEF EndsWith
<1>3. CASE i = 1
  <2>1. ASSUME NEW j \in DOMAIN t PROVE t[j].key # k
    <3>1. j + 1 \in DOMAIN s /\ j + 1 > i /\ t[j] = s[j + 1]
      BY <1>1, <1>3
    <3>2. QED
      BY <1>2, <3>1
  <2>2. k \notin KeysIn(t)
    BY <2>1 DEF KeysIn
  <2>3. QED
    BY <1>1, <1>2, <1>3, <2>2 DEF t
<1>4. CASE i # 1
  <2>1. i - 1 \in DOMAIN t /\ t[i - 1] = [key |-> k, row |-> row]
    BY <1>1, <1>2, <1>4
  <2>2. k \in KeysIn(t)
    BY <2>1 DEF KeysIn
  <2>3. ASSUME NEW j \in DOMAIN t, j > i - 1 PROVE t[j].key # k
    <3>1. j + 1 \in DOMAIN s /\ j + 1 > i /\ t[j] = s[j + 1]
      BY <1>1, <2>3
    <3>2. QED
      BY <1>2, <3>1
  <2>4. EndsWith(t, k, row)
    BY <2>1, <2>3 DEF EndsWith
  <2>5. QED
    BY <2>2, <2>4 DEF t
<1>5. QED
  BY <1>3, <1>4

LEMMA ListingsType ==
  ASSUME NEW rows \in [Keys -> Rows], NEW s \in Listings(rows)
  PROVE  s \in Seq(Event)
<1> DEFINE present == {k \in Keys : rows[k] # Gone}
<1>1. Cardinality(present) \in Nat
  <2>1. IsFiniteSet(present)
    BY RowsAssumption, FS_Subset, present \subseteq Keys
  <2>2. QED
    BY <2>1, FS_CardinalityType
<1>2. PICK t \in [1..Cardinality(present) -> present] :
           s = [i \in DOMAIN t |-> [key |-> t[i], row |-> rows[t[i]]]]
  BY DEF Listings
<1> HIDE DEF present
<1>3. \A i \in DOMAIN t : [key |-> t[i], row |-> rows[t[i]]] \in Event
  BY <1>2 DEF present, Event
<1>4. s \in [1..Cardinality(present) -> Event]
  BY <1>2, <1>3
<1>5. QED
  BY <1>1, <1>4

\* Every object is listed once, with its row.
LEMMA ListingsEnd ==
  ASSUME NEW rows \in [Keys -> Rows], NEW s \in Listings(rows), NEW k \in KeysIn(s)
  PROVE  EndsWith(s, k, rows[k])
<1> DEFINE present == {x \in Keys : rows[x] # Gone}
<1>1. PICK t \in [1..Cardinality(present) -> present] :
           /\ s = [i \in DOMAIN t |-> [key |-> t[i], row |-> rows[t[i]]]]
           /\ \A x \in present : \E i \in DOMAIN t : \A j \in DOMAIN t : t[j] = x <=> j = i
  BY DEF Listings
<1> HIDE DEF present
<1>2. DOMAIN s = DOMAIN t /\ \A i \in DOMAIN t : s[i] = [key |-> t[i], row |-> rows[t[i]]]
  BY <1>1
<1>3. PICK i \in DOMAIN t : k = t[i]
  BY <1>2 DEF KeysIn
<1>4. \A j \in DOMAIN t : t[j] = k => j = i
  BY <1>1, <1>3
<1>5. DOMAIN t \subseteq Nat
  BY <1>1
<1>6. \A j \in DOMAIN s : j > i => s[j].key # k
  BY <1>2, <1>3, <1>4, <1>5
<1>7. QED
  BY <1>2, <1>3, <1>6 DEF EndsWith

-----------------------------------------------------------------------------
(* Types.                                                                  *)

LEMMA InitType == Init => TypeOK
<1> SUFFICES ASSUME Init PROVE TypeOK
  OBVIOUS
<1>1. watch \in [Watchers -> Handler]
  BY DEF Init, Handler
<1>2. \A w \in Watchers : Len(channel[w]) <= Buffer
  BY BoundsAssumption DEF Init
<1>3. table \in [Names -> Conns \cup {NoConn}] /\ live \subseteq Conns
      /\ dialling \subseteq Names \X Conns /\ open \in BOOLEAN
  BY DEF Init, Registry!Init
<1>4. Empty \in [Keys -> Rows] /\ 0 \in 0..MaxChanges
  BY RowsAssumption, BoundsAssumption DEF Empty
<1>5. notices \in [Names -> Seq(Event)] /\ channel \in [Watchers -> Seq(Event)]
  BY DEF Init
<1>6. QED
  BY <1>1, <1>2, <1>3, <1>4, <1>5 DEF Init, TypeOK

\* Nobody becomes a stream or hears of anything when clusters come and go.
LEMMA ClustersType == ASSUME TypeOK, Clusters PROVE TypeOK'
<1>1. CASE Dial
  BY <1>1, RowsAssumption DEF TypeOK, Dial, Registry!Dial, streams, Empty
<1>2. CASE Settle
  BY <1>2 DEF TypeOK, Settle, Registry!Settle, streams
<1>3. CASE Drop
  BY <1>3 DEF TypeOK, Drop, Registry!Drop, streams
<1>4. CASE Open
  BY <1>4 DEF TypeOK, Open, Registry!Open, streams
<1>5. CASE Restart
  <2>1. watch' \in [Watchers -> Handler]
    BY <1>5 DEF TypeOK, Restart, Away, Handler, Idle
  <2>2. \A w \in Watchers : Len(channel'[w]) <= Buffer
    BY <1>5, BoundsAssumption DEF Restart
  <2>3. /\ table' \in [Names -> Conns \cup {NoConn}] /\ live' \subseteq Conns
        /\ dialling' \subseteq Names \X Conns /\ open' \in BOOLEAN
    BY <1>5 DEF Restart, Registry!Restart
  <2>4. Empty \in [Keys -> Rows] /\ 0 \in 0..MaxChanges
    BY RowsAssumption, BoundsAssumption DEF Empty
  <2>5. notices' \in [Names -> Seq(Event)] /\ channel' \in [Watchers -> Seq(Event)]
    BY <1>5 DEF Restart
  <2>6. QED
    BY <1>5, <2>1, <2>2, <2>3, <2>4, <2>5 DEF TypeOK, Restart
<1>6. QED
  BY <1>1, <1>2, <1>3, <1>4, <1>5 DEF Clusters

LEMMA NotifyType ==
  ASSUME TypeOK, NEW c, NEW k \in Keys, NEW row \in Rows, Notify(c, k, row)
  PROVE  notices' \in [Names -> Seq(Event)]
<1>1. [key |-> k, row |-> row] \in Event
  BY DEF Event
<1>2. QED
  BY <1>1 DEF TypeOK, Notify

LEMMA InformerType == ASSUME TypeOK, Change \/ Resync \/ Discard PROVE TypeOK'
<1>1. CASE Change
  <2>1. PICK c \in live, k \in Keys : \E row \in Rows :
             lister' = [lister EXCEPT ![c][k] = row] /\ Notify(c, k, row)
    BY <1>1 DEF Change
  <2>2. PICK row \in Rows : lister' = [lister EXCEPT ![c][k] = row] /\ Notify(c, k, row)
    BY <2>1
  <2>3. notices' \in [Names -> Seq(Event)]
    BY <2>2, NotifyType
  <2>4. lister' \in [Conns -> [Keys -> Rows]]
    BY <2>2 DEF TypeOK
  <2>5. changes' \in 0..MaxChanges
    BY <1>1, BoundsAssumption DEF TypeOK, Change
  <2>6. QED
    BY <1>1, <2>3, <2>4, <2>5 DEF TypeOK, Change, registry, streams
<1>2. CASE Resync
  <2>1. PICK c \in live, k \in Keys : Notify(c, k, lister[c][k])
    BY <1>2 DEF Resync
  <2>2. notices' \in [Names -> Seq(Event)]
    BY <2>1, NotifyType DEF TypeOK
  <2>3. QED
    BY <1>2, <2>2 DEF TypeOK, Resync, registry, streams
<1>3. CASE Discard
  BY <1>3 DEF TypeOK, Discard, registry, streams
<1>4. QED
  BY <1>1, <1>2, <1>3

LEMMA PublishType == ASSUME TypeOK, NEW n \in Names, Publish(n) PROVE TypeOK'
<1> DEFINE event == Head(notices[n])
           heard == {w \in Audience(n) : Len(channel[w]) < Buffer}
<1>1. event \in Event /\ notices' \in [Names -> Seq(Event)]
  BY DEF TypeOK, Publish
<1>2. /\ channel' = [w \in Watchers |-> IF w \in heard THEN Append(channel[w], event)
                                        ELSE channel[w]]
      /\ missed' = [w \in Watchers |->
           IF w \notin Audience(n) THEN missed[w]
           ELSE IF w \in heard THEN missed[w] \ {event.key}
           ELSE missed[w] \cup {event.key}]
  BY DEF Publish
<1>3. \A w \in heard : Len(channel[w]) < Buffer
  OBVIOUS
<1> HIDE DEF event, heard
<1>4. channel' \in [Watchers -> Seq(Event)]
  BY <1>1, <1>2 DEF TypeOK
<1>5. ASSUME NEW w \in Watchers PROVE Len(channel'[w]) <= Buffer
  <2>1. CASE w \in heard
    <3>1. channel'[w] = Append(channel[w], event) /\ channel[w] \in Seq(Event)
      BY <1>2, <2>1 DEF TypeOK
    <3>2. Len(channel'[w]) = Len(channel[w]) + 1 /\ Len(channel[w]) \in Nat
      BY <1>1, <3>1
    <3>3. QED
      BY <1>3, <2>1, <3>2, BoundsAssumption
  <2>2. CASE w \notin heard
    BY <1>2, <2>2 DEF TypeOK
  <2>3. QED
    BY <2>1, <2>2
<1>6. event.key \in Keys
  BY <1>1 DEF Event
<1>7. missed' \in [Watchers -> SUBSET Keys]
  BY <1>2, <1>6 DEF TypeOK
<1>8. QED
  BY <1>1, <1>4, <1>5, <1>7 DEF TypeOK, Publish, registry

\* A handler that moves on keeps its cluster and its client.
LEMMA MoveOnFields ==
  ASSUME TypeOK, NEW w \in Watchers, NEW pc, MoveOn(w, pc)
  PROVE  /\ watch'[w] = [pc |-> pc, name |-> watch[w].name, client |-> watch[w].client]
         /\ \A v \in Watchers : v # w => watch'[v] = watch[v]
         /\ pc \in {"subscribe", "snapshot", "stream"} /\ watch[w].pc # "idle"
               => watch' \in [Watchers -> Handler]
<1> DEFINE h == [watch[w] EXCEPT !.pc = pc]
<1>1. watch[w] \in Handler /\ watch \in [Watchers -> Handler]
  BY DEF TypeOK
<1>2. h = [pc |-> pc, name |-> watch[w].name, client |-> watch[w].client]
  BY <1>1 DEF Handler, Idle
<1>3. watch' = [watch EXCEPT ![w] = h]
  BY DEF MoveOn
<1> HIDE DEF h
<1>4. pc \in {"subscribe", "snapshot", "stream"} /\ watch[w].pc # "idle" => h \in Handler
  BY <1>1, <1>2 DEF Handler, Idle
<1>5. QED
  BY <1>1, <1>2, <1>3, <1>4

LEMMA StreamType ==
  ASSUME TypeOK, NEW w \in Watchers, Request(w) \/ SetUp(w) \/ Deliver(w) \/ Leave(w)
  PROVE  TypeOK'
<1>1. CASE Request(w)
  <2>1. watch' \in [Watchers -> Handler]
    BY <1>1 DEF TypeOK, Request, Handler, Idle
  <2>2. QED
    BY <1>1, <2>1 DEF TypeOK, Request, registry
<1>3. CASE BrokerForResource(w)
  <2>1. watch' \in [Watchers -> Handler]
    BY <1>3, MoveOnFields DEF BrokerForResource
  <2>2. watch[w].name \in Names /\ watch[w].client \in Conns
    BY <1>3 DEF TypeOK, Handler, Idle, BrokerForResource
  <2>3. attached' \in [Names -> Conns \cup {NoConn, NoBroker}]
    BY <1>3, <2>2 DEF TypeOK, BrokerForResource
  <2>4. notices' \in [Names -> Seq(Event)]
    <3>1. CASE UNCHANGED notices
      BY <3>1 DEF TypeOK
    <3>2. CASE ~UNCHANGED notices
      <4>1. watch[w].client \in Conns
        BY <2>2
      <4>2. PICK s \in Listings(lister[watch[w].client]) :
                 notices' = [notices EXCEPT ![watch[w].name] = s]
        BY <1>3, <3>2 DEF BrokerForResource
      <4>3. s \in Seq(Event)
        BY <4>1, ListingsType DEF TypeOK
      <4>4. QED
        BY <4>2, <4>3 DEF TypeOK
    <3>3. QED
      BY <3>1, <3>2
  <2>5. QED
    BY <1>3, <2>1, <2>3, <2>4 DEF TypeOK, BrokerForResource, registry
<1>4. CASE Subscribe(w)
  <2>1. watch' \in [Watchers -> Handler]
    BY <1>4, MoveOnFields DEF Subscribe
  <2>2. QED
    BY <1>4, <2>1 DEF TypeOK, Subscribe, registry
<1>5. CASE Snapshot(w)
  <2>0. watch[w].client \in Conns
    BY <1>5 DEF TypeOK, Handler, Idle, Snapshot
  <2>1. watch' \in [Watchers -> Handler]
    BY <1>5, MoveOnFields DEF Snapshot
  <2>2. QED
    BY <1>5, <2>0, <2>1 DEF TypeOK, Snapshot, registry
<1>6. CASE Deliver(w)
  <2>1. Head(channel[w]) \in Event /\ Tail(channel[w]) \in Seq(Event)
    BY <1>6 DEF TypeOK, Deliver
  <2>2. Len(Tail(channel[w])) <= Buffer
    BY <1>6, BoundsAssumption DEF TypeOK, Deliver
  <2>3. shown' \in [Watchers -> [Keys -> Rows]]
    BY <1>6, <2>1 DEF TypeOK, Deliver, Event
  <2>4. QED
    BY <1>6, <2>1, <2>2, <2>3 DEF TypeOK, Deliver, registry
<1>7. CASE Leave(w)
  <2>1. Away(w) \in Handler
    BY DEF TypeOK, Away, Handler, Idle
  <2>2. watch' \in [Watchers -> Handler]
    BY <1>7, <2>1 DEF TypeOK, Leave
  <2>3. QED
    BY <1>7, <2>2, RowsAssumption, BoundsAssumption DEF TypeOK, Leave, registry, Empty
<1>8. QED
  BY <1>1, <1>3, <1>4, <1>5, <1>6, <1>7 DEF SetUp

LEMMA TypeNext == ASSUME TypeOK, [Next]_vars PROVE TypeOK'
<1>1. CASE UNCHANGED vars
  BY <1>1 DEF TypeOK, vars, registry, streams
<1>2. CASE Next
  BY <1>2, ClustersType, InformerType, PublishType, StreamType DEF Next
<1>3. QED
  BY <1>1, <1>2

\* Every reachable state is well typed; in particular a handler that is under
\* way has a client and no channel is longer than its buffer.
THEOREM TypeCorrect == Spec => []TypeOK
<1>1. Init => TypeOK
  BY InitType
<1>2. TypeOK /\ [Next]_vars => TypeOK'
  BY TypeNext
<1>3. QED
  BY <1>1, <1>2, PTL DEF Spec

-----------------------------------------------------------------------------
(* The invariant.                                                          *)

\* The subscribers are the handlers between subscribe and unsubscribe, and
\* the others have an empty channel.
SubsInv ==
    \A w \in Watchers :
        /\ w \in subs <=> watch[w].pc \in {"snapshot", "stream"}
        /\ w \notin subs => channel[w] = <<>> /\ missed[w] = {}
        /\ watch[w].pc \in {"subscribe", "snapshot", "stream"}
               => attached[watch[w].name] # NoBroker

\* The notices still queued for the handler of a running informer end, for
\* each key they are about, in what the lister says.
NoticesInv ==
    \A n \in Names : attached[n] \in live =>
        \A k \in KeysIn(notices[n]) : EndsWith(notices[n], k, lister[attached[n]][k])

\* What is on its way to w will leave key k at this row.
Heading(w, k, row) ==
    \/ k \in KeysIn(notices[watch[w].name])
    \/ EndsWith(channel[w], k, row)
    \/ /\ k \notin KeysIn(channel[w])
       /\ watch[w].pc = "stream" => shown[w][k] = row

Subscribed(w) ==
    /\ watch[w].pc \in {"snapshot", "stream"}
    /\ watch[w].client \in live
    /\ attached[watch[w].name] = watch[w].client

\* For a subscriber the newest event about a key that was not lost is queued,
\* in its channel, or in what it shows or is about to show.
HeadingInv ==
    \A w \in Watchers : Subscribed(w) =>
        \A k \in Keys \ missed[w] : Heading(w, k, lister[watch[w].client][k])

WatchInv == SubsInv /\ NoticesInv /\ HeadingInv

\* It says what is wanted.
LEMMA InvFollows == ASSUME TypeOK, WatchInv PROVE FedStreamsFollow
<1> SUFFICES ASSUME NEW w \in Watchers, Fed(w), NEW k \in Keys \ missed[w]
             PROVE  WillShow(w, k, lister[watch[w].client][k])
  BY DEF FedStreamsFollow, Current
<1>1. Subscribed(w) /\ watch[w].pc = "stream"
  BY DEF Fed, Streaming, Subscribed
<1>2. Heading(w, k, lister[watch[w].client][k])
  BY <1>1 DEF WatchInv, HeadingInv
<1>3. watch[w].name \in Names
  BY DEF TypeOK, Handler, Idle
<1>4. k \in KeysIn(notices[watch[w].name])
        => EndsWith(notices[watch[w].name], k, lister[watch[w].client][k])
  BY <1>1, <1>3 DEF WatchInv, NoticesInv, Subscribed
<1>5. QED
  BY <1>1, <1>2, <1>4 DEF Heading, WillShow

\* Before the first request and after a restart.
Quiet ==
    /\ live = {}
    /\ \A n \in Names : attached[n] = NoBroker
    /\ subs = {}
    /\ \A w \in Watchers : /\ watch[w].pc = "idle"
                           /\ channel[w] = <<>>
                           /\ missed[w] = {}

LEMMA QuietInv == Quiet => WatchInv
BY DEF Quiet, WatchInv, SubsInv, NoticesInv, HeadingInv, Subscribed

LEMMA RestartInv == Quiet' => WatchInv'
<1>1. Quiet => WatchInv
  BY QuietInv
<1>2. QED
  BY <1>1, PTL

LEMMA ClustersInv == ASSUME TypeOK, WatchInv, Clusters PROVE WatchInv'
<1>1. CASE Dial
  <2>1. PICK n \in Names, c \in Conns \ Held :
             /\ Registry!Dial(n, c)
             /\ lister' = [lister EXCEPT ![c] = Empty]
    BY <1>1 DEF Dial
  <2>2. live' = live \cup {c} /\ UNCHANGED <<attached, notices, streams>>
    BY <1>1, <2>1 DEF Dial, Registry!Dial
  <2>3. \A m \in Names : attached[m] # c
    BY <2>1 DEF Held
  <2>4. \A w \in Watchers : watch[w].client # c
    BY <2>1 DEF Held
  <2>5. \A d \in Conns : d # c => lister'[d] = lister[d]
    BY <2>1 DEF TypeOK
  <2>6. \A m \in Names : attached[m] \in live' => attached[m] \in live /\ attached[m] \in Conns
    BY <2>2, <2>3 DEF TypeOK
  <2>7. NoticesInv'
    BY <2>2, <2>3, <2>5, <2>6 DEF WatchInv, NoticesInv
  <2>8. HeadingInv'
    <3>1. SUFFICES ASSUME NEW w \in Watchers, Subscribed(w)',
                          NEW k \in Keys \ missed[w]
                   PROVE  Heading(w, k, lister[watch[w].client][k])'
      BY <2>2 DEF HeadingInv, streams
    <3>2. watch[w].client \in live /\ watch[w].client \in Conns
      BY <2>2, <2>4, <3>1 DEF Subscribed, streams, TypeOK
    <3>3. Subscribed(w)
      BY <2>2, <3>1, <3>2 DEF Subscribed, streams
    <3>4. lister'[watch[w].client] = lister[watch[w].client]
      BY <2>4, <2>5, <3>2
    <3>5. Heading(w, k, lister[watch[w].client][k])
      BY <3>1, <3>3 DEF WatchInv, HeadingInv
    <3>6. QED
      BY <2>2, <3>4, <3>5 DEF Heading, streams
  <2>9. QED
    BY <2>2, <2>7, <2>8 DEF WatchInv, SubsInv, streams
<1>2. CASE Settle \/ Drop \/ Open
  <2>1. live' \subseteq live /\ UNCHANGED <<lister, attached, notices, streams>>
    BY <1>2 DEF Settle, Drop, Open, Registry!Settle, Registry!Drop, Registry!Open
  <2>2. QED
    BY <2>1 DEF WatchInv, SubsInv, NoticesInv, HeadingInv, Subscribed, Heading, streams
<1>3. CASE Restart
  <2>1. \A w \in Watchers : watch'[w].pc = "idle"
    BY <1>3 DEF Restart, Away
  <2>2. Quiet'
    BY <1>3, <2>1 DEF Quiet, Restart, Registry!Restart
  <2>3. QED
    BY <2>2, RestartInv
<1>4. QED
  BY <1>1, <1>2, <1>3 DEF Clusters

\* A notice about one key leaves the others where they were heading, and its
\* own key with what the lister says.
LEMMA NotifyInv ==
  ASSUME TypeOK, WatchInv, NEW c \in live, NEW k \in Keys, NEW row \in Rows,
         Notify(c, k, row),
         lister' \in [Conns -> [Keys -> Rows]],
         \A d \in Conns, x \in Keys : lister'[d][x] = IF d = c /\ x = k THEN row ELSE lister[d][x],
         UNCHANGED <<registry, attached, streams>>
  PROVE  WatchInv'
<1> DEFINE e == [key |-> k, row |-> row]
<1>1. e \in Event /\ e.key = k
  BY DEF Event
<1>2. \A n \in Names : notices'[n] = IF attached[n] = c THEN Append(notices[n], e) ELSE notices[n]
  BY DEF Notify
<1> HIDE DEF e
<1>3. \A n \in Names : notices[n] \in Seq(Event)
  BY DEF TypeOK
<1>4. \A n \in Names : KeysIn(notices'[n]) =
          IF attached[n] = c THEN KeysIn(notices[n]) \cup {k} ELSE KeysIn(notices[n])
  BY <1>1, <1>2, <1>3, AppendKeys
<1>5. NoticesInv'
  <2>1. SUFFICES ASSUME NEW n \in Names, attached[n] \in live, NEW x \in KeysIn(notices'[n])
                 PROVE  EndsWith(notices'[n], x, lister'[attached[n]][x])
    BY DEF NoticesInv, registry
  <2>2. attached[n] \in Conns
    BY <2>1 DEF TypeOK
  <2>3. x \in KeysIn(notices[n]) => EndsWith(notices[n], x, lister[attached[n]][x])
    BY <2>1 DEF WatchInv, NoticesInv
  <2>4. x \in Keys
    <3>1. KeysIn(notices[n]) \subseteq Keys
      BY <1>3, <2>1, KeysType
    <3>2. QED
      BY <1>4, <2>1, <3>1
  <2>5. CASE attached[n] = c /\ x = k
    BY <1>2, <1>3, <2>2, <2>4, <2>5, AppendEnd DEF e
  <2>6. CASE attached[n] = c /\ x # k
    BY <1>1, <1>2, <1>3, <1>4, <2>1, <2>2, <2>3, <2>4, <2>6, AppendOther
  <2>7. CASE attached[n] # c
    BY <1>2, <1>4, <2>1, <2>2, <2>3, <2>4, <2>7
  <2>8. QED
    BY <2>5, <2>6, <2>7
<1>6. HeadingInv'
  <2>1. SUFFICES ASSUME NEW w \in Watchers, Subscribed(w), NEW x \in Keys \ missed[w]
                 PROVE  Heading(w, x, lister[watch[w].client][x])'
    BY DEF HeadingInv, Subscribed, registry, streams
  <2>2. watch[w].name \in Names /\ watch[w].client \in Conns
    BY <2>1 DEF TypeOK, Handler, Idle, Subscribed
  <2>3. Heading(w, x, lister[watch[w].client][x])
    BY <2>1 DEF WatchInv, HeadingInv
  <2>4. CASE watch[w].client = c /\ x = k
    BY <1>4, <2>1, <2>2, <2>4 DEF Heading, Subscribed, streams
  <2>5. CASE ~(watch[w].client = c /\ x = k)
    <3>1. lister'[watch[w].client][x] = lister[watch[w].client][x]
      BY <2>2, <2>5
    <3>2. KeysIn(notices[watch[w].name]) \subseteq KeysIn(notices'[watch[w].name])
      BY <1>4, <2>2
    <3>3. QED
      BY <2>3, <3>1, <3>2 DEF Heading, streams
  <2>6. QED
    BY <2>4, <2>5
<1>7. QED
  BY <1>5, <1>6 DEF WatchInv, SubsInv, streams

LEMMA InformerInv == ASSUME TypeOK, WatchInv, Change \/ Resync \/ Discard PROVE WatchInv'
<1>1. CASE Change
  <2>1. PICK c \in live, k \in Keys : \E row \in Rows :
             lister' = [lister EXCEPT ![c][k] = row] /\ Notify(c, k, row)
    BY <1>1 DEF Change
  <2>2. PICK row \in Rows : lister' = [lister EXCEPT ![c][k] = row] /\ Notify(c, k, row)
    BY <2>1
  <2>3. lister' \in [Conns -> [Keys -> Rows]]
    BY <2>2 DEF TypeOK
  <2>4. \A d \in Conns, x \in Keys :
            lister'[d][x] = IF d = c /\ x = k THEN row ELSE lister[d][x]
    BY <2>2 DEF TypeOK
  <2>5. QED
    BY <1>1, <2>2, <2>3, <2>4, NotifyInv DEF Change
<1>2. CASE Resync
  <2>1. PICK c \in live, k \in Keys : Notify(c, k, lister[c][k])
    BY <1>2 DEF Resync
  <2>2. lister[c][k] \in Rows /\ lister' = lister
    BY <1>2 DEF TypeOK, Resync
  <2>3. QED
    BY <1>2, <2>1, <2>2, NotifyInv DEF Resync, TypeOK
<1>3. CASE Discard
  <2>1. PICK n \in Names : /\ attached[n] \notin live
                           /\ notices' = [notices EXCEPT ![n] = <<>>]
    BY <1>3 DEF Discard
  <2>2. \A m \in Names : attached[m] \in live => notices'[m] = notices[m]
    BY <2>1 DEF TypeOK
  <2>3. \A w \in Watchers : watch[w].name \in Names
    BY DEF TypeOK, Handler, Idle
  <2>4. \A w \in Watchers : Subscribed(w) => notices'[watch[w].name] = notices[watch[w].name]
    BY <2>2, <2>3 DEF Subscribed
  <2>5. NoticesInv'
    BY <1>3, <2>2 DEF WatchInv, NoticesInv, Discard, registry
  <2>6. HeadingInv'
    BY <1>3, <2>4 DEF WatchInv, HeadingInv, Heading, Subscribed, Discard, registry, streams
  <2>7. QED
    BY <1>3, <2>5, <2>6 DEF WatchInv, SubsInv, Discard, streams
<1>4. QED
  BY <1>1, <1>2, <1>3

LEMMA PublishInv == ASSUME TypeOK, WatchInv, NEW n \in Names, Publish(n) PROVE WatchInv'
<1> DEFINE e == Head(notices[n])
           heard == {w \in Audience(n) : Len(channel[w]) < Buffer}
<1>1. /\ notices[n] \in Seq(Event) /\ notices[n] # <<>>
      /\ notices'[n] = Tail(notices[n])
      /\ \A m \in Names : m # n => notices'[m] = notices[m]
  BY DEF TypeOK, Publish
<1>2. e \in Event /\ KeysIn(notices[n]) = KeysIn(notices'[n]) \cup {e.key}
  BY <1>1, TailKeys
<1>3. \A w \in Watchers :
          /\ channel'[w] = IF w \in heard THEN Append(channel[w], e) ELSE channel[w]
          /\ missed'[w] = IF w \notin Audience(n) THEN missed[w]
                          ELSE IF w \in heard THEN missed[w] \ {e.key}
                          ELSE missed[w] \cup {e.key}
  BY DEF Publish
<1>4. heard \subseteq Audience(n) /\ Audience(n) \subseteq subs
  BY DEF Audience
<1>5. UNCHANGED <<registry, lister, attached, subs, watch, shown>>
  BY DEF Publish
<1> HIDE DEF e, heard
<1>6. SubsInv'
  BY <1>3, <1>4, <1>5 DEF WatchInv, SubsInv
<1>7. NoticesInv'
  <2>1. SUFFICES ASSUME attached[n] \in live, NEW k \in KeysIn(notices'[n])
                 PROVE  EndsWith(notices'[n], k, lister[attached[n]][k])
    BY <1>1, <1>5 DEF WatchInv, NoticesInv, registry
  <2>2. EndsWith(notices[n], k, lister[attached[n]][k])
    BY <1>2, <2>1 DEF WatchInv, NoticesInv
  <2>3. QED
    BY <1>1, <2>1, <2>2, TailEnd
<1>8. HeadingInv'
  <2>1. SUFFICES ASSUME NEW w \in Watchers, Subscribed(w), NEW k \in Keys, k \notin missed'[w]
                 PROVE  Heading(w, k, lister[watch[w].client][k])'
    BY <1>5 DEF HeadingInv, Subscribed, registry
  <2>2. w \in subs /\ watch[w].name \in Names /\ channel[w] \in Seq(Event)
    BY <2>1 DEF WatchInv, SubsInv, Subscribed, TypeOK, Handler, Idle
  <2>3. CASE watch[w].name # n
    <3>1. w \notin Audience(n)
      BY <2>3 DEF Audience
    <3>2. Heading(w, k, lister[watch[w].client][k])
      BY <1>3, <2>1, <3>1 DEF WatchInv, HeadingInv
    <3>3. QED
      BY <1>1, <1>3, <1>4, <1>5, <2>2, <2>3, <3>1, <3>2 DEF Heading
  <2>4. CASE watch[w].name = n /\ k = e.key
    <3>1. w \in Audience(n)
      BY <2>2, <2>4 DEF Audience
    <3>2. w \in heard
      BY <1>3, <2>1, <2>4, <3>1
    <3>3. EndsWith(notices[n], k, lister[watch[w].client][k])
      BY <1>2, <2>1, <2>4 DEF WatchInv, NoticesInv, Subscribed
    <3>4. k \notin KeysIn(notices'[n]) => e = [key |-> k, row |-> lister[watch[w].client][k]]
      BY <1>1, <3>3, TailEnd DEF e
    <3>5. lister[watch[w].client][k] \in Rows
      BY <2>1 DEF TypeOK, Subscribed
    <3>6. channel'[w] = Append(channel[w], e)
      BY <1>3, <3>2
    <3>7. EndsWith(Append(channel[w], [key |-> k, row |-> lister[watch[w].client][k]]),
                   k, lister[watch[w].client][k])
      BY <2>1, <2>2, <3>5, AppendEnd
    <3>8. k \notin KeysIn(notices'[n]) => EndsWith(channel'[w], k, lister[watch[w].client][k])
      BY <3>4, <3>6, <3>7
    <3>9. QED
      BY <1>5, <2>4, <3>8 DEF Heading
  <2>5. CASE watch[w].name = n /\ k # e.key
    <3>1. k \notin missed[w]
      BY <1>3, <2>1, <2>5
    <3>2. Heading(w, k, lister[watch[w].client][k])
      BY <2>1, <3>1 DEF WatchInv, HeadingInv
    <3>3. k \in KeysIn(notices[n]) => k \in KeysIn(notices'[n])
      BY <1>2, <2>5
    <3>4. channel'[w] = channel[w] \/ channel'[w] = Append(channel[w], e)
      BY <1>3
    <3>5. k \notin KeysIn(channel[w]) => k \notin KeysIn(channel'[w])
      <4>1. KeysIn(Append(channel[w], e)) = KeysIn(channel[w]) \cup {e.key}
        BY <1>2, <2>2, AppendKeys
      <4>2. QED
        BY <2>5, <3>4, <4>1
    <3>6. ASSUME EndsWith(channel[w], k, lister[watch[w].client][k])
          PROVE  EndsWith(channel'[w], k, lister[watch[w].client][k])
      <4>1. EndsWith(Append(channel[w], e), k, lister[watch[w].client][k])
        BY <1>2, <2>2, <2>5, <3>6, AppendOther
      <4>2. QED
        BY <3>4, <3>6, <4>1
    <3>7. QED
      BY <1>5, <2>5, <3>2, <3>3, <3>5, <3>6 DEF Heading
  <2>6. QED
    BY <2>3, <2>4, <2>5
<1>9. QED
  BY <1>6, <1>7, <1>8 DEF WatchInv

LEMMA RequestInv == ASSUME TypeOK, WatchInv, NEW w \in Watchers, Request(w) PROVE WatchInv'
<1>1. /\ watch[w].pc = "idle" /\ watch'[w].pc = "broker"
      /\ \A v \in Watchers : v # w => watch'[v] = watch[v]
      /\ UNCHANGED <<registry, lister, attached, notices, subs, channel, shown, missed>>
  BY DEF TypeOK, Request
<1>2. SubsInv'
  BY <1>1 DEF WatchInv, SubsInv
<1>3. NoticesInv'
  BY <1>1 DEF WatchInv, NoticesInv, registry
<1>4. HeadingInv'
  BY <1>1 DEF WatchInv, HeadingInv, Heading, Subscribed, registry
<1>5. QED
  BY <1>2, <1>3, <1>4 DEF WatchInv

\* The first request for a name attaches a handler; nobody has subscribed to
\* its broker yet.
LEMMA BrokerInv ==
  ASSUME TypeOK, WatchInv, NEW w \in Watchers, BrokerForResource(w)
  PROVE  WatchInv'
<1> DEFINE n == watch[w].name
           c == watch[w].client
<1>1. watch[w].pc = "broker" /\ n \in Names /\ c \in Conns
  BY DEF TypeOK, Handler, Idle, BrokerForResource
<1>2. /\ watch'[w] = [pc |-> "subscribe", name |-> n, client |-> c]
      /\ \A v \in Watchers : v # w => watch'[v] = watch[v]
  BY MoveOnFields DEF BrokerForResource
<1>3. UNCHANGED <<live, lister, subs, channel, shown, missed>>
  BY DEF BrokerForResource, registry
<1>4. \A m \in Names : m # n \/ attached[n] # NoBroker =>
          attached'[m] = attached[m] /\ notices'[m] = notices[m]
  BY <1>1 DEF TypeOK, BrokerForResource
<1>5. attached'[n] # NoBroker
  BY <1>1, ConnsAssumption DEF TypeOK, BrokerForResource
<1>6. SubsInv'
  <2>1. \A v \in Watchers : watch[v].name \in Names
    BY DEF TypeOK, Handler, Idle
  <2>2. \A m \in Names : attached[m] # NoBroker => attached'[m] # NoBroker
    BY <1>4, <1>5
  <2>3. ASSUME NEW v \in Watchers, watch'[v].pc \in {"subscribe", "snapshot", "stream"}
        PROVE  attached'[watch'[v].name] # NoBroker
    BY <1>1, <1>2, <1>5, <2>1, <2>2, <2>3 DEF WatchInv, SubsInv
  <2>4. \A v \in Watchers : /\ v \in subs' <=> watch'[v].pc \in {"snapshot", "stream"}
                            /\ v \notin subs' => channel'[v] = <<>> /\ missed'[v] = {}
    BY <1>1, <1>2, <1>3 DEF WatchInv, SubsInv
  <2>5. QED
    BY <2>3, <2>4 DEF SubsInv
<1>7. NoticesInv'
  <2>1. SUFFICES ASSUME NEW m \in Names, attached'[m] \in live, NEW k \in KeysIn(notices'[m])
                 PROVE  EndsWith(notices'[m], k, lister[attached'[m]][k])
    BY <1>3 DEF NoticesInv
  <2>2. CASE m # n \/ attached[n] # NoBroker
    BY <1>4, <2>1, <2>2 DEF WatchInv, NoticesInv
  <2>3. CASE m = n /\ attached[n] = NoBroker
    <3>1. NoConn \notin live
      BY ConnsAssumption DEF TypeOK
    <3>2. PICK s \in Listings(lister[c]) : attached'[n] = c /\ notices'[n] = s
      BY <1>1, <2>1, <2>3, <3>1 DEF TypeOK, BrokerForResource
    <3>3. lister[c] \in [Keys -> Rows]
      BY <1>1 DEF TypeOK
    <3>4. EndsWith(s, k, lister[c][k])
      BY <2>1, <2>3, <3>2, <3>3, ListingsEnd
    <3>5. QED
      BY <2>3, <3>2, <3>4
  <2>4. QED
    BY <2>2, <2>3
<1>8. HeadingInv'
  <2>1. SUFFICES ASSUME NEW v \in Watchers, Subscribed(v)', NEW k \in Keys \ missed[v]
                 PROVE  Heading(v, k, lister[watch[v].client][k])'
    BY <1>3 DEF HeadingInv
  <2>2. v # w /\ watch'[v] = watch[v]
    BY <1>2, <2>1 DEF Subscribed
  <2>3. watch[v].pc \in {"snapshot", "stream"} /\ watch[v].name \in Names
    BY <2>1, <2>2 DEF Subscribed, TypeOK, Handler, Idle
  <2>4. watch[v].name # n \/ attached[n] # NoBroker
    BY <2>3 DEF WatchInv, SubsInv
  <2>5. /\ attached'[watch[v].name] = attached[watch[v].name]
        /\ notices'[watch[v].name] = notices[watch[v].name]
    BY <1>4, <2>3, <2>4
  <2>6. Heading(v, k, lister[watch[v].client][k])
    BY <1>3, <2>1, <2>2, <2>5 DEF WatchInv, HeadingInv, Subscribed
  <2>7. QED
    BY <1>3, <2>2, <2>5, <2>6 DEF Heading
<1>9. QED
  BY <1>6, <1>7, <1>8 DEF WatchInv

LEMMA StreamInv ==
  ASSUME TypeOK, WatchInv, NEW w \in Watchers,
         Subscribe(w) \/ Snapshot(w) \/ Deliver(w) \/ Leave(w)
  PROVE  WatchInv'
<1>1. UNCHANGED <<registry, lister, attached, notices>>
  BY DEF Subscribe, Snapshot, Deliver, Leave
<1>2. \A v \in Watchers : v # w => /\ watch'[v] = watch[v]
                                   /\ shown'[v] = shown[v]
                                   /\ missed'[v] = missed[v]
                                   /\ channel'[v] = channel[v]
                                   /\ v \in subs' <=> v \in subs
  BY MoveOnFields DEF TypeOK, Subscribe, Snapshot, Deliver, Leave
<1>3. /\ watch[w].pc # "idle"
      /\ watch[w].pc \in {"subscribe", "snapshot", "stream"}
      /\ watch[w].name \in Names /\ watch[w].client \in Conns
  BY DEF TypeOK, Handler, Idle, Subscribe, Snapshot, Deliver, Leave
<1>4. SUFFICES ASSUME NEW row \in [Keys -> Rows], row = lister[watch[w].client]
      PROVE /\ w \in subs' <=> watch'[w].pc \in {"snapshot", "stream"}
            /\ w \notin subs' => channel'[w] = <<>> /\ missed'[w] = {}
            /\ watch'[w].pc = "idle" \/ /\ watch'[w].name = watch[w].name
                                        /\ watch'[w].client = watch[w].client
            /\ Subscribed(w)' => \A k \in Keys \ missed'[w] : Heading(w, k, row[k])'
  <2>1. lister[watch[w].client] \in [Keys -> Rows]
    BY <1>3 DEF TypeOK
  <2>2. SubsInv'
    BY <1>1, <1>2, <1>3, <1>4, <2>1 DEF WatchInv, SubsInv
  <2>3. NoticesInv'
    BY <1>1 DEF WatchInv, NoticesInv, registry
  <2>4. HeadingInv'
    <3>1. ASSUME NEW v \in Watchers, v # w, Subscribed(v)', NEW k \in Keys \ missed'[v]
          PROVE  Heading(v, k, lister[watch[v].client][k])'
      <4>1. Subscribed(v) /\ k \in Keys \ missed[v]
        BY <1>1, <1>2, <3>1 DEF Subscribed, registry
      <4>2. Heading(v, k, lister[watch[v].client][k])
        BY <4>1 DEF WatchInv, HeadingInv
      <4>3. QED
        BY <1>1, <1>2, <3>1, <4>2 DEF Heading
    <3>2. ASSUME Subscribed(w)', NEW k \in Keys \ missed'[w]
          PROVE  Heading(w, k, lister[watch[w].client][k])'
      <4>1. watch'[w].client = watch[w].client
        BY <1>4, <2>1, <3>2 DEF Subscribed
      <4>2. QED
        BY <1>1, <1>4, <2>1, <3>2, <4>1 DEF Heading
    <3>3. QED
      BY <3>1, <3>2 DEF HeadingInv
  <2>5. QED
    BY <2>2, <2>3, <2>4 DEF WatchInv
<1>5. channel[w] \in Seq(Event)
  BY DEF TypeOK
<1>6. CASE Subscribe(w)
  <2>1. /\ watch[w].pc = "subscribe"
        /\ watch'[w] = [pc |-> "snapshot", name |-> watch[w].name, client |-> watch[w].client]
        /\ subs' = subs \cup {w}
        /\ UNCHANGED <<channel, missed>>
    BY <1>6, MoveOnFields DEF Subscribe
  <2>2. channel[w] = <<>> /\ missed[w] = {}
    BY <2>1 DEF WatchInv, SubsInv
  <2>3. KeysIn(channel'[w]) = {}
    BY <2>1, <2>2 DEF KeysIn
  <2>4. QED
    BY <2>1, <2>2, <2>3 DEF Heading
<1>7. CASE Snapshot(w)
  <2>1. /\ watch[w].pc = "snapshot"
        /\ watch'[w] = [pc |-> "stream", name |-> watch[w].name, client |-> watch[w].client]
        /\ shown'[w] = row
        /\ missed'[w] = missed[w] \cap KeysIn(channel[w])
        /\ UNCHANGED <<channel, subs>>
    BY <1>4, <1>7, MoveOnFields DEF TypeOK, Snapshot
  <2>2. ASSUME Subscribed(w)', NEW k \in Keys \ missed'[w]
        PROVE  Heading(w, k, row[k])'
    <3>1. Subscribed(w)
      BY <1>1, <2>1, <2>2 DEF Subscribed, registry
    <3>2. CASE k \in KeysIn(channel[w])
      <4>1. Heading(w, k, row[k])
        BY <1>4, <2>1, <2>2, <3>1, <3>2 DEF WatchInv, HeadingInv
      <4>2. QED
        BY <1>1, <2>1, <3>2, <4>1 DEF Heading
    <3>3. CASE k \notin KeysIn(channel[w])
      BY <2>1, <3>3 DEF Heading
    <3>4. QED
      BY <3>2, <3>3
  <2>3. QED
    BY <2>1, <2>2 DEF WatchInv, SubsInv
<1>8. CASE Deliver(w)
  <2> DEFINE e == Head(channel[w])
  <2>1. /\ watch[w].pc = "stream" /\ channel[w] # <<>>
        /\ channel'[w] = Tail(channel[w])
        /\ UNCHANGED <<subs, watch, missed>>
    BY <1>8 DEF TypeOK, Deliver
  <2>2. e \in Event
    BY <1>5, <2>1
  <2>3. \A k \in Keys : shown'[w][k] = IF k = e.key THEN e.row ELSE shown[w][k]
    BY <1>8, <2>2 DEF TypeOK, Deliver, Event
  <2>4. KeysIn(channel[w]) = KeysIn(channel'[w]) \cup {e.key}
    BY <1>5, <2>1, TailKeys
  <2>5. \A k : EndsWith(channel[w], k, row[k]) =>
            IF k \in KeysIn(channel'[w]) THEN EndsWith(channel'[w], k, row[k])
                                         ELSE e = [key |-> k, row |-> row[k]]
    BY <1>5, <2>1, TailEnd
  <2> HIDE DEF e
  <2>6. ASSUME Subscribed(w)', NEW k \in Keys \ missed'[w]
        PROVE  Heading(w, k, row[k])'
    <3>1. Subscribed(w) /\ k \in Keys \ missed[w]
      BY <1>1, <2>1, <2>6 DEF Subscribed, registry
    <3>2. Heading(w, k, row[k])
      BY <1>4, <3>1 DEF WatchInv, HeadingInv
    <3>3. CASE k \in KeysIn(notices[watch[w].name])
      BY <1>1, <2>1, <3>3 DEF Heading
    <3>4. CASE EndsWith(channel[w], k, row[k])
      BY <2>1, <2>3, <2>5, <3>4 DEF Heading
    <3>5. CASE k \notin KeysIn(channel[w]) /\ shown[w][k] = row[k]
      BY <2>1, <2>3, <2>4, <3>5 DEF Heading
    <3>6. QED
      BY <2>1, <3>2, <3>3, <3>4, <3>5 DEF Heading
  <2>7. QED
    BY <2>1, <2>6 DEF WatchInv, SubsInv
<1>9. CASE Leave(w)
  <2>1. /\ watch'[w].pc = "idle" /\ w \notin subs'
        /\ channel'[w] = <<>> /\ missed'[w] = {}
    BY <1>9 DEF TypeOK, Leave, Away
  <2>2. QED
    BY <2>1 DEF Subscribed
<1>10. QED
  BY <1>6, <1>7, <1>8, <1>9

LEMMA WatchNext == ASSUME TypeOK, WatchInv, [Next]_vars PROVE WatchInv'
<1>1. CASE UNCHANGED vars
  BY <1>1 DEF vars, registry, streams, WatchInv, SubsInv, NoticesInv, HeadingInv,
              Subscribed, Heading
<1>2. CASE Next
  BY <1>2, ClustersInv, InformerInv, PublishInv, RequestInv, BrokerInv, StreamInv
  DEF Next, SetUp
<1>3. QED
  BY <1>1, <1>2

\* Whatever the number of clusters, objects and browsers, the sizes of the
\* buffers and the order of events, snapshots and subscriptions: a stream whose
\* broker is fed by its own client is on its way to what the lister holds, but
\* for the keys whose newest event a full channel has lost.
THEOREM FedStreamsFollowAlways == Spec => []FedStreamsFollow
<1>1. Init => TypeOK /\ WatchInv
  <2>1. Init => Quiet
    BY DEF Init, Quiet, Idle, Registry!Init
  <2>2. QED
    BY <2>1, InitType, QuietInv
<1>2. TypeOK /\ WatchInv /\ [Next]_vars => (TypeOK /\ WatchInv)'
  BY TypeNext, WatchNext
<1>3. TypeOK /\ WatchInv => FedStreamsFollow
  BY InvFollows
<1>4. QED
  BY <1>1, <1>2, <1>3, PTL DEF Spec

-----------------------------------------------------------------------------
(* Brokers and the registry.                                               *)

\* Connections that handlers and brokers hold and that still live are those
\* registered under their names; an open registry dials free names only.
HeldInv ==
    /\ open => \A d \in dialling : table[d[1]] = NoConn
    /\ \A w \in Watchers : watch[w].pc # "idle" =>
        open /\ (watch[w].client \in live => table[watch[w].name] = watch[w].client)
    /\ \A n \in Names : attached[n] \in live => open /\ table[n] = attached[n]

LEMMA ClustersHeld == ASSUME TypeOK, HeldInv, Clusters PROVE HeldInv'
<1>1. /\ \A w \in Watchers : watch[w].name \in Names /\ watch[w].client \in Held
      /\ \A n \in Names : attached[n] \in Held
      /\ NoConn \notin live /\ table \in [Names -> Conns \cup {NoConn}]
  BY ConnsAssumption DEF TypeOK, Handler, Idle, Held
<1>2. CASE Dial
  <2>1. PICK n \in Names, c \in Conns \ Held : Registry!Dial(n, c)
    BY <1>2 DEF Dial
  <2>2. (open => table[n] = NoConn) /\ UNCHANGED <<table, open, watch, attached>>
    BY <1>2, <2>1 DEF Dial, Registry!Dial, streams
  <2>3. live' = live \cup {c}
    BY <2>1 DEF Registry!Dial
  <2>4. open => \A d \in dialling' : table[d[1]] = NoConn
    <3> DEFINE e == <<n, c>>
    <3>1. e[1] = n
      OBVIOUS
    <3>2. dialling' = {e}
      BY <2>1 DEF Registry!Dial
    <3> HIDE DEF e
    <3>3. QED
      BY <2>2, <3>1, <3>2
  <2>5. \A w \in Watchers : watch[w].client \in live' => watch[w].client \in live
    BY <1>1, <2>1, <2>3
  <2>6. \A m \in Names : attached[m] \in live' => attached[m] \in live
    BY <1>1, <2>1, <2>3
  <2>7. QED
    BY <2>2, <2>4, <2>5, <2>6 DEF HeldInv
<1>3. CASE Settle
  <2>1. PICK n \in Names, c \in Conns : Registry!Settle(n, c)
    BY <1>3 DEF Settle
  <2>2. /\ dialling = {<<n, c>>} /\ dialling' = {} /\ table' = [table EXCEPT ![n] = c]
        /\ UNCHANGED <<live, open, watch, attached>>
    BY <1>3, <2>1 DEF Settle, Registry!Settle, streams
  <2>3. open => table[n] = NoConn
    <3> DEFINE d == <<n, c>>
    <3>1. d \in dialling /\ d[1] = n
      BY <2>2
    <3> HIDE DEF d
    <3>2. QED
      BY <3>1 DEF HeldInv
  <2>4. \A m \in Names : open /\ table[m] \in live => table'[m] = table[m]
    BY <1>1, <2>2, <2>3
  <2>5. QED
    BY <1>1, <2>2, <2>4 DEF HeldInv
<1>4. CASE Drop
  <2>1. PICK n \in Names : Registry!Drop(n)
    BY <1>4 DEF Drop
  <2>2. /\ live' = live \ {table[n]} /\ table' = [table EXCEPT ![n] = NoConn]
        /\ dialling = {} /\ UNCHANGED <<dialling, open, watch, attached>>
    BY <1>4, <2>1 DEF Drop, Registry!Drop, streams
  <2>3. \A m \in Names : table[m] \in live' => table'[m] = table[m]
    BY <1>1, <2>2
  <2>4. QED
    BY <1>1, <2>2, <2>3 DEF HeldInv
<1>5. CASE Open
  <2>1. dialling = {} /\ open' /\ UNCHANGED <<table, live, dialling, watch, attached>>
    BY <1>5 DEF Open, Registry!Open, streams
  <2>2. QED
    BY <2>1 DEF HeldInv
<1>6. CASE Restart
  <2>1. \A w \in Watchers : watch'[w].pc = "idle"
    BY <1>6 DEF Restart, Away
  <2>2. ~open' /\ live' = {}
    BY <1>6 DEF Restart, Registry!Restart
  <2>3. QED
    BY <2>1, <2>2 DEF HeldInv
<1>7. QED
  BY <1>2, <1>3, <1>4, <1>5, <1>6 DEF Clusters

LEMMA MoveOnKeeps ==
  ASSUME TypeOK, NEW w \in Watchers, NEW pc, MoveOn(w, pc)
  PROVE  /\ watch'[w].name = watch[w].name /\ watch'[w].client = watch[w].client
         /\ \A v \in Watchers : v # w => watch'[v] = watch[v]
<1>1. /\ watch'[w] = [pc |-> pc, name |-> watch[w].name, client |-> watch[w].client]
      /\ \A v \in Watchers : v # w => watch'[v] = watch[v]
  BY MoveOnFields
<1>2. QED
  BY <1>1

LEMMA SameHeld ==
  ASSUME HeldInv, UNCHANGED <<registry, attached, watch>>
  PROVE  HeldInv'
BY DEF HeldInv, registry

\* A handler takes a client that is registered, and only a broker of a name
\* that has none is attached to it.
LEMMA HandlerHeld ==
  ASSUME TypeOK, WatchInv, HeldInv, NEW w \in Watchers,
         Request(w) \/ SetUp(w) \/ Deliver(w) \/ Leave(w)
  PROVE  HeldInv'
<1>1. UNCHANGED <<table, live, dialling, open>>
  BY DEF Request, SetUp, BrokerForResource, Subscribe, Snapshot, Deliver, Leave, registry
<1>2. CASE Request(w)
  <2>1. PICK n \in Names : watch' = [watch EXCEPT ![w] =
            [pc |-> "broker", name |-> n, client |-> table[n]]]
    BY <1>2 DEF Request
  <2>2. /\ watch'[w].name = n /\ watch'[w].client = table[n]
        /\ \A v \in Watchers : v # w => watch'[v] = watch[v]
    BY <2>1 DEF TypeOK
  <2>3. open /\ UNCHANGED attached
    BY <1>2 DEF Request
  <2>4. QED
    BY <1>1, <2>2, <2>3 DEF HeldInv
<1>3. CASE BrokerForResource(w)
  <2>1. /\ watch[w].pc = "broker" /\ MoveOn(w, "subscribe")
        /\ watch[w].name \in Names /\ NoConn \notin live
    BY <1>3, ConnsAssumption DEF BrokerForResource, TypeOK, Handler, Idle
  <2>2. /\ watch'[w].name = watch[w].name /\ watch'[w].client = watch[w].client
        /\ \A v \in Watchers : v # w => watch'[v] = watch[v]
    BY <2>1, MoveOnKeeps
  <2>3. \A n \in Names : \/ attached'[n] = attached[n] \/ attached'[n] = NoConn
                         \/ n = watch[w].name /\ attached'[n] = watch[w].client
    BY <1>3 DEF BrokerForResource, TypeOK
  <2>4. \A n \in Names : attached'[n] \in live => open /\ table[n] = attached'[n]
    BY <2>1, <2>3 DEF HeldInv
  <2>5. QED
    BY <1>1, <2>1, <2>2, <2>4 DEF HeldInv
<1>4. CASE Subscribe(w) \/ Snapshot(w)
  <2>1. watch[w].pc # "idle" /\ UNCHANGED attached
        /\ (MoveOn(w, "snapshot") \/ MoveOn(w, "stream"))
    BY <1>4 DEF Subscribe, Snapshot
  <2>2. /\ watch'[w].name = watch[w].name /\ watch'[w].client = watch[w].client
        /\ \A v \in Watchers : v # w => watch'[v] = watch[v]
    BY <2>1, MoveOnKeeps
  <2>3. QED
    BY <1>1, <2>1, <2>2 DEF HeldInv
<1>5. CASE Deliver(w)
  BY <1>5, SameHeld DEF Deliver
<1>6. CASE Leave(w)
  <2>1. /\ watch'[w].pc = "idle" /\ \A v \in Watchers : v # w => watch'[v] = watch[v]
        /\ UNCHANGED attached
    BY <1>6 DEF Leave, Away, TypeOK
  <2>2. QED
    BY <1>1, <2>1 DEF HeldInv
<1>7. QED
  BY <1>2, <1>3, <1>4, <1>5, <1>6 DEF SetUp

LEMMA HeldNext == ASSUME TypeOK, WatchInv, HeldInv, [Next]_vars PROVE HeldInv'
<1>1. CASE UNCHANGED vars
  BY <1>1, SameHeld DEF vars, streams
<1>2. CASE Change \/ Resync \/ Discard \/ \E n \in Names : Publish(n)
  <2>1. UNCHANGED <<registry, attached, watch>>
    BY <1>2 DEF Change, Resync, Discard, Publish, streams
  <2>2. QED
    BY <2>1, SameHeld
<1>3. QED
  BY <1>1, <1>2, ClustersHeld, HandlerHeld DEF Next

\* A stream that is not told of changes is one whose broker is attached to a
\* connection that has been closed (brokerForResource keeps brokers by name), for
\* any number of names, connections and streams.
THEOREM OnlyDeadBrokersAreSilentAlways == Spec => []OnlyDeadBrokersAreSilent
<1>1. Init => TypeOK /\ WatchInv /\ HeldInv
  <2> SUFFICES ASSUME Init PROVE TypeOK /\ WatchInv /\ HeldInv
    OBVIOUS
  <2>1. Quiet
    BY DEF Init, Quiet, Idle, Registry!Init
  <2>2. /\ \A w \in Watchers : watch[w].pc = "idle"
        /\ ~open /\ live = {}
    BY DEF Init, Idle, Registry!Init
  <2>3. HeldInv
    BY <2>2 DEF HeldInv
  <2>4. QED
    BY <2>1, <2>3, InitType, QuietInv
<1>2. TypeOK /\ WatchInv /\ HeldInv /\ [Next]_vars => (TypeOK /\ WatchInv /\ HeldInv)'
  BY TypeNext, WatchNext, HeldNext
<1>3. TypeOK /\ HeldInv => OnlyDeadBrokersAreSilent
  <2> SUFFICES ASSUME TypeOK, HeldInv, NEW w \in Watchers, Streaming(w),
                      attached[watch[w].name] \in live
               PROVE  Fed(w)
    BY DEF OnlyDeadBrokersAreSilent
  <2>1. watch[w].pc # "idle" /\ watch[w].client \in live /\ watch[w].name \in Names
    BY DEF Streaming, TypeOK, Handler, Idle
  <2>2. QED
    BY <2>1 DEF HeldInv, Fed
<1>4. QED
  BY <1>1, <1>2, <1>3, PTL DEF Spec
=============================================================================
