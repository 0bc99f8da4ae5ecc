-------------------------- MODULE LiveTableProofs --------------------------
(***************************************************************************)
(* Theorems about LiveTable, for every value of its constants.             *)
(***************************************************************************)
EXTENDS LiveTable, FiniteSets, FiniteSetTheorems, WellFoundedInduction, TLAPS

LineSet == [key : Keys, row : Rows \ {Gone}]
Tables == [rows : [Keys -> Rows], shown : Seq(LineSet), here : BOOLEAN]
Lists == [Keys -> Rows]
Requests ==
    [cluster : Clusters, view : LiveViews, use : {"resync", "fallback"},
     list : Lists \cup {NoAnswer}]

\* The keys whose rows pass the filter, and a list of lines that shows them.
Visible(rows) == {k \in Keys : rows[k] # Gone /\ _passesFilter(k)}

Sorted(s) == \A i, j \in DOMAIN s : i < j => s[i].key < s[j].key

Enumerates(s, rows, keys) ==
    /\ Sorted(s)
    /\ \A i \in DOMAIN s : s[i].key \in keys /\ s[i].row = rows[s[i].key]
    /\ \A k \in keys : \E i \in DOMAIN s : s[i].key = k

Good(t) ==
    /\ t \in Tables
    /\ t.here => Enumerates(t.shown, t.rows, Visible(t.rows))
    /\ ~t.here => t.shown = <<>>

-----------------------------------------------------------------------------
(***************************************************************************)
(* The inductive invariant.                                                *)
(***************************************************************************)

PlaceOK ==
    /\ world \in [Clusters \X LiveViews -> Lists]
    /\ cluster \in Clusters /\ namespace \in Namespaces /\ view \in LiveViews \cup {Page}

StreamOK ==
    /\ es \in Streams \cup {NoStream}
    /\ es # NoStream => es.view = view
    /\ es = NoStream <=> view = Page

FetchesOK == fetch \in [Fetches -> Requests \cup {NoFetch}]

\* The timer of the table that is open.
Timer(v) == IF es # NoStream /\ es.timer /\ es.view = v THEN 1 ELSE 0

\* Every table was opened by an act of the user, at once or when an answer came.
ActsOK ==
    /\ late \in [LiveViews -> Nat] /\ awaiting \in Nat /\ pages \in Nat
    /\ deleting \subseteq [view : LiveViews, key : Keys] /\ IsFiniteSet(deleting)
    /\ acts \in 0 .. MaxActs
    /\ \A v \in LiveViews : late[v] + Timer(v) + awaiting + Cardinality(deleting) <= acts
    /\ awaiting <= acts

IInv == PlaceOK /\ Good(table) /\ StreamOK /\ FetchesOK /\ ActsOK
-----------------------------------------------------------------------------
(* Induction and recursion over 0 .. N, as facts about sets and functions.   *)

LEMMA Least ==
  ASSUME NEW T, T \subseteq Nat, T # {}
  PROVE  \E n \in T : \A m \in T : n <= m
<1> DEFINE R == OpToRel(<, Nat)
<1>1. IsWellFoundedOn(R, Nat)
  BY NatLessThanWellFounded, Zenon
<1>2. \A n, m \in Nat : n < m => <<n, m>> \in R
  BY DEF OpToRel
<1> HIDE DEF R
<1>3. PICK n \in T : \A m \in T : ~(<<m, n>> \in R)
  BY <1>1, WFMin
<1>4. ASSUME NEW m \in T PROVE n <= m
  <2>1. n \in Nat /\ m \in Nat /\ ~(m < n)
    BY <1>2, <1>3
  <2>2. QED
    BY <2>1
<1>5. QED
  BY <1>3, <1>4

LEMMA MinType ==
  ASSUME NEW T, T \subseteq Nat, T # {}
  PROVE  Min(T) \in T /\ \A m \in T : Min(T) <= m
BY Least DEF Min

LEMMA Steps ==
  ASSUME NEW N \in Nat, NEW P, 0 \in P, \A n \in 1 .. N : n - 1 \in P => n \in P
  PROVE  \A n \in 0 .. N : n \in P
<1> DEFINE S == (0 .. N) \ P
<1>1. SUFFICES ASSUME S # {} PROVE FALSE
  OBVIOUS
<1>2. S \subseteq Nat
  OBVIOUS
<1> HIDE DEF S
<1>3. PICK n \in S : \A m \in S : n <= m
  BY <1>1, <1>2, Least
<1>4. n \in 1 .. N /\ n \notin P /\ n - 1 \in 0 .. N /\ ~(n <= n - 1)
  BY <1>3 DEF S
<1>5. n - 1 \in P
  BY <1>3, <1>4 DEF S
<1>6. QED
  BY <1>4, <1>5

\* A loop over 1 .. N that has a state in T has a function that records it.
Records(g, N, T, first, step) ==
    /\ g \in [0 .. N -> T]
    /\ g[0] = first
    /\ \A n \in 1 .. N : g[n] = step[n][g[n - 1]]

LEMMA Loop ==
  ASSUME NEW N \in Nat, NEW T, NEW first \in T, NEW step \in [1 .. N -> [T -> T]]
  PROVE  \E g : Records(g, N, T, first, step)
<1> DEFINE Runs(g, n) == /\ g \in [0 .. n -> T]
                         /\ g[0] = first
                         /\ \A m \in 1 .. n : g[m] = step[m][g[m - 1]]
           P == {n \in 0 .. N : \E g \in [0 .. n -> T] : Runs(g, n)}
<1>1. 0 \in P
  <2> DEFINE g == [m \in 0 .. 0 |-> first]
  <2>1. g \in [0 .. 0 -> T] /\ g[0] = first
    OBVIOUS
  <2>2. \A m \in 1 .. 0 : g[m] = step[m][g[m - 1]]
    OBVIOUS
  <2> HIDE DEF g
  <2>3. QED
    BY <2>1, <2>2
<1>2. ASSUME NEW n \in 1 .. N, n - 1 \in P PROVE n \in P
  <2>1. PICK g \in [0 .. n - 1 -> T] : Runs(g, n - 1)
    BY <1>2
  <2> DEFINE h == [m \in 0 .. n |-> IF m = n THEN step[n][g[n - 1]] ELSE g[m]]
  <2>2. h \in [0 .. n -> T] /\ h[0] = first
    BY <2>1
  <2>3. ASSUME NEW m \in 1 .. n PROVE h[m] = step[m][h[m - 1]]
    <3>1. CASE m = n
      BY <3>1
    <3>2. CASE m # n
      BY <2>1, <3>2
    <3>3. QED
      BY <3>1, <3>2
  <2>4. n \in 0 .. N
    OBVIOUS
  <2> HIDE DEF h
  <2>5. Runs(h, n)
    BY <2>2, <2>3
  <2>6. QED
    BY <2>2, <2>4, <2>5
<1>3. N \in P
  <2> HIDE DEF P
  <2>1. \A n \in 0 .. N : n \in P
    BY <1>1, <1>2, Steps
  <2>2. N \in 0 .. N
    OBVIOUS
  <2>3. QED
    BY <2>1, <2>2
<1>4. PICK g \in [0 .. N -> T] : Runs(g, N)
  BY <1>3
<1>5. QED
  BY <1>4 DEF Records

-----------------------------------------------------------------------------
(* Sequences.                                                                *)

LEMMA InsertAtType ==
  ASSUME NEW T, NEW s \in Seq(T), NEW i \in 1 .. Len(s) + 1, NEW e \in T
  PROVE  /\ InsertAt(s, i, e) \in Seq(T)
         /\ DOMAIN InsertAt(s, i, e) = 1 .. Len(s) + 1
         /\ \A j \in 1 .. i - 1 : InsertAt(s, i, e)[j] = s[j]
         /\ InsertAt(s, i, e)[i] = e
         /\ \A j \in i + 1 .. Len(s) + 1 : InsertAt(s, i, e)[j] = s[j - 1]
<1> DEFINE a == SubSeq(s, 1, i - 1)
           b == SubSeq(s, i, Len(s))
           c == a \o <<e>>
<1>1. Len(s) \in Nat /\ i \in Nat /\ \A j \in 1 .. Len(s) : s[j] \in T
  OBVIOUS
<1>2. a \in Seq(T) /\ Len(a) = i - 1 /\ \A j \in 1 .. i - 1 : a[j] = s[j]
  BY <1>1
<1>3. b \in Seq(T) /\ Len(b) = Len(s) - i + 1 /\ \A j \in 1 .. Len(b) : b[j] = s[i + j - 1]
  BY <1>1
<1> HIDE DEF a, b
<1>4. c \in Seq(T) /\ Len(c) = i /\ c[i] = e /\ \A j \in 1 .. i - 1 : c[j] = s[j]
  BY <1>1, <1>2
<1> HIDE DEF c
<1>5. /\ c \o b \in Seq(T) /\ Len(c \o b) = Len(s) + 1
      /\ \A j \in 1 .. i : (c \o b)[j] = c[j]
      /\ \A j \in i + 1 .. Len(s) + 1 : (c \o b)[j] = b[j - i]
  BY <1>1, <1>3, <1>4
<1>6. ASSUME NEW j \in i + 1 .. Len(s) + 1 PROVE b[j - i] = s[j - 1]
  BY <1>1, <1>3
<1>7. InsertAt(s, i, e) = c \o b
  BY DEF InsertAt, a, b, c
<1>8. QED
  BY <1>1, <1>4, <1>5, <1>6, <1>7

LEMMA RemoveAtType ==
  ASSUME NEW T, NEW s \in Seq(T), NEW i \in DOMAIN s
  PROVE  /\ RemoveAt(s, i) \in Seq(T)
         /\ DOMAIN RemoveAt(s, i) = 1 .. Len(s) - 1
         /\ \A j \in 1 .. i - 1 : RemoveAt(s, i)[j] = s[j]
         /\ \A j \in i .. Len(s) - 1 : RemoveAt(s, i)[j] = s[j + 1]
<1> DEFINE a == SubSeq(s, 1, i - 1)
           b == SubSeq(s, i + 1, Len(s))
<1>1. Len(s) \in Nat /\ i \in 1 .. Len(s) /\ \A j \in 1 .. Len(s) : s[j] \in T
  OBVIOUS
<1>2. a \in Seq(T) /\ Len(a) = i - 1 /\ \A j \in 1 .. i - 1 : a[j] = s[j]
  BY <1>1
<1>3. b \in Seq(T) /\ Len(b) = Len(s) - i /\ \A j \in 1 .. Len(b) : b[j] = s[i + j]
  BY <1>1
<1> HIDE DEF a, b
<1>4. /\ a \o b \in Seq(T) /\ Len(a \o b) = Len(s) - 1
      /\ \A j \in 1 .. i - 1 : (a \o b)[j] = a[j]
      /\ \A j \in i .. Len(s) - 1 : (a \o b)[j] = b[j - i + 1]
  BY <1>1, <1>2, <1>3
<1>5. ASSUME NEW j \in i .. Len(s) - 1 PROVE b[j - i + 1] = s[j + 1]
  BY <1>1, <1>3
<1>6. RemoveAt(s, i) = a \o b
  BY DEF RemoveAt, a, b
<1>7. QED
  BY <1>1, <1>2, <1>4, <1>5, <1>6

-----------------------------------------------------------------------------
(* Sorted lines: there is one list of them for a set of keys, and _renderAll *)
(* draws it.                                                                 *)

LEMMA LineFields ==
  ASSUME NEW s \in Seq(LineSet), NEW i \in DOMAIN s
  PROVE  /\ i \in Nat /\ s[i] \in LineSet /\ s[i].key \in Keys /\ s[i].key \in Nat
         /\ s[i].row \in Rows /\ s[i].row # Gone
<1>1. i \in Nat /\ s[i] \in LineSet
  OBVIOUS
<1>2. QED
  BY <1>1, KeysAssumption DEF LineSet, Keys

LEMMA LineType ==
  ASSUME NEW k \in Keys, NEW row \in Rows, row # Gone
  PROVE  Line(k, row) \in LineSet /\ Line(k, row).key = k /\ Line(k, row).row = row
BY DEF Line, LineSet

\* Two lists of the same rows that agree up to i agree at i, one half.
LEMMA NoFurther ==
  ASSUME NEW rows, NEW keys, NEW s \in Seq(LineSet), NEW u \in Seq(LineSet),
         Enumerates(s, rows, keys), Enumerates(u, rows, keys),
         NEW i \in DOMAIN s, \A j \in 1 .. i - 1 : j \in DOMAIN u /\ s[j] = u[j]
  PROVE  i \in DOMAIN u /\ u[i].key <= s[i].key
<1>1. PICK j \in DOMAIN u : u[j].key = s[i].key
  BY DEF Enumerates
<1>2. /\ Len(s) \in Nat /\ Len(u) \in Nat
      /\ DOMAIN s = 1 .. Len(s) /\ DOMAIN u = 1 .. Len(u)
      /\ s[i].key \in Nat
  BY LineFields
<1>3. ~(j < i)
  <2>1. SUFFICES ASSUME j < i PROVE FALSE
    OBVIOUS
  <2>2. j \in DOMAIN s /\ j \in 1 .. i - 1
    BY <1>2, <2>1
  <2>3. s[j].key < s[i].key
    BY <2>1, <2>2 DEF Enumerates, Sorted
  <2>4. s[j].key = s[i].key
    BY <1>1, <2>2
  <2>5. QED
    BY <1>2, <2>3, <2>4
<1>4. i \in DOMAIN u /\ (i = j \/ i < j)
  BY <1>2, <1>3
<1>5. u[i].key \in Nat /\ u[j].key \in Nat
  BY <1>4, LineFields
<1>6. CASE i = j
  BY <1>1, <1>2, <1>4, <1>6
<1>7. CASE i < j
  <2>1. u[i].key < u[j].key
    BY <1>4, <1>7 DEF Enumerates, Sorted
  <2>2. QED
    BY <1>1, <1>4, <1>5, <2>1
<1>8. QED
  BY <1>4, <1>6, <1>7

LEMMA Unique ==
  ASSUME NEW rows, NEW keys, NEW s \in Seq(LineSet), NEW u \in Seq(LineSet),
         Enumerates(s, rows, keys), Enumerates(u, rows, keys)
  PROVE  s = u
<1> DEFINE D == {i \in DOMAIN s \cup DOMAIN u :
                    ~(i \in DOMAIN s /\ i \in DOMAIN u /\ s[i] = u[i])}
<1>1. /\ Len(s) \in Nat /\ Len(u) \in Nat
      /\ DOMAIN s = 1 .. Len(s) /\ DOMAIN u = 1 .. Len(u)
  OBVIOUS
<1>2. D = {}
  <2>1. SUFFICES ASSUME D # {} PROVE FALSE
    OBVIOUS
  <2>2. D \subseteq Nat
    BY <1>1
  <2>3. PICK i \in D : \A j \in D : i <= j
    <3> HIDE DEF D
    <3>1. QED
      BY <2>1, <2>2, Least
  <2>4. ASSUME NEW j \in 1 .. i - 1 PROVE j \in DOMAIN s /\ j \in DOMAIN u /\ s[j] = u[j]
    <3>1. i \in Nat /\ j \in DOMAIN s \cup DOMAIN u /\ ~(i <= j)
      BY <1>1, <2>3
    <3>2. j \notin D
      BY <2>3, <3>1
    <3>3. QED
      BY <3>1, <3>2
  <2>5. i \in DOMAIN s => i \in DOMAIN u /\ u[i].key <= s[i].key
    BY <2>4, NoFurther
  <2>6. i \in DOMAIN u => i \in DOMAIN s /\ s[i].key <= u[i].key
    BY <2>4, NoFurther
  <2>7. i \in DOMAIN s /\ i \in DOMAIN u
    BY <2>3, <2>5, <2>6
  <2>8. s[i].key = u[i].key
    <3>1. s[i].key \in Nat /\ u[i].key \in Nat
      BY <2>7, LineFields
    <3>2. QED
      BY <2>5, <2>6, <2>7, <3>1
  <2>9. s[i].row = u[i].row
    BY <2>7, <2>8 DEF Enumerates
  <2>10. s[i] \in LineSet /\ u[i] \in LineSet
    BY <2>7, LineFields
  <2>11. s[i] = u[i]
    BY <2>8, <2>9, <2>10 DEF LineSet
  <2>12. QED
    BY <2>3, <2>7, <2>11
<1>3. DOMAIN s = DOMAIN u /\ \A i \in DOMAIN s : s[i] = u[i]
  BY <1>2
<1>4. QED
  BY <1>1, <1>3

LEMMA AppendLine ==
  ASSUME NEW rows \in Lists, NEW keys, NEW s \in Seq(LineSet), Enumerates(s, rows, keys),
         NEW k \in Keys, rows[k] # Gone, \A m \in keys : m < k
  PROVE  /\ Append(s, Line(k, rows[k])) \in Seq(LineSet)
         /\ Enumerates(Append(s, Line(k, rows[k])), rows, keys \cup {k})
<1> DEFINE e == Line(k, rows[k])
           t == Append(s, e)
<1>1. e \in LineSet /\ e.key = k /\ e.row = rows[k]
  BY LineType DEF Lists
<1> HIDE DEF e
<1>2. /\ Len(s) \in Nat
      /\ DOMAIN s = 1 .. Len(s)
      /\ t \in Seq(LineSet)
      /\ DOMAIN t = 1 .. Len(s) + 1
      /\ \A i \in 1 .. Len(s) : t[i] = s[i]
      /\ t[Len(s) + 1] = e
  BY <1>1
<1> HIDE DEF t
<1>3. \A i \in DOMAIN t : i \in DOMAIN s \/ i = Len(s) + 1
  BY <1>2
<1>4. ASSUME NEW i \in DOMAIN t, NEW j \in DOMAIN t, i < j PROVE t[i].key < t[j].key
  <2>1. i \in DOMAIN s
    BY <1>2, <1>4
  <2>2. CASE j \in DOMAIN s
    BY <1>2, <1>4, <2>1, <2>2 DEF Enumerates, Sorted
  <2>3. CASE j = Len(s) + 1
    BY <1>1, <1>2, <2>1, <2>3 DEF Enumerates
  <2>4. QED
    BY <1>3, <2>2, <2>3
<1>5. \A i \in DOMAIN t : t[i].key \in keys \cup {k} /\ t[i].row = rows[t[i].key]
  BY <1>1, <1>2, <1>3 DEF Enumerates
<1>6. ASSUME NEW m \in keys \cup {k} PROVE \E i \in DOMAIN t : t[i].key = m
  <2>1. CASE m \in keys
    <3>1. PICK i \in DOMAIN s : s[i].key = m
      BY <2>1 DEF Enumerates
    <3>2. QED
      BY <1>2, <3>1
  <2>2. CASE m = k
    BY <1>1, <1>2, <2>2
  <2>3. QED
    BY <2>1, <2>2
<1>7. Enumerates(t, rows, keys \cup {k})
  BY <1>4, <1>5, <1>6 DEF Enumerates, Sorted
<1>8. QED
  BY <1>2, <1>7 DEF t, e

LEMMA LinesType ==
  ASSUME NEW rows \in Lists
  PROVE  Lines(rows) \in Seq(LineSet) /\ Enumerates(Lines(rows), rows, Visible(rows))
<1> DEFINE drawn[n \in 0 .. Count] ==
               IF n = 0 THEN <<>>
               ELSE IF rows[n] # Gone /\ _passesFilter(n)
                    THEN Append(drawn[n - 1], Line(n, rows[n]))
               ELSE drawn[n - 1]
           V(n) == {k \in Visible(rows) : k <= n}
           P == {n \in 0 .. Count : /\ drawn[n] \in Seq(LineSet)
                                    /\ Enumerates(drawn[n], rows, V(n))}
<1>1. drawn = [n \in 0 .. Count |->
               IF n = 0 THEN <<>>
               ELSE IF rows[n] # Gone /\ _passesFilter(n)
                    THEN Append(drawn[n - 1], Line(n, rows[n]))
               ELSE drawn[n - 1]]
  <2> DEFINE step == [n \in 1 .. Count |-> [s \in Seq(LineSet) |->
                        IF rows[n] # Gone /\ _passesFilter(n)
                        THEN Append(s, Line(n, rows[n])) ELSE s]]
  <2>1. <<>> \in Seq(LineSet) /\ step \in [1 .. Count -> [Seq(LineSet) -> Seq(LineSet)]]
    <3>1. ASSUME NEW n \in 1 .. Count, NEW s \in Seq(LineSet),
                 rows[n] # Gone
          PROVE  Append(s, Line(n, rows[n])) \in Seq(LineSet)
      <4>1. Line(n, rows[n]) \in LineSet
        BY <3>1, LineType DEF Lists, Keys
      <4>2. QED
        BY <4>1
    <3>2. QED
      BY <3>1
  <2>2. PICK g \in [0 .. Count -> Seq(LineSet)] :
           g[0] = <<>> /\ \A n \in 1 .. Count : g[n] = step[n][g[n - 1]]
    <3> DEFINE none == <<>>
               T == Seq(LineSet)
    <3>1. none \in T /\ step \in [1 .. Count -> [T -> T]] /\ Count \in Nat
      BY <2>1, KeysAssumption
    <3> HIDE DEF step, none, T
    <3>2. \E g : Records(g, Count, T, none, step)
      BY <3>1, Loop
    <3>3. QED
      BY <3>2 DEF Records, none, T
  <2>3. ASSUME NEW n \in 1 .. Count
        PROVE  step[n][g[n - 1]] = IF rows[n] # Gone /\ _passesFilter(n)
                                   THEN Append(g[n - 1], Line(n, rows[n])) ELSE g[n - 1]
    <3>1. g[n - 1] \in Seq(LineSet)
      BY KeysAssumption
    <3> DEFINE s == g[n - 1]
    <3> HIDE DEF s
    <3>2. step[n][s] = IF rows[n] # Gone /\ _passesFilter(n) THEN Append(s, Line(n, rows[n])) ELSE s
      BY <3>1 DEF s
    <3>3. QED
      BY <3>2 DEF s
  <2> HIDE DEF step
  <2>4. g = [n \in 0 .. Count |->
               IF n = 0 THEN <<>>
               ELSE IF rows[n] # Gone /\ _passesFilter(n)
                    THEN Append(g[n - 1], Line(n, rows[n]))
               ELSE g[n - 1]]
    <3>1. \A n \in 0 .. Count : n # 0 => n \in 1 .. Count
      BY KeysAssumption
    <3>2. QED
      BY <2>2, <2>3, <3>1
  <2>5. QED
    BY <2>4
<1> HIDE DEF drawn
<1>2. 0 \in P
  <2>1. drawn[0] = <<>>
    BY <1>1, KeysAssumption
  <2>2. V(0) = {}
    BY DEF Visible, Keys
  <2>3. Enumerates(<<>>, rows, {})
    BY DEF Enumerates, Sorted
  <2>4. 0 \in 0 .. Count /\ <<>> \in Seq(LineSet)
    BY KeysAssumption
  <2>5. QED
    BY <2>1, <2>2, <2>3, <2>4
<1>3. ASSUME NEW n \in 1 .. Count, n - 1 \in P PROVE n \in P
  <2>1. /\ n \in 0 .. Count /\ n \in Keys /\ n \in Nat
        /\ drawn[n - 1] \in Seq(LineSet) /\ Enumerates(drawn[n - 1], rows, V(n - 1))
    BY <1>3, KeysAssumption DEF Keys
  <2>2. drawn[n] = IF rows[n] # Gone /\ _passesFilter(n)
                   THEN Append(drawn[n - 1], Line(n, rows[n])) ELSE drawn[n - 1]
    <3>1. n # 0
      OBVIOUS
    <3>2. QED
      BY <1>1, <2>1, <3>1, Zenon
  <2>3. CASE rows[n] # Gone /\ _passesFilter(n)
    <3>1. V(n) = V(n - 1) \cup {n}
      BY <2>1, <2>3 DEF Visible, Keys
    <3>2. \A m \in V(n - 1) : m < n
      BY <2>1 DEF Visible, Keys
    <3> DEFINE d == drawn[n - 1]
               W == V(n - 1)
    <3>3. d \in Seq(LineSet) /\ Enumerates(d, rows, W) /\ \A m \in W : m < n
      BY <2>1, <3>2
    <3> HIDE DEF d, W
    <3>4. /\ Append(d, Line(n, rows[n])) \in Seq(LineSet)
          /\ Enumerates(Append(d, Line(n, rows[n])), rows, W \cup {n})
      BY <2>1, <2>3, <3>3, AppendLine
    <3>5. drawn[n] \in Seq(LineSet) /\ Enumerates(drawn[n], rows, V(n))
      BY <2>2, <2>3, <3>1, <3>4, Zenon DEF d, W
    <3>6. QED
      BY <2>1, <3>5
  <2>4. CASE ~(rows[n] # Gone /\ _passesFilter(n))
    <3>1. V(n) = V(n - 1)
      BY <2>1, <2>4 DEF Visible, Keys
    <3>2. QED
      BY <2>1, <2>2, <2>4, <3>1
  <2>5. QED
    BY <2>3, <2>4
<1>4. \A n \in 0 .. Count : n \in P
  <2> HIDE DEF P
  <2>1. QED
    BY <1>2, <1>3, Steps, KeysAssumption
<1>5. Count \in P /\ V(Count) = Visible(rows)
  BY <1>4, KeysAssumption DEF Visible, Keys
<1>6. Lines(rows) = drawn[Count]
  BY DEF Lines, drawn
<1>7. QED
  BY <1>5, <1>6

-----------------------------------------------------------------------------
(* What is done to one line: it is replaced, inserted or taken out.          *)

LEMMA PositionType ==
  ASSUME NEW s \in Seq(LineSet), NEW k, Position(s, k) # {}
  PROVE  Min(Position(s, k)) \in DOMAIN s /\ s[Min(Position(s, k))].key = k
<1>1. Position(s, k) \subseteq Nat
  BY DEF Position
<1>2. Min(Position(s, k)) \in Position(s, k)
  BY <1>1, MinType
<1>3. QED
  BY <1>2 DEF Position

LEMMA ReplaceLine ==
  ASSUME NEW rows, NEW new, NEW keys, NEW s \in Seq(LineSet), Enumerates(s, rows, keys),
         NEW k \in Keys, NEW row \in Rows, row # Gone, NEW i \in DOMAIN s, s[i].key = k,
         new[k] = row, \A m \in keys \ {k} : new[m] = rows[m]
  PROVE  /\ [s EXCEPT ![i] = Line(k, row)] \in Seq(LineSet)
         /\ Enumerates([s EXCEPT ![i] = Line(k, row)], new, keys)
<1> DEFINE e == Line(k, row)
           t == [s EXCEPT ![i] = e]
<1>1. e \in LineSet /\ e.key = k /\ e.row = row
  BY LineType
<1> HIDE DEF e
<1>2. /\ t \in Seq(LineSet) /\ DOMAIN t = DOMAIN s
      /\ t[i] = e /\ \A j \in DOMAIN s : j # i => t[j] = s[j]
  BY <1>1
<1> HIDE DEF t
<1>3. ASSUME NEW j \in DOMAIN s PROVE t[j].key = s[j].key
  BY <1>1, <1>2
<1>4. Sorted(t)
  BY <1>2, <1>3 DEF Enumerates, Sorted
<1>5. ASSUME NEW j \in DOMAIN s, j # i PROVE s[j].key # k
  <2>1. i \in Nat /\ j \in Nat /\ (i < j \/ j < i)
    BY <1>5
  <2>2. s[i].key < s[j].key \/ s[j].key < s[i].key
    BY <2>1 DEF Enumerates, Sorted
  <2>3. s[i].key \in Nat /\ s[j].key \in Nat
    BY LineFields
  <2>4. QED
    BY <2>2, <2>3
<1>6. ASSUME NEW j \in DOMAIN t PROVE t[j].key \in keys /\ t[j].row = new[t[j].key]
  <2>1. CASE j = i
    BY <1>1, <1>2, <2>1 DEF Enumerates
  <2>2. CASE j # i
    BY <1>2, <1>5, <2>2 DEF Enumerates
  <2>3. QED
    BY <2>1, <2>2
<1>7. \A m \in keys : \E j \in DOMAIN t : t[j].key = m
  BY <1>2, <1>3 DEF Enumerates
<1>8. Enumerates(t, new, keys)
  BY <1>4, <1>6, <1>7 DEF Enumerates
<1>9. QED
  BY <1>2, <1>8 DEF t, e

\* Where a new line goes: all before it sort before it, all from there on after.
LEMMA InsertLine ==
  ASSUME NEW rows, NEW new, NEW keys, NEW s \in Seq(LineSet), Enumerates(s, rows, keys),
         NEW k \in Keys, NEW row \in Rows, row # Gone, k \notin keys,
         new[k] = row, \A m \in keys : new[m] = rows[m]
  PROVE  /\ Inserted(s, k, row) \in Seq(LineSet)
         /\ Enumerates(Inserted(s, k, row), new, keys \cup {k})
<1> DEFINE after == {i \in DOMAIN s : s[i].key > k}
           p == IF after = {} THEN Len(s) + 1 ELSE Min(after)
           e == Line(k, row)
           t == InsertAt(s, p, e)
<1>1. Len(s) \in Nat /\ DOMAIN s = 1 .. Len(s) /\ k \in Nat
  BY DEF Keys
<1>2. /\ p \in 1 .. Len(s) + 1
      /\ \A i \in DOMAIN s : i < p => s[i].key < k
      /\ \A i \in DOMAIN s : p <= i => k < s[i].key
  <2>1. ASSUME NEW i \in DOMAIN s PROVE s[i].key \in Nat /\ s[i].key # k
    BY LineFields DEF Enumerates
  <2>2. CASE after = {}
    BY <1>1, <2>1, <2>2
  <2>3. CASE after # {}
    <3>1. after \subseteq Nat
      BY <1>1
    <3>2. p \in after /\ \A i \in after : p <= i
      <4> HIDE DEF after
      <4>1. QED
        BY <2>3, <3>1, MinType
    <3> HIDE DEF p
    <3>3. ASSUME NEW i \in DOMAIN s, i < p PROVE s[i].key < k
      BY <1>1, <2>1, <3>2, <3>3
    <3>4. ASSUME NEW i \in DOMAIN s, p <= i PROVE k < s[i].key
      <4>1. CASE i = p
        BY <1>1, <3>2, <4>1
      <4>2. CASE i # p
        <5>1. p < i /\ p \in DOMAIN s
          BY <1>1, <3>2, <3>4, <4>2
        <5>2. s[p].key < s[i].key
          BY <5>1 DEF Enumerates, Sorted
        <5>3. k < s[p].key /\ s[p].key \in Nat /\ s[i].key \in Nat
          BY <1>1, <2>1, <3>2
        <5>4. QED
          BY <1>1, <5>2, <5>3
      <4>3. QED
        BY <4>1, <4>2
    <3>5. QED
      BY <1>1, <3>2, <3>3, <3>4
  <2>4. QED
    BY <2>2, <2>3
<1>3. e \in LineSet /\ e.key = k /\ e.row = row
  BY LineType
<1> HIDE DEF e, p
<1>4. /\ t \in Seq(LineSet)
      /\ DOMAIN t = 1 .. Len(s) + 1
      /\ \A j \in 1 .. p - 1 : t[j] = s[j]
      /\ t[p] = e
      /\ \A j \in p + 1 .. Len(s) + 1 : t[j] = s[j - 1]
  BY <1>2, <1>3, InsertAtType
<1> HIDE DEF t
<1>5. ASSUME NEW j \in DOMAIN t
      PROVE  \/ j < p /\ j \in DOMAIN s /\ t[j] = s[j]
             \/ j = p /\ t[j] = e
             \/ j > p /\ j - 1 \in DOMAIN s /\ p <= j - 1 /\ t[j] = s[j - 1]
  BY <1>1, <1>2, <1>4
<1>6. ASSUME NEW i \in DOMAIN t, NEW j \in DOMAIN t, i < j PROVE t[i].key < t[j].key
  <2>1. i \in Nat /\ j \in Nat /\ p \in Nat
    BY <1>1, <1>2, <1>4
  <2>2. CASE i < p
    <3>1. i \in DOMAIN s /\ t[i] = s[i] /\ s[i].key < k /\ s[i].key \in Nat
      BY <1>2, <1>5, <2>1, <2>2, LineFields
    <3>2. CASE j < p
      BY <1>5, <1>6, <2>1, <3>1, <3>2 DEF Enumerates, Sorted
    <3>3. CASE j = p
      BY <1>3, <1>4, <3>1, <3>3
    <3>4. CASE j > p
      <4>1. j - 1 \in DOMAIN s /\ t[j] = s[j - 1] /\ k < s[j - 1].key /\ s[j - 1].key \in Nat
        BY <1>2, <1>5, <2>1, <3>4, LineFields
      <4>2. QED
        BY <1>1, <3>1, <4>1
    <3>5. QED
      BY <2>1, <3>2, <3>3, <3>4
  <2>3. CASE i = p
    <3>1. j - 1 \in DOMAIN s /\ t[j] = s[j - 1] /\ k < s[j - 1].key
      BY <1>2, <1>5, <1>6, <2>1, <2>3
    <3>2. QED
      BY <1>3, <1>4, <2>3, <3>1
  <2>4. CASE i > p
    <3>1. i - 1 \in DOMAIN s /\ t[i] = s[i - 1]
      BY <1>5, <2>1, <2>4
    <3>2. j - 1 \in DOMAIN s /\ t[j] = s[j - 1] /\ i - 1 < j - 1
      BY <1>5, <1>6, <2>1, <2>4
    <3>3. QED
      BY <3>1, <3>2 DEF Enumerates, Sorted
  <2>5. QED
    BY <2>1, <2>2, <2>3, <2>4
<1>7. ASSUME NEW j \in DOMAIN t PROVE t[j].key \in keys \cup {k} /\ t[j].row = new[t[j].key]
  BY <1>3, <1>5 DEF Enumerates
<1>8. ASSUME NEW m \in keys \cup {k} PROVE \E j \in DOMAIN t : t[j].key = m
  <2>1. CASE m = k
    BY <1>2, <1>3, <1>4, <2>1
  <2>2. CASE m \in keys
    <3>1. PICK i \in DOMAIN s : s[i].key = m
      BY <2>2 DEF Enumerates
    <3>2. CASE i < p
      <4>1. i \in DOMAIN t /\ t[i] = s[i]
        BY <1>1, <1>2, <1>4, <3>2
      <4>2. QED
        BY <3>1, <4>1
    <3>3. CASE p <= i
      <4>1. i + 1 \in DOMAIN t /\ t[i + 1] = s[i]
        <5>1. i + 1 \in p + 1 .. Len(s) + 1 /\ i + 1 - 1 = i
          BY <1>1, <1>2, <3>3
        <5>2. t[i + 1] = s[i + 1 - 1]
          BY <1>4, <5>1
        <5>3. QED
          BY <1>1, <1>2, <1>4, <5>1, <5>2
      <4>2. QED
        BY <3>1, <4>1
    <3>4. QED
      BY <1>1, <1>2, <3>2, <3>3
  <2>3. QED
    BY <2>1, <2>2
<1>9. Enumerates(t, new, keys \cup {k})
  BY <1>6, <1>7, <1>8 DEF Enumerates, Sorted
<1>10. Inserted(s, k, row) = t
  BY DEF Inserted, t, p, e
<1>11. QED
  BY <1>4, <1>9, <1>10

LEMMA WithoutLine ==
  ASSUME NEW rows, NEW new, NEW keys, NEW s \in Seq(LineSet), Enumerates(s, rows, keys),
         NEW k, \A m \in keys \ {k} : new[m] = rows[m]
  PROVE  /\ Without(s, k) \in Seq(LineSet)
         /\ Enumerates(Without(s, k), new, keys \ {k})
<1>1. CASE Position(s, k) = {}
  <2>1. Without(s, k) = s
    BY <1>1 DEF Without
  <2>2. \A i \in DOMAIN s : s[i].key # k
    BY <1>1 DEF Position
  <2>3. QED
    BY <2>1, <2>2 DEF Enumerates
<1>2. CASE Position(s, k) # {}
  <2> DEFINE p == Min(Position(s, k))
             t == RemoveAt(s, p)
  <2>1. p \in DOMAIN s /\ s[p].key = k
    BY <1>2, PositionType
  <2>2. Len(s) \in Nat /\ DOMAIN s = 1 .. Len(s)
    OBVIOUS
  <2> HIDE DEF p
  <2>3. /\ t \in Seq(LineSet)
        /\ DOMAIN t = 1 .. Len(s) - 1
        /\ \A j \in 1 .. p - 1 : t[j] = s[j]
        /\ \A j \in p .. Len(s) - 1 : t[j] = s[j + 1]
    BY <2>1, RemoveAtType
  <2> HIDE DEF t
  <2>4. ASSUME NEW i \in DOMAIN s, i # p PROVE s[i].key # k
    <3>1. i \in Nat /\ p \in Nat /\ (i < p \/ p < i)
      BY <2>1, <2>2, <2>4
    <3>2. s[i].key < s[p].key \/ s[p].key < s[i].key
      BY <2>1, <3>1 DEF Enumerates, Sorted
    <3>3. s[i].key \in Nat /\ s[p].key \in Nat
      BY <2>1, LineFields
    <3>4. QED
      BY <2>1, <3>2, <3>3
  <2>5. ASSUME NEW j \in DOMAIN t
        PROVE  \/ j < p /\ j \in DOMAIN s /\ t[j] = s[j]
               \/ j >= p /\ j + 1 \in DOMAIN s /\ t[j] = s[j + 1]
    BY <2>1, <2>2, <2>3
  <2>6. ASSUME NEW i \in DOMAIN t, NEW j \in DOMAIN t, i < j PROVE t[i].key < t[j].key
    <3>1. i \in Nat /\ j \in Nat /\ p \in Nat
      BY <2>1, <2>2, <2>3
    <3>2. CASE j < p
      <4>1. i \in DOMAIN s /\ t[i] = s[i] /\ j \in DOMAIN s /\ t[j] = s[j]
        BY <2>5, <2>6, <3>1, <3>2
      <4>2. QED
        BY <2>6, <4>1 DEF Enumerates, Sorted
    <3>3. CASE i < p /\ j >= p
      <4>1. i \in DOMAIN s /\ t[i] = s[i] /\ j + 1 \in DOMAIN s /\ t[j] = s[j + 1] /\ i < j + 1
        BY <2>5, <2>6, <3>1, <3>3
      <4>2. QED
        BY <4>1 DEF Enumerates, Sorted
    <3>4. CASE i >= p
      <4>1. /\ i + 1 \in DOMAIN s /\ t[i] = s[i + 1] /\ j + 1 \in DOMAIN s /\ t[j] = s[j + 1]
            /\ i + 1 < j + 1
        BY <2>5, <2>6, <3>1, <3>4
      <4>2. QED
        BY <4>1 DEF Enumerates, Sorted
    <3>5. QED
      BY <2>6, <3>1, <3>2, <3>3, <3>4
  <2>7. ASSUME NEW j \in DOMAIN t PROVE t[j].key \in keys \ {k} /\ t[j].row = new[t[j].key]
    <3>1. PICK i \in DOMAIN s : i # p /\ t[j] = s[i]
      <4>1. j \in Nat /\ p \in Nat
        BY <2>1, <2>2, <2>3
      <4>2. QED
        BY <2>5, <4>1
    <3>2. s[i].key \in keys \ {k}
      BY <2>4, <3>1 DEF Enumerates
    <3>3. QED
      BY <3>1, <3>2 DEF Enumerates
  <2>8. ASSUME NEW m \in keys \ {k} PROVE \E j \in DOMAIN t : t[j].key = m
    <3>1. PICK i \in DOMAIN s : s[i].key = m
      BY DEF Enumerates
    <3>2. i # p
      BY <2>1, <3>1
    <3>3. CASE i < p
      <4>1. i \in DOMAIN t /\ t[i] = s[i]
        BY <2>1, <2>2, <2>3, <3>3
      <4>2. QED
        BY <3>1, <4>1
    <3>4. CASE i > p
      <4>1. i - 1 \in p .. Len(s) - 1 /\ i - 1 \in DOMAIN t /\ i - 1 + 1 = i
        BY <2>1, <2>2, <2>3, <3>4
      <4>2. t[i - 1] = s[i - 1 + 1]
        BY <2>3, <4>1
      <4>3. QED
        BY <3>1, <4>1, <4>2
    <3>5. QED
      BY <2>1, <2>2, <3>2, <3>3, <3>4
  <2>9. Enumerates(t, new, keys \ {k})
    BY <2>6, <2>7, <2>8 DEF Enumerates, Sorted
  <2>10. Without(s, k) = t
    BY <1>2 DEF Without, t, p
  <2>11. QED
    BY <2>3, <2>9, <2>10
<1>3. QED
  BY <1>1, <1>2

-----------------------------------------------------------------------------
(* The operations of a table keep it good, and say what rows it then holds.  *)

LEMMA RenderAllGood ==
  ASSUME NEW t, Good(t), NEW rows \in Lists
  PROVE  /\ Good(_renderAll(t, rows))
         /\ _renderAll(t, rows).rows = rows /\ _renderAll(t, rows).here = t.here
<1> DEFINE u == _renderAll(t, rows)
<1>1. t.here \in BOOLEAN /\ t.shown \in Seq(LineSet)
  BY DEF Good, Tables
<1>2. u.rows = rows /\ u.here = t.here /\ u.shown = IF t.here THEN Lines(rows) ELSE t.shown
  BY DEF _renderAll
<1>3. u = [rows |-> u.rows, shown |-> u.shown, here |-> u.here]
  BY DEF _renderAll
<1> HIDE DEF u
<1>4. u.shown \in Seq(LineSet) /\ (u.here => Enumerates(u.shown, u.rows, Visible(u.rows)))
  BY <1>1, <1>2, LinesType
<1>5. u \in Tables
  BY <1>1, <1>2, <1>3, <1>4 DEF Tables, Lists
<1>6. ~u.here => u.shown = <<>>
  BY <1>2 DEF Good
<1>7. QED
  BY <1>2, <1>4, <1>5, <1>6 DEF Good, u

LEMMA UpsertGood ==
  ASSUME NEW t, Good(t), NEW k \in Keys, NEW row \in Rows, row # Gone
  PROVE  /\ Good(_upsert(t, k, row))
         /\ _upsert(t, k, row).rows = [t.rows EXCEPT ![k] = row]
<1> DEFINE new == [t.rows EXCEPT ![k] = row]
           s == t.shown
           u == _upsert(t, k, row)
<1>1. t.here \in BOOLEAN /\ s \in Seq(LineSet) /\ t.rows \in Lists
  BY DEF Good, Tables, Lists
<1>2. new \in Lists /\ new[k] = row /\ \A m \in Keys \ {k} : new[m] = t.rows[m]
  BY <1>1 DEF Lists
<1>3. /\ u.rows = new /\ u.here = t.here
      /\ u.shown = IF ~t.here THEN s
                   ELSE IF ~_passesFilter(k) THEN Without(s, k)
                   ELSE IF Position(s, k) # {}
                        THEN [s EXCEPT ![Min(Position(s, k))] = Line(k, row)]
                   ELSE Inserted(s, k, row)
      /\ u = [rows |-> u.rows, shown |-> u.shown, here |-> u.here]
  BY DEF _upsert
<1> HIDE DEF u, new
<1>4. CASE ~t.here
  BY <1>1, <1>2, <1>3, <1>4 DEF Good, Tables, Lists, u, new
<1>5. CASE t.here
  <2>1. Enumerates(s, t.rows, Visible(t.rows)) /\ Visible(t.rows) \subseteq Keys
    BY <1>5 DEF Good, Visible
  <2>2. u.shown \in Seq(LineSet) /\ Enumerates(u.shown, new, Visible(new))
    <3>1. CASE ~_passesFilter(k)
      <4>1. Visible(new) = Visible(t.rows) \ {k}
        BY <1>2, <3>1 DEF Visible
      <4>2. \A m \in Visible(t.rows) \ {k} : new[m] = t.rows[m]
        BY <1>2, <2>1
      <4>3. u.shown = Without(s, k)
        BY <1>3, <1>5, <3>1
      <4> HIDE DEF s
      <4>4. QED
        BY <1>1, <2>1, <4>1, <4>2, <4>3, WithoutLine
    <3>2. CASE _passesFilter(k) /\ Position(s, k) # {}
      <4> DEFINE p == Min(Position(s, k))
      <4>1. p \in DOMAIN s /\ s[p].key = k
        BY <1>1, <3>2, PositionType
      <4>2. Visible(new) = Visible(t.rows)
        <5>1. k \in Visible(t.rows)
          BY <2>1, <4>1 DEF Enumerates
        <5>2. QED
          BY <1>2, <3>2, <5>1 DEF Visible
      <4>3. \A m \in Visible(t.rows) \ {k} : new[m] = t.rows[m]
        BY <1>2, <2>1
      <4>4. u.shown = [s EXCEPT ![p] = Line(k, row)]
        BY <1>3, <1>5, <3>2
      <4> HIDE DEF s, p
      <4>5. QED
        BY <1>1, <1>2, <2>1, <4>1, <4>2, <4>3, <4>4, ReplaceLine
    <3>3. CASE _passesFilter(k) /\ Position(s, k) = {}
      <4>1. k \notin Visible(t.rows)
        BY <2>1, <3>3 DEF Enumerates, Position
      <4>2. Visible(new) = Visible(t.rows) \cup {k}
        BY <1>2, <3>3 DEF Visible
      <4>3. \A m \in Visible(t.rows) : new[m] = t.rows[m]
        BY <1>2, <2>1, <4>1
      <4>4. u.shown = Inserted(s, k, row)
        BY <1>3, <1>5, <3>3
      <4> DEFINE keys == Visible(t.rows)
      <4> HIDE DEF s, keys
      <4>5. /\ Inserted(s, k, row) \in Seq(LineSet)
            /\ Enumerates(Inserted(s, k, row), new, keys \cup {k})
        <5>1. Enumerates(s, t.rows, keys) /\ k \notin keys /\ \A m \in keys : new[m] = t.rows[m]
          BY <2>1, <4>1, <4>3 DEF keys
        <5>2. s \in Seq(LineSet) /\ new[k] = row
          BY <1>1, <1>2
        <5>3. QED
          BY <5>1, <5>2, InsertLine
      <4>6. QED
        BY <4>2, <4>4, <4>5 DEF keys
    <3>4. QED
      BY <3>1, <3>2, <3>3
  <2>3. u \in Tables
    BY <1>1, <1>2, <1>3, <2>2 DEF Tables, Lists
  <2>4. QED
    BY <1>3, <1>5, <2>2, <2>3 DEF Good, u, new
<1>6. QED
  BY <1>1, <1>4, <1>5

LEMMA RemoveGood ==
  ASSUME NEW t, Good(t), NEW k \in Keys
  PROVE  Good(_remove(t, k)) /\ _remove(t, k).rows = [t.rows EXCEPT ![k] = Gone]
<1> DEFINE new == [t.rows EXCEPT ![k] = Gone]
           s == t.shown
           u == _remove(t, k)
<1>1. t.here \in BOOLEAN /\ s \in Seq(LineSet) /\ t.rows \in Lists
  BY DEF Good, Tables, Lists
<1>2. new \in Lists /\ new[k] = Gone /\ \A m \in Keys \ {k} : new[m] = t.rows[m]
  BY <1>1, KeysAssumption DEF Lists
<1>3. /\ u.rows = new /\ u.here = t.here /\ u.shown = Without(s, k)
      /\ u = [rows |-> u.rows, shown |-> u.shown, here |-> u.here]
  BY DEF _remove
<1> HIDE DEF u, new
<1>4. CASE ~t.here
  <2>1. s = <<>>
    BY <1>4 DEF Good
  <2>2. u.shown = s
    BY <1>3, <2>1 DEF Without, Position
  <2>3. u \in Tables
    BY <1>1, <1>2, <1>3, <2>2 DEF Tables, Lists
  <2>4. QED
    BY <1>3, <1>4, <2>1, <2>2, <2>3 DEF Good, u, new
<1>5. CASE t.here
  <2>1. Enumerates(s, t.rows, Visible(t.rows)) /\ Visible(t.rows) \subseteq Keys
    BY <1>5 DEF Good, Visible
  <2>2. Visible(new) = Visible(t.rows) \ {k}
    BY <1>2 DEF Visible
  <2>3. \A m \in Visible(t.rows) \ {k} : new[m] = t.rows[m]
    BY <1>2, <2>1
  <2>4. u.shown \in Seq(LineSet) /\ Enumerates(u.shown, new, Visible(new))
    <3> HIDE DEF s
    <3>1. QED
      BY <1>1, <1>3, <2>1, <2>2, <2>3, WithoutLine
  <2>5. u \in Tables
    BY <1>1, <1>2, <1>3, <2>4 DEF Tables, Lists
  <2>6. QED
    BY <1>3, <1>5, <2>4, <2>5 DEF Good, u, new
<1>6. QED
  BY <1>1, <1>4, <1>5

GoodTables == {t \in Tables : Good(t)}

LEMMA UpdatedGood ==
  ASSUME NEW t, Good(t), NEW list \in Lists
  PROVE  /\ Good(Updated(t, list))
         /\ \A k \in Keys : list[k] # Gone => Updated(t, list).rows[k] = list[k]
<1> DEFINE newer[n \in 0 .. Count] ==
               IF n = 0 THEN t
               ELSE IF list[n] = Gone \/ list[n] = newer[n - 1].rows[n] THEN newer[n - 1]
               ELSE _upsert(newer[n - 1], n, list[n])
           P == {n \in 0 .. Count :
                   /\ Good(newer[n])
                   /\ \A k \in Keys : k <= n /\ list[k] # Gone => newer[n].rows[k] = list[k]}
<1>1. newer = [n \in 0 .. Count |->
               IF n = 0 THEN t
               ELSE IF list[n] = Gone \/ list[n] = newer[n - 1].rows[n] THEN newer[n - 1]
               ELSE _upsert(newer[n - 1], n, list[n])]
  <2> DEFINE step == [n \in 1 .. Count |-> [u \in GoodTables |->
                        IF list[n] = Gone \/ list[n] = u.rows[n] THEN u
                        ELSE _upsert(u, n, list[n])]]
  <2>1. step \in [1 .. Count -> [GoodTables -> GoodTables]]
    <3>1. ASSUME NEW n \in 1 .. Count, NEW u \in GoodTables, list[n] # Gone
          PROVE  _upsert(u, n, list[n]) \in GoodTables
      <4>1. Good(u) /\ n \in Keys /\ list[n] \in Rows
        BY DEF GoodTables, Keys, Lists
      <4>2. Good(_upsert(u, n, list[n]))
        BY <3>1, <4>1, UpsertGood
      <4>3. QED
        BY <4>2 DEF GoodTables, Good
    <3>2. QED
      BY <3>1
  <2> HIDE DEF step
  <2>2. PICK g \in [0 .. Count -> GoodTables] :
           g[0] = t /\ \A n \in 1 .. Count : g[n] = step[n][g[n - 1]]
    <3>1. t \in GoodTables /\ Count \in Nat
      BY KeysAssumption DEF GoodTables, Good
    <3>2. \E g : Records(g, Count, GoodTables, t, step)
      BY <2>1, <3>1, Loop
    <3>3. QED
      BY <3>2 DEF Records
  <2>3. ASSUME NEW n \in 1 .. Count
        PROVE  g[n] = IF list[n] = Gone \/ list[n] = g[n - 1].rows[n] THEN g[n - 1]
                      ELSE _upsert(g[n - 1], n, list[n])
    <3> DEFINE u == g[n - 1]
    <3>1. u \in GoodTables
      BY KeysAssumption
    <3> HIDE DEF u
    <3>2. step[n][u] = IF list[n] = Gone \/ list[n] = u.rows[n] THEN u
                       ELSE _upsert(u, n, list[n])
      BY <3>1 DEF step
    <3>3. g[n] = step[n][u]
      BY <2>2 DEF u
    <3>4. QED
      BY <3>2, <3>3, Zenon DEF u
  <2>4. g = [n \in 0 .. Count |->
               IF n = 0 THEN t
               ELSE IF list[n] = Gone \/ list[n] = g[n - 1].rows[n] THEN g[n - 1]
               ELSE _upsert(g[n - 1], n, list[n])]
    <3>1. \A n \in 0 .. Count : n # 0 => n \in 1 .. Count
      BY KeysAssumption
    <3>2. QED
      BY <2>2, <2>3, <3>1
  <2>5. QED
    BY <2>4
<1> HIDE DEF newer
<1>2. 0 \in P
  <2>1. newer[0] = t /\ 0 \in 0 .. Count /\ \A k \in Keys : ~(k <= 0)
    BY <1>1, KeysAssumption DEF Keys
  <2>2. QED
    BY <2>1
<1>3. ASSUME NEW n \in 1 .. Count, n - 1 \in P PROVE n \in P
  <2> DEFINE u == newer[n - 1]
             v == newer[n]
  <2>1. /\ n \in 0 .. Count /\ n \in Keys /\ n \in Nat /\ n # 0 /\ Keys \subseteq Nat
        /\ Good(u) /\ \A k \in Keys : k <= n - 1 /\ list[k] # Gone => u.rows[k] = list[k]
    BY <1>3, KeysAssumption DEF Keys
  <2>2. v = IF list[n] = Gone \/ list[n] = u.rows[n] THEN u ELSE _upsert(u, n, list[n])
    BY <1>1, <2>1, Zenon
  <2>3. u.rows \in Lists
    BY <2>1 DEF Good, Tables, Lists
  <2> HIDE DEF u, v
  <2>4. CASE list[n] = Gone \/ list[n] = u.rows[n]
    <3>1. v = u
      BY <2>2, <2>4
    <3>2. ASSUME NEW k \in Keys, k <= n, list[k] # Gone PROVE u.rows[k] = list[k]
      <4>1. CASE k = n
        BY <2>4, <3>2, <4>1
      <4>2. CASE k # n
        BY <2>1, <3>2, <4>2
      <4>3. QED
        BY <4>1, <4>2
    <3>3. QED
      BY <2>1, <3>1, <3>2 DEF v
  <2>5. CASE ~(list[n] = Gone \/ list[n] = u.rows[n])
    <3>1. v = _upsert(u, n, list[n]) /\ list[n] \in Rows /\ list[n] # Gone
      BY <2>1, <2>2, <2>5 DEF Lists
    <3>2. Good(v) /\ v.rows = [u.rows EXCEPT ![n] = list[n]]
      BY <2>1, <3>1, UpsertGood
    <3>3. ASSUME NEW k \in Keys, k <= n, list[k] # Gone PROVE v.rows[k] = list[k]
      <4>1. CASE k = n
        BY <2>1, <2>3, <3>2, <4>1 DEF Lists
      <4>2. CASE k # n
        <5>1. v.rows[k] = u.rows[k]
          BY <2>3, <3>2, <4>2 DEF Lists
        <5>2. QED
          BY <2>1, <3>3, <4>2, <5>1
      <4>3. QED
        BY <4>1, <4>2
    <3>4. QED
      BY <2>1, <3>2, <3>3 DEF v
  <2>6. QED
    BY <2>4, <2>5
<1>4. \A n \in 0 .. Count : n \in P
  <2> HIDE DEF P
  <2>1. QED
    BY <1>2, <1>3, Steps, KeysAssumption
<1>5. Count \in P /\ \A k \in Keys : k <= Count
  BY <1>4, KeysAssumption DEF Keys
<1>6. Updated(t, list) = newer[Count]
  BY DEF Updated, newer
<1>7. QED
  BY <1>5, <1>6

LEMMA PurgedGood ==
  ASSUME NEW t, Good(t), NEW list \in Lists,
         \A k \in Keys : list[k] # Gone => t.rows[k] = list[k]
  PROVE  Good(Purged(t, list)) /\ Purged(t, list).rows = list
<1> DEFINE purged[n \in 0 .. Count] ==
               IF n = 0 THEN t
               ELSE IF list[n] = Gone /\ purged[n - 1].rows[n] # Gone THEN _remove(purged[n - 1], n)
               ELSE purged[n - 1]
           P == {n \in 0 .. Count :
                   /\ Good(purged[n])
                   /\ \A k \in Keys : k <= n \/ list[k] # Gone => purged[n].rows[k] = list[k]}
<1>1. purged = [n \in 0 .. Count |->
               IF n = 0 THEN t
               ELSE IF list[n] = Gone /\ purged[n - 1].rows[n] # Gone THEN _remove(purged[n - 1], n)
               ELSE purged[n - 1]]
  <2> DEFINE step == [n \in 1 .. Count |-> [u \in GoodTables |->
                        IF list[n] = Gone /\ u.rows[n] # Gone THEN _remove(u, n) ELSE u]]
  <2>1. step \in [1 .. Count -> [GoodTables -> GoodTables]]
    <3>1. ASSUME NEW n \in 1 .. Count, NEW u \in GoodTables
          PROVE  _remove(u, n) \in GoodTables
      <4>1. Good(u) /\ n \in Keys
        BY DEF GoodTables, Keys
      <4>2. Good(_remove(u, n))
        BY <4>1, RemoveGood
      <4>3. QED
        BY <4>2 DEF GoodTables, Good
    <3>2. QED
      BY <3>1
  <2> HIDE DEF step
  <2>2. PICK g \in [0 .. Count -> GoodTables] :
           g[0] = t /\ \A n \in 1 .. Count : g[n] = step[n][g[n - 1]]
    <3>1. t \in GoodTables /\ Count \in Nat
      BY KeysAssumption DEF GoodTables, Good
    <3>2. \E g : Records(g, Count, GoodTables, t, step)
      BY <2>1, <3>1, Loop
    <3>3. QED
      BY <3>2 DEF Records
  <2>3. ASSUME NEW n \in 1 .. Count
        PROVE  g[n] = IF list[n] = Gone /\ g[n - 1].rows[n] # Gone THEN _remove(g[n - 1], n)
                      ELSE g[n - 1]
    <3> DEFINE u == g[n - 1]
    <3>1. u \in GoodTables
      BY KeysAssumption
    <3> HIDE DEF u
    <3>2. step[n][u] = IF list[n] = Gone /\ u.rows[n] # Gone THEN _remove(u, n) ELSE u
      BY <3>1 DEF step
    <3>3. g[n] = step[n][u]
      BY <2>2 DEF u
    <3>4. QED
      BY <3>2, <3>3, Zenon DEF u
  <2>4. g = [n \in 0 .. Count |->
               IF n = 0 THEN t
               ELSE IF list[n] = Gone /\ g[n - 1].rows[n] # Gone THEN _remove(g[n - 1], n)
               ELSE g[n - 1]]
    <3>1. \A n \in 0 .. Count : n # 0 => n \in 1 .. Count
      BY KeysAssumption
    <3>2. QED
      BY <2>2, <2>3, <3>1
  <2>5. QED
    BY <2>4
<1> HIDE DEF purged
<1>2. 0 \in P
  <2>1. purged[0] = t /\ 0 \in 0 .. Count /\ \A k \in Keys : ~(k <= 0)
    BY <1>1, KeysAssumption DEF Keys
  <2>2. QED
    BY <2>1
<1>3. ASSUME NEW n \in 1 .. Count, n - 1 \in P PROVE n \in P
  <2> DEFINE u == purged[n - 1]
             v == purged[n]
  <2>1. /\ n \in 0 .. Count /\ n \in Keys /\ n \in Nat /\ n # 0 /\ Keys \subseteq Nat
        /\ Good(u) /\ \A k \in Keys : k <= n - 1 \/ list[k] # Gone => u.rows[k] = list[k]
    BY <1>3, KeysAssumption DEF Keys
  <2>2. v = IF list[n] = Gone /\ u.rows[n] # Gone THEN _remove(u, n) ELSE u
    BY <1>1, <2>1, Zenon
  <2>3. u.rows \in Lists
    BY <2>1 DEF Good, Tables, Lists
  <2> HIDE DEF u, v
  <2>4. CASE list[n] = Gone /\ u.rows[n] # Gone
    <3>1. v = _remove(u, n)
      BY <2>2, <2>4
    <3>2. Good(v) /\ v.rows = [u.rows EXCEPT ![n] = Gone]
      BY <2>1, <3>1, RemoveGood
    <3>3. ASSUME NEW k \in Keys, k <= n \/ list[k] # Gone PROVE v.rows[k] = list[k]
      <4>1. CASE k = n
        BY <2>1, <2>3, <2>4, <3>2, <4>1 DEF Lists
      <4>2. CASE k # n
        <5>1. v.rows[k] = u.rows[k]
          BY <2>3, <3>2, <4>2 DEF Lists
        <5>2. QED
          BY <2>1, <3>3, <4>2, <5>1
      <4>3. QED
        BY <4>1, <4>2
    <3>4. QED
      BY <2>1, <3>2, <3>3 DEF v
  <2>5. CASE ~(list[n] = Gone /\ u.rows[n] # Gone)
    <3>1. v = u
      BY <2>2, <2>5
    <3>2. ASSUME NEW k \in Keys, k <= n \/ list[k] # Gone PROVE u.rows[k] = list[k]
      <4>1. CASE k = n
        BY <2>1, <2>5, <4>1
      <4>2. CASE k # n
        BY <2>1, <3>2, <4>2
      <4>3. QED
        BY <4>1, <4>2
    <3>3. QED
      BY <2>1, <3>1, <3>2 DEF v
  <2>6. QED
    BY <2>4, <2>5
<1>4. \A n \in 0 .. Count : n \in P
  <2> HIDE DEF P
  <2>1. QED
    BY <1>2, <1>3, Steps, KeysAssumption
<1>5. Count \in P /\ \A k \in Keys : k <= Count
  BY <1>4, KeysAssumption DEF Keys
<1>6. Purged(t, list) = purged[Count]
  BY DEF Purged, purged
<1>7. Good(purged[Count]) /\ \A k \in Keys : purged[Count].rows[k] = list[k]
  BY <1>5
<1>8. purged[Count].rows \in Lists
  BY <1>7 DEF Good, Tables, Lists
<1>9. purged[Count].rows = list
  BY <1>7, <1>8 DEF Lists
<1>10. QED
  BY <1>6, <1>7, <1>9

\* The row-by-row resync of any good table ends with the rows of the answer.
LEMMA ResyncGood ==
  ASSUME NEW t, Good(t), NEW list \in Lists
  PROVE  Good(_resync(t, list)) /\ _resync(t, list).rows = list
<1>1. /\ Good(Updated(t, list))
      /\ \A k \in Keys : list[k] # Gone => Updated(t, list).rows[k] = list[k]
  BY UpdatedGood
<1>2. QED
  BY <1>1, PurgedGood DEF _resync

LEMMA FilledGood ==
  ASSUME NEW t, Good(t), NEW list \in Lists
  PROVE  Good(Filled(t, list))
<1> DEFINE rows == [k \in Keys |-> IF list[k] = Gone THEN t.rows[k] ELSE list[k]]
<1>1. rows \in Lists
  BY DEF Good, Tables, Lists
<1> HIDE DEF rows
<1>2. Good(_renderAll(t, rows))
  BY <1>1, RenderAllGood
<1>3. QED
  BY <1>2 DEF Filled, rows

-----------------------------------------------------------------------------
(* Lemmas about the parts of the state.                                      *)

\* Good speaks of the namespace: a table stays good while that is the same.
LEMMA GoodNext ==
  ASSUME NEW u, Good(u), table' = u, namespace' = namespace
  PROVE  Good(table)'
<1>1. Visible(u.rows)' = Visible(u.rows)
  BY DEF Visible, _passesFilter
<1>2. QED
  BY <1>1 DEF Good

LEMMA GoodKept ==
  ASSUME Good(table), table' = table, namespace' = namespace
  PROVE  Good(table)'
<1>1. PICK u : u = table
  OBVIOUS
<1>2. Good(u) /\ table' = u
  BY <1>1
<1>3. QED
  BY <1>2, GoodNext

\* A table that is not in the document, or holds no rows, is good anyway.
LEMMA GoodFresh ==
  ASSUME NEW h \in BOOLEAN, table' = [rows |-> Empty, shown |-> <<>>, here |-> h]
  PROVE  Good(table)'
<1>1. Empty \in Lists /\ \A k \in Keys : Empty[k] = Gone
  BY KeysAssumption DEF Empty, Lists
<1>2. /\ table' \in Tables
      /\ table'.rows = Empty /\ table'.shown = <<>>
  BY <1>1 DEF Tables, Lists
<1>3. Visible(table.rows)' = {}
  BY <1>1, <1>2 DEF Visible
<1>4. Enumerates(<<>>, Empty, {})
  BY DEF Enumerates, Sorted
<1>5. QED
  BY <1>2, <1>3, <1>4 DEF Good

LEMMA StreamType ==
  ASSUME NEW c \in Clusters, NEW v \in LiveViews, NEW timer \in BOOLEAN, NEW up \in BOOLEAN,
         NEW inbox \in Seq(Messages)
  PROVE  /\ Stream(c, v, timer, up, inbox) \in Streams
         /\ Stream(c, v, timer, up, inbox) # NoStream
         /\ Stream(c, v, timer, up, inbox).view = v
         /\ Stream(c, v, timer, up, inbox).timer = timer
<1>1. Stream(c, v, timer, up, inbox) \in Streams
  BY DEF Stream, Streams
<1>2. QED
  BY <1>1, NoStreamAssumption DEF Stream

LEMMA StreamFields ==
  ASSUME NEW x \in Streams
  PROVE  /\ x.cluster \in Clusters /\ x.view \in LiveViews
         /\ x.timer \in BOOLEAN /\ x.up \in BOOLEAN /\ x.inbox \in Seq(Messages)
BY DEF Streams

\* The stream of the open table goes on, and sets no timer.
StreamGoesOn ==
    \/ es' = es
    \/ /\ es # NoStream /\ es' # NoStream /\ es' \in Streams
       /\ es'.view = es.view /\ (es'.timer => es.timer)

LEMMA StreamKept ==
  ASSUME StreamOK, StreamGoesOn, view' = view
  PROVE  StreamOK' /\ \A v \in LiveViews : Timer(v)' <= Timer(v)
BY DEF StreamOK, StreamGoesOn, Timer

LEMMA TimerType == \A v : Timer(v) \in 0 .. 1
BY DEF Timer

\* No act, and no timer set.
LEMMA ActsKept ==
  ASSUME ActsOK, \A v \in LiveViews : Timer(v)' <= Timer(v),
         late' \in [LiveViews -> Nat], \A v \in LiveViews : late'[v] <= late[v],
         awaiting' = awaiting, deleting' = deleting, pages' \in Nat, acts' = acts
  PROVE  ActsOK'
<1>1. Cardinality(deleting) \in Nat /\ Cardinality(deleting') = Cardinality(deleting)
  BY FS_CardinalityType DEF ActsOK
<1>2. ASSUME NEW v \in LiveViews
      PROVE  late'[v] + Timer(v)' + awaiting' + Cardinality(deleting') <= acts'
  <2>1. Timer(v) \in 0 .. 1 /\ Timer(v)' \in 0 .. 1
    BY DEF Timer
  <2>2. late'[v] \in Nat /\ late[v] \in Nat /\ late'[v] <= late[v] /\ awaiting \in Nat /\ acts \in Nat
    BY DEF ActsOK
  <2>3. late[v] + Timer(v) + awaiting + Cardinality(deleting) <= acts
    BY DEF ActsOK
  <2>4. Timer(v)' <= Timer(v)
    OBVIOUS
  <2>5. QED
    BY <1>1, <2>1, <2>2, <2>3, <2>4
<1>3. QED
  BY <1>2 DEF ActsOK

\* A table is opened or closed: what may be set is one timer more.
LEMMA Navigated ==
  ASSUME IInv, NEW v \in LiveViews \cup {Page}, navigate(v)
  PROVE  /\ Good(table)' /\ StreamOK'
         /\ late' \in [LiveViews -> Nat] /\ pages' \in Nat
         /\ \A u \in LiveViews : late'[u] + Timer(u)' <= late[u] + Timer(u) + 1
<1>1. Good(table)'
  BY GoodFresh DEF navigate
<1>2. StreamOK'
  <2>1. CASE v \in LiveViews
    <3> DEFINE yes == TRUE
               no == FALSE
               box == <<>>
    <3>1. es' = Stream(cluster, v, yes, no, box) /\ view' = v
      BY <2>1, ViewsAssumption DEF navigate
    <3>2. yes \in BOOLEAN /\ no \in BOOLEAN /\ box \in Seq(Messages) /\ cluster \in Clusters
      BY DEF IInv, PlaceOK
    <3> HIDE DEF yes, no, box
    <3>3. es' \in Streams /\ es' # NoStream /\ es'.view = v
      BY <2>1, <3>1, <3>2, StreamType
    <3>4. QED
      BY <2>1, <3>1, <3>3, ViewsAssumption DEF StreamOK
  <2>2. CASE v = Page
    BY <2>2, ViewsAssumption DEF navigate, StreamOK
  <2>3. QED
    BY <2>1, <2>2
<1>3. late' \in [LiveViews -> Nat] /\ \A u \in LiveViews : late'[u] = late[u] + Timer(u)
  <2>1. late \in [LiveViews -> Nat] /\ late' = Orphaned
    BY DEF IInv, ActsOK, navigate
  <2>2. CASE es # NoStream /\ es.timer
    <3>1. es.view \in LiveViews
      BY <2>2, StreamFields DEF IInv, StreamOK
    <3>2. late' = [late EXCEPT ![es.view] = late[es.view] + 1]
      BY <2>1, <2>2 DEF Orphaned
    <3>3. \A u \in LiveViews : Timer(u) = IF es.view = u THEN 1 ELSE 0
      BY <2>2 DEF Timer
    <3>4. QED
      BY <2>1, <3>1, <3>2, <3>3
  <2>3. CASE ~(es # NoStream /\ es.timer)
    BY <2>1, <2>3 DEF Orphaned, Timer
  <2>4. QED
    BY <2>2, <2>3
<1>4. pages' \in Nat
  <2>1. pages \in Nat /\ (pages' = pages \/ pages' = pages + 1)
    BY DEF navigate, IInv, ActsOK
  <2>2. QED
    BY <2>1
<1>5. ASSUME NEW u \in LiveViews PROVE late'[u] + Timer(u)' <= late[u] + Timer(u) + 1
  <2>1. Timer(u) \in 0 .. 1 /\ Timer(u)' \in 0 .. 1
    BY DEF Timer
  <2>2. late[u] \in Nat /\ late'[u] = late[u] + Timer(u)
    BY <1>3 DEF IInv, ActsOK
  <2>3. QED
    BY <2>1, <2>2
<1>6. QED
  BY <1>1, <1>2, <1>3, <1>4, <1>5

\* One timer more for one act, one change of cluster or one delete less.
LEMMA ActsSpent ==
  ASSUME ActsOK, late' \in [LiveViews -> Nat], pages' \in Nat,
         \A u \in LiveViews : late'[u] + Timer(u)' <= late[u] + Timer(u) + 1,
         awaiting' \in Nat, acts' \in 0 .. MaxActs, awaiting' <= acts',
         deleting' \subseteq [view : LiveViews, key : Keys], IsFiniteSet(deleting'),
         awaiting' + Cardinality(deleting') - acts' + 1 <= awaiting + Cardinality(deleting) - acts
  PROVE  ActsOK'
<1>1. Cardinality(deleting) \in Nat /\ Cardinality(deleting') \in Nat
  BY FS_CardinalityType DEF ActsOK
<1>2. ASSUME NEW u \in LiveViews
      PROVE  late'[u] + Timer(u)' + awaiting' + Cardinality(deleting') <= acts'
  <2>1. Timer(u) \in 0 .. 1 /\ Timer(u)' \in 0 .. 1
    BY DEF Timer
  <2>2. late'[u] \in Nat /\ late[u] \in Nat /\ awaiting \in Nat /\ acts \in Nat /\ acts' \in Nat
    BY BoundsAssumption DEF ActsOK
  <2>3. late[u] + Timer(u) + awaiting + Cardinality(deleting) <= acts
    BY DEF ActsOK
  <2>4. late'[u] + Timer(u)' <= late[u] + Timer(u) + 1
    OBVIOUS
  <2>5. QED
    BY <1>1, <2>1, <2>2, <2>3, <2>4
<1>3. QED
  BY <1>2 DEF ActsOK

LEMMA AskType ==
  ASSUME PlaceOK, FetchesOK, NEW v \in LiveViews, NEW use \in {"resync", "fallback"}, Ask(v, use)
  PROVE  FetchesOK'
<1> DEFINE r == [cluster |-> cluster, view |-> v, use |-> use, list |-> NoAnswer]
<1>1. r \in Requests
  BY DEF PlaceOK, Requests
<1>2. fetch' = [fetch EXCEPT ![Min(Free)] = r]
  BY DEF Ask
<1> HIDE DEF r
<1>3. QED
  BY <1>1, <1>2 DEF FetchesOK

LEMMA RequestFields ==
  ASSUME FetchesOK, NEW i \in Fetches, fetch[i] # NoFetch
  PROVE  /\ fetch[i].cluster \in Clusters /\ fetch[i].view \in LiveViews
         /\ fetch[i].use \in {"resync", "fallback"}
         /\ fetch[i].list # NoAnswer => fetch[i].list \in Lists
<1>1. fetch[i] \in Requests
  BY DEF FetchesOK
<1>2. QED
  BY <1>1 DEF Requests

LEMMA AnsweredType ==
  ASSUME FetchesOK, NEW i \in Fetches, fetch[i] # NoFetch, NEW list \in Lists, Answered(i, list)
  PROVE  FetchesOK'
<1> DEFINE r == [cluster |-> fetch[i].cluster, view |-> fetch[i].view,
                 use |-> fetch[i].use, list |-> list]
<1>1. r \in Requests
  BY RequestFields DEF Requests
<1>2. fetch' = [fetch EXCEPT ![i] = r]
  BY DEF Answered
<1> HIDE DEF r
<1>3. QED
  BY <1>1, <1>2 DEF FetchesOK

\* An object changes: the stream may get a message about it.
LEMMA BecomesType ==
  ASSUME IInv, NEW c \in Clusters, NEW v \in LiveViews, NEW k \in Keys, NEW row \in Rows,
         Becomes(c, v, k, row)
  PROVE  world' \in [Clusters \X LiveViews -> Lists] /\ StreamGoesOn
<1>1. world' \in [Clusters \X LiveViews -> Lists]
  <2>1. world \in [Clusters \X LiveViews -> Lists] /\ <<c, v>> \in Clusters \X LiveViews
    BY DEF IInv, PlaceOK
  <2>2. [world[<<c, v>>] EXCEPT ![k] = row] \in Lists
    BY <2>1 DEF Lists
  <2>3. QED
    BY <2>1, <2>2 DEF Becomes
<1>2. Event(k, row) \in Messages
  BY DEF Event, Messages
<1>3. CASE UNCHANGED es
  BY <1>1, <1>3 DEF StreamGoesOn
<1>4. CASE /\ es # NoStream /\ es.up /\ es.cluster = c /\ es.view = v
           /\ es' = Stream(c, v, es.timer, TRUE, Append(es.inbox, Event(k, row)))
  <2> DEFINE yes == TRUE
             timer == es.timer
             box == Append(es.inbox, Event(k, row))
  <2>1. es \in Streams
    BY <1>4 DEF IInv, StreamOK
  <2>2. timer \in BOOLEAN /\ yes \in BOOLEAN /\ box \in Seq(Messages)
    BY <1>2, <2>1, StreamFields
  <2>3. es' = Stream(c, v, timer, yes, box)
    BY <1>4
  <2> HIDE DEF yes, timer, box
  <2>4. es' \in Streams /\ es' # NoStream /\ es'.view = v /\ es'.timer = timer
    BY <2>2, <2>3, StreamType
  <2>5. QED
    BY <1>1, <1>4, <2>4 DEF StreamGoesOn, timer
<1>5. QED
  BY <1>3, <1>4 DEF Becomes

-----------------------------------------------------------------------------
(* The steps.                                                                *)

LEMMA InitInv == Init => IInv
<1> SUFFICES ASSUME Init PROVE IInv
  OBVIOUS
<1>1. PlaceOK
  BY WorldsAssumption, ViewsAssumption DEF Init, PlaceOK, Lists
<1>2. Good(table)
  <2>1. Empty \in Lists /\ \A k \in Keys : Empty[k] = Gone
    BY KeysAssumption DEF Empty, Lists
  <2> DEFINE none == <<>>
             no == FALSE
  <2>2. table = [rows |-> Empty, shown |-> none, here |-> no]
    BY DEF Init
  <2>3. none \in Seq(LineSet) /\ no \in BOOLEAN /\ ~no
    OBVIOUS
  <2> HIDE DEF none, no
  <2>4. table \in Tables /\ table.shown = none /\ ~table.here
    BY <2>1, <2>2, <2>3 DEF Tables, Lists
  <2>5. QED
    BY <2>4 DEF Good, none
<1>3. StreamOK
  BY DEF Init, StreamOK
<1>4. FetchesOK
  BY DEF Init, FetchesOK
<1>5. ActsOK
  <2>1. Cardinality(deleting) = 0 /\ IsFiniteSet(deleting)
    BY FS_EmptySet DEF Init
  <2>2. /\ late \in [LiveViews -> Nat] /\ awaiting = 0 /\ pages = 1 /\ acts = 0
        /\ deleting \subseteq [view : LiveViews, key : Keys]
    BY DEF Init
  <2>3. ASSUME NEW v \in LiveViews PROVE late[v] = 0 /\ Timer(v) = 0
    BY DEF Init, Timer
  <2>4. ASSUME NEW v \in LiveViews
        PROVE  late[v] + Timer(v) + awaiting + Cardinality(deleting) <= acts
    BY <2>1, <2>2, <2>3
  <2>5. QED
    BY <2>1, <2>2, <2>4, BoundsAssumption DEF ActsOK
<1>6. QED
  BY <1>1, <1>2, <1>3, <1>4, <1>5 DEF IInv

LEMMA ClickInv ==
  ASSUME IInv, NEW v \in LiveViews \cup {Page}, Click(v)
  PROVE  IInv'
<1>1. navigate(v) /\ view' = v
  BY DEF Click, navigate
<1>2. PlaceOK'
  BY <1>1 DEF IInv, PlaceOK, Click
<1>3. /\ Good(table)' /\ StreamOK'
      /\ late' \in [LiveViews -> Nat] /\ pages' \in Nat
      /\ \A u \in LiveViews : late'[u] + Timer(u)' <= late[u] + Timer(u) + 1
  BY <1>1, Navigated
<1>4. FetchesOK'
  BY DEF IInv, FetchesOK, Click
<1>5. ActsOK'
  <2>1. /\ acts' = acts + 1 /\ acts < MaxActs /\ acts \in 0 .. MaxActs
        /\ awaiting' = awaiting /\ deleting' = deleting
        /\ awaiting \in Nat /\ awaiting <= acts /\ Cardinality(deleting) \in Nat
        /\ deleting \subseteq [view : LiveViews, key : Keys] /\ IsFiniteSet(deleting)
    BY FS_CardinalityType DEF Click, Act, IInv, ActsOK
  <2>2. acts' \in 0 .. MaxActs /\ awaiting' <= acts'
        /\ awaiting' + Cardinality(deleting') - acts' + 1 <= awaiting + Cardinality(deleting) - acts
    BY <2>1, BoundsAssumption
  <2>3. QED
    BY <1>3, <2>1, <2>2, ActsSpent DEF IInv
<1>6. QED
  BY <1>2, <1>3, <1>4, <1>5 DEF IInv

LEMMA NamespaceInv ==
  ASSUME IInv, NEW n \in Namespaces, changeNamespace(n)
  PROVE  IInv'
<1>1. navigate(view) /\ view' = view /\ view \in LiveViews \cup {Page}
  BY DEF changeNamespace, navigate, IInv, PlaceOK
<1>2. PlaceOK'
  BY <1>1 DEF IInv, PlaceOK, changeNamespace
<1>3. /\ Good(table)' /\ StreamOK'
      /\ late' \in [LiveViews -> Nat] /\ pages' \in Nat
      /\ \A u \in LiveViews : late'[u] + Timer(u)' <= late[u] + Timer(u) + 1
  BY <1>1, Navigated
<1>4. FetchesOK'
  BY DEF IInv, FetchesOK, changeNamespace
<1>5. ActsOK'
  <2>1. /\ acts' = acts + 1 /\ acts < MaxActs /\ acts \in 0 .. MaxActs
        /\ awaiting' = awaiting /\ deleting' = deleting
        /\ awaiting \in Nat /\ awaiting <= acts /\ Cardinality(deleting) \in Nat
        /\ deleting \subseteq [view : LiveViews, key : Keys] /\ IsFiniteSet(deleting)
    BY FS_CardinalityType DEF changeNamespace, Act, IInv, ActsOK
  <2>2. acts' \in 0 .. MaxActs /\ awaiting' <= acts'
        /\ awaiting' + Cardinality(deleting') - acts' + 1 <= awaiting + Cardinality(deleting) - acts
    BY <2>1, BoundsAssumption
  <2>3. QED
    BY <1>3, <2>1, <2>2, ActsSpent DEF IInv
<1>6. QED
  BY <1>2, <1>3, <1>4, <1>5 DEF IInv

LEMMA ClusterInv ==
  ASSUME IInv, NEW c \in Clusters, changeCluster(c)
  PROVE  IInv'
<1>1. PlaceOK'
  BY DEF IInv, PlaceOK, changeCluster
<1>2. Good(table)'
  BY GoodKept DEF IInv, changeCluster
<1>3. StreamOK' /\ FetchesOK'
  BY DEF IInv, StreamOK, FetchesOK, changeCluster
<1>4. ActsOK'
  <2>1. /\ acts' = acts + 1 /\ acts < MaxActs /\ acts \in 0 .. MaxActs
        /\ awaiting' = awaiting + 1 /\ deleting' = deleting /\ late' = late /\ es' = es
        /\ pages' = pages /\ awaiting \in Nat /\ awaiting <= acts
        /\ Cardinality(deleting) \in Nat /\ IsFiniteSet(deleting) /\ late \in [LiveViews -> Nat]
    BY FS_CardinalityType DEF changeCluster, Act, IInv, ActsOK
  <2>2. acts' \in 0 .. MaxActs /\ awaiting' \in Nat /\ awaiting' <= acts'
    BY <2>1, BoundsAssumption
  <2>3. ASSUME NEW u \in LiveViews
        PROVE  late'[u] + Timer(u)' + awaiting' + Cardinality(deleting') <= acts'
    <3>1. Timer(u)' = Timer(u) /\ Timer(u) \in 0 .. 1
      BY <2>1 DEF Timer
    <3>2. late[u] + Timer(u) + awaiting + Cardinality(deleting) <= acts /\ late[u] \in Nat
      BY <2>1 DEF IInv, ActsOK
    <3>3. QED
      BY <2>1, <3>1, <3>2
  <2>4. QED
    BY <2>1, <2>2, <2>3 DEF IInv, ActsOK
<1>5. QED
  BY <1>1, <1>2, <1>3, <1>4 DEF IInv

LEMMA ImportInv ==
  ASSUME IInv, NEW c \in Clusters, importKubeconfig(c)
  PROVE  IInv'
<1>1. PlaceOK'
  BY DEF IInv, PlaceOK, importKubeconfig, work
<1>2. Good(table)'
  BY GoodKept DEF IInv, importKubeconfig, work
<1>3. StreamOK' /\ FetchesOK'
  BY DEF IInv, StreamOK, FetchesOK, importKubeconfig, work
<1>4. ActsOK'
  <2>1. acts' = acts + 1 /\ acts < MaxActs /\ acts \in 0 .. MaxActs /\ awaiting \in Nat
    BY DEF importKubeconfig, Act, IInv, ActsOK
  <2>2. acts' \in 0 .. MaxActs /\ acts' >= acts
    BY <2>1, BoundsAssumption
  <2>3. UNCHANGED <<late, es, awaiting, deleting, pages>>
    BY DEF importKubeconfig, work
  <2>4. ASSUME NEW u \in LiveViews
        PROVE  late'[u] + Timer(u)' + awaiting' + Cardinality(deleting') <= acts'
    <3>1. Timer(u)' = Timer(u) /\ Timer(u) \in 0 .. 1
      BY <2>3 DEF Timer
    <3>2. /\ late[u] + Timer(u) + awaiting + Cardinality(deleting) <= acts
          /\ late[u] \in Nat /\ Cardinality(deleting) \in Nat
      BY FS_CardinalityType DEF IInv, ActsOK
    <3>3. QED
      BY <2>1, <2>2, <2>3, <3>1, <3>2
  <2>5. awaiting' <= acts'
    BY <2>1, <2>2, <2>3 DEF IInv, ActsOK
  <2>6. QED
    BY <2>2, <2>3, <2>4, <2>5 DEF IInv, ActsOK
<1>5. QED
  BY <1>1, <1>2, <1>3, <1>4 DEF IInv

LEMMA NamespacesCome ==
  ASSUME IInv, loadNamespaces
  PROVE  IInv'
<1>1. navigate(view) /\ view' = view /\ view \in LiveViews \cup {Page}
  BY DEF loadNamespaces, navigate, IInv, PlaceOK
<1>2. PlaceOK'
  BY <1>1 DEF IInv, PlaceOK, loadNamespaces
<1>3. /\ Good(table)' /\ StreamOK'
      /\ late' \in [LiveViews -> Nat] /\ pages' \in Nat
      /\ \A u \in LiveViews : late'[u] + Timer(u)' <= late[u] + Timer(u) + 1
  BY <1>1, Navigated
<1>4. FetchesOK'
  BY DEF IInv, FetchesOK, loadNamespaces
<1>5. ActsOK'
  <2>1. /\ acts' = acts /\ acts \in 0 .. MaxActs
        /\ awaiting' = awaiting - 1 /\ awaiting > 0 /\ deleting' = deleting
        /\ awaiting \in Nat /\ awaiting <= acts /\ Cardinality(deleting) \in Nat
        /\ deleting \subseteq [view : LiveViews, key : Keys] /\ IsFiniteSet(deleting)
    BY FS_CardinalityType DEF loadNamespaces, IInv, ActsOK
  <2>2. acts' \in 0 .. MaxActs /\ awaiting' \in Nat /\ awaiting' <= acts'
        /\ awaiting' + Cardinality(deleting') - acts' + 1 <= awaiting + Cardinality(deleting) - acts
    BY <2>1, BoundsAssumption
  <2>3. QED
    BY <1>3, <2>1, <2>2, ActsSpent DEF IInv
<1>6. QED
  BY <1>2, <1>3, <1>4, <1>5 DEF IInv

LEMMA PageInv ==
  ASSUME IInv, PageArrives
  PROVE  IInv'
<1>1. PlaceOK' /\ StreamOK' /\ FetchesOK'
  BY DEF IInv, PlaceOK, StreamOK, FetchesOK, PageArrives, location
<1>2. Good(table)'
  <2>1. table' \in Tables /\ table'.shown = <<>> /\ ~table'.here
    BY DEF PageArrives, IInv, Good, Tables
  <2>2. QED
    BY <2>1 DEF Good
<1>3. ActsOK'
  <2>1. pages' \in Nat
    <3>1. pages \in Nat /\ pages > 0 /\ pages' = pages - 1
      BY DEF PageArrives, IInv, ActsOK
    <3>2. QED
      BY <3>1
  <2>2. /\ late' = late /\ es' = es /\ awaiting' = awaiting /\ deleting' = deleting
        /\ acts' = acts
    BY DEF PageArrives
  <2>3. QED
    BY <2>1, <2>2 DEF IInv, ActsOK, Timer
<1>4. QED
  BY <1>1, <1>2, <1>3 DEF IInv

\* Steps that leave the table, the place and the acts alone.
LEMMA Stays ==
  ASSUME IInv, location' = location, Good(table)', world' \in [Clusters \X LiveViews -> Lists],
         StreamGoesOn, FetchesOK',
         late' \in [LiveViews -> Nat], \A v \in LiveViews : late'[v] <= late[v],
         awaiting' = awaiting, deleting' = deleting, pages' = pages, acts' = acts
  PROVE  IInv'
<1>1. PlaceOK'
  BY DEF IInv, PlaceOK, location
<1>2. StreamOK' /\ \A v \in LiveViews : Timer(v)' <= Timer(v)
  BY StreamKept DEF IInv, location
<1>3. pages' \in Nat
  BY DEF IInv, ActsOK
<1>4. ActsOK'
  BY <1>2, <1>3, ActsKept DEF IInv
<1>5. QED
  BY <1>1, <1>2, <1>4 DEF IInv

LEMMA LateKept ==
  ASSUME IInv, late' = late
  PROVE  late' \in [LiveViews -> Nat] /\ \A v \in LiveViews : late'[v] <= late[v]
<1>1. late \in [LiveViews -> Nat]
  BY DEF IInv, ActsOK
<1>2. QED
  BY <1>1

LEMMA ChangeInv ==
  ASSUME IInv, Change
  PROVE  IInv'
<1>1. PICK c \in Clusters, v \in LiveViews, k \in Keys, row \in Rows : Becomes(c, v, k, row)
  BY DEF Change
<1>2. world' \in [Clusters \X LiveViews -> Lists] /\ StreamGoesOn
  BY <1>1, BecomesType
<1>3. /\ location' = location /\ table' = table /\ late' = late /\ fetch' = fetch
      /\ deleting' = deleting /\ awaiting' = awaiting /\ pages' = pages /\ acts' = acts
  BY DEF Change, work
<1>4. Good(table)'
  BY <1>3, GoodKept DEF IInv, location
<1>5. FetchesOK'
  BY <1>3 DEF IInv, FetchesOK
<1>6. QED
  BY <1>2, <1>3, <1>4, <1>5, LateKept, Stays

LEMMA ConnectInv ==
  ASSUME IInv, Connect
  PROVE  IInv'
<1>1. es \in Streams /\ es # NoStream
  BY DEF Connect, IInv, StreamOK
<1>2. StreamGoesOn
  <2> DEFINE rows == world[<<es.cluster, es.view>>]
             box == <<Snapshot(rows)>>
             yes == TRUE
             timer == es.timer
  <2>1. /\ es.cluster \in Clusters /\ es.view \in LiveViews /\ timer \in BOOLEAN
        /\ yes \in BOOLEAN
    BY <1>1, StreamFields
  <2>2. rows \in Lists
    BY <2>1 DEF IInv, PlaceOK
  <2> HIDE DEF rows
  <2>3. Snapshot(rows) \in Messages
    BY <2>2 DEF Snapshot, Messages, Lists
  <2>4. box \in Seq(Messages)
    BY <2>3
  <2>5. es' = Stream(es.cluster, es.view, timer, yes, box)
    BY DEF Connect, rows
  <2> HIDE DEF box, yes, timer
  <2>6. es' \in Streams /\ es' # NoStream /\ es'.view = es.view /\ es'.timer = timer
    BY <2>1, <2>4, <2>5, StreamType
  <2>7. QED
    BY <1>1, <2>6 DEF StreamGoesOn, timer
<1>3. /\ location' = location /\ table' = table /\ late' = late /\ fetch' = fetch
      /\ deleting' = deleting /\ awaiting' = awaiting /\ pages' = pages /\ acts' = acts
      /\ world' = world
  BY DEF Connect, work
<1>4. Good(table)'
  BY <1>3, GoodKept DEF IInv, location
<1>5. FetchesOK' /\ world' \in [Clusters \X LiveViews -> Lists]
  BY <1>3 DEF IInv, FetchesOK, PlaceOK
<1>6. QED
  BY <1>2, <1>3, <1>4, <1>5, LateKept, Stays

LEMMA MessageFields ==
  ASSUME NEW e \in Messages
  PROVE  \/ e.type = "snapshot" /\ e.rows \in Lists
         \/ e.type = "update" /\ e.key \in Keys /\ e.row \in Rows /\ e.row # Gone
         \/ e.type = "delete" /\ e.key \in Keys
BY DEF Messages, Lists

LEMMA DeliverInv ==
  ASSUME IInv, Deliver
  PROVE  IInv'
<1> DEFINE e == Head(es.inbox)
<1>1. es \in Streams /\ es # NoStream /\ es.inbox # <<>>
  BY DEF Deliver, IInv, StreamOK
<1>2. e \in Messages /\ Tail(es.inbox) \in Seq(Messages)
  BY <1>1, StreamFields
<1>3. table' = CASE e.type = "snapshot" -> _renderAll(table, e.rows)
                 [] e.type = "update" -> _upsert(table, e.key, e.row)
                 [] e.type = "delete" -> _remove(table, e.key)
  BY DEF Deliver
<1>4. /\ location' = location /\ late' = late /\ fetch' = fetch
      /\ deleting' = deleting /\ awaiting' = awaiting /\ pages' = pages /\ acts' = acts
      /\ world' = world
  BY DEF Deliver, work
<1>5. StreamGoesOn
  <2> DEFINE timer == es.timer /\ e.type # "snapshot"
             box == Tail(es.inbox)
  <2>1. /\ es.cluster \in Clusters /\ es.view \in LiveViews /\ timer \in BOOLEAN
        /\ es.up \in BOOLEAN /\ box \in Seq(Messages)
    BY <1>1, <1>2, StreamFields
  <2>2. es' = Stream(es.cluster, es.view, timer, es.up, box)
    BY DEF Deliver
  <2>3. timer => es.timer
    OBVIOUS
  <2> HIDE DEF timer, box
  <2>4. es' \in Streams /\ es' # NoStream /\ es'.view = es.view /\ es'.timer = timer
    BY <2>1, <2>2, StreamType
  <2>5. QED
    BY <1>1, <2>3, <2>4 DEF StreamGoesOn
<1> HIDE DEF e
<1>6. PICK t : t = table
  OBVIOUS
<1>7. \E u : Good(u) /\ table' = u
  <2>1. Good(t)
    BY <1>6 DEF IInv
  <2>2. CASE e.type = "snapshot"
    <3>1. table' = _renderAll(t, e.rows) /\ e.rows \in Lists
      BY <1>2, <1>3, <1>6, <2>2, MessageFields
    <3>2. QED
      BY <2>1, <3>1, RenderAllGood
  <2>3. CASE e.type = "update"
    <3>1. table' = _upsert(t, e.key, e.row) /\ e.key \in Keys /\ e.row \in Rows /\ e.row # Gone
      BY <1>2, <1>3, <1>6, <2>3, MessageFields
    <3>2. QED
      BY <2>1, <3>1, UpsertGood
  <2>4. CASE e.type = "delete"
    <3>1. table' = _remove(t, e.key) /\ e.key \in Keys
      BY <1>2, <1>3, <1>6, <2>4, MessageFields
    <3>2. QED
      BY <2>1, <3>1, RemoveGood
  <2>5. QED
    BY <1>2, <2>2, <2>3, <2>4, MessageFields
<1>8. Good(table)'
  BY <1>4, <1>7, GoodNext DEF location
<1>9. FetchesOK' /\ world' \in [Clusters \X LiveViews -> Lists]
  BY <1>4 DEF IInv, FetchesOK, PlaceOK
<1>10. QED
  BY <1>4, <1>5, <1>8, <1>9, LateKept, Stays

LEMMA BreakInv ==
  ASSUME IInv, Break
  PROVE  IInv'
<1>1. es \in Streams /\ es # NoStream /\ view \in LiveViews
  BY DEF Break, IInv, StreamOK, PlaceOK
<1>2. StreamGoesOn
  <2> DEFINE no == FALSE
             box == <<>>
             timer == es.timer
  <2>1. /\ es.cluster \in Clusters /\ es.view \in LiveViews /\ timer \in BOOLEAN
        /\ no \in BOOLEAN /\ box \in Seq(Messages)
    BY <1>1, StreamFields
  <2>2. es' = Stream(es.cluster, es.view, timer, no, box)
    BY DEF Break
  <2> HIDE DEF no, box, timer
  <2>3. es' \in Streams /\ es' # NoStream /\ es'.view = es.view /\ es'.timer = timer
    BY <2>1, <2>2, StreamType
  <2>4. QED
    BY <1>1, <2>3 DEF StreamGoesOn, timer
<1>3. FetchesOK'
  BY <1>1, AskType DEF Break, IInv
<1>4. /\ location' = location /\ table' = table /\ late' = late
      /\ deleting' = deleting /\ awaiting' = awaiting /\ pages' = pages /\ acts' = acts
      /\ world' = world
  BY DEF Break
<1>5. Good(table)'
  BY <1>4, GoodKept DEF IInv, location
<1>6. world' \in [Clusters \X LiveViews -> Lists]
  BY <1>4 DEF IInv, PlaceOK
<1>7. QED
  BY <1>2, <1>3, <1>4, <1>5, <1>6, LateKept, Stays

LEMMA TickInv ==
  ASSUME IInv, Tick
  PROVE  IInv'
<1>1. view \in LiveViews
  BY DEF Tick, IInv, StreamOK, PlaceOK
<1>2. FetchesOK'
  BY <1>1, AskType DEF Tick, IInv
<1>3. /\ location' = location /\ table' = table /\ late' = late /\ es' = es
      /\ deleting' = deleting /\ awaiting' = awaiting /\ pages' = pages /\ acts' = acts
      /\ world' = world
  BY DEF Tick
<1>4. Good(table)'
  BY <1>3, GoodKept DEF IInv, location
<1>5. StreamGoesOn /\ world' \in [Clusters \X LiveViews -> Lists]
  BY <1>3 DEF IInv, PlaceOK, StreamGoesOn
<1>6. QED
  BY <1>2, <1>3, <1>4, <1>5, LateKept, Stays

LEMMA FallbackInv ==
  ASSUME IInv, NEW v \in LiveViews, Fallback(v)
  PROVE  IInv'
<1>1. FetchesOK'
  <2>1. CASE Held(table.rows) = {}
    BY <2>1, AskType DEF Fallback, IInv
  <2>2. CASE Held(table.rows) # {}
    BY <2>2 DEF Fallback, IInv, FetchesOK
  <2>3. QED
    BY <2>1, <2>2
<1>2. /\ location' = location /\ table' = table
      /\ deleting' = deleting /\ awaiting' = awaiting /\ pages' = pages /\ acts' = acts
      /\ world' = world
  BY DEF Fallback
<1>3. Good(table)' /\ world' \in [Clusters \X LiveViews -> Lists]
  BY <1>2, GoodKept DEF IInv, PlaceOK, location
<1>4. /\ StreamGoesOn
      /\ late' \in [LiveViews -> Nat] /\ \A u \in LiveViews : late'[u] <= late[u]
  <2>1. late \in [LiveViews -> Nat]
    BY DEF IInv, ActsOK
  <2>2. CASE late[v] > 0 /\ UNCHANGED es /\ late' = [late EXCEPT ![v] = late[v] - 1]
    BY <2>1, <2>2 DEF StreamGoesOn
  <2>3. CASE /\ es # NoStream /\ es.view = v /\ es.timer
             /\ es' = Stream(es.cluster, v, FALSE, es.up, es.inbox)
             /\ UNCHANGED late
    <3> DEFINE no == FALSE
    <3>1. /\ es.cluster \in Clusters /\ es.up \in BOOLEAN /\ es.inbox \in Seq(Messages)
          /\ no \in BOOLEAN /\ ~no
      BY <2>3, StreamFields DEF IInv, StreamOK
    <3>2. es' = Stream(es.cluster, v, no, es.up, es.inbox)
      BY <2>3
    <3> HIDE DEF no
    <3>3. es' \in Streams /\ es' # NoStream /\ es'.view = v /\ es'.timer = no
      BY <3>1, <3>2, StreamType
    <3>4. es'.view = es.view /\ (es'.timer => es.timer)
      BY <2>3, <3>3, Zenon
    <3>5. late' = late /\ es # NoStream
      BY <2>3, Zenon
    <3>6. StreamGoesOn
      BY <3>3, <3>4, <3>5, Zenon DEF StreamGoesOn
    <3>7. QED
      BY <2>1, <3>5, <3>6
  <2>4. QED
    BY <2>2, <2>3 DEF Fallback
<1>5. QED
  BY <1>1, <1>2, <1>3, <1>4, Stays

LEMMA AnswerInv ==
  ASSUME IInv, NEW i \in Fetches, AnswerList(i)
  PROVE  IInv'
<1>1. fetch[i] # NoFetch
  BY DEF AnswerList
<1>2. FetchesOK'
  <2>1. world[<<fetch[i].cluster, fetch[i].view>>] \in Lists
    BY <1>1, RequestFields DEF IInv, PlaceOK
  <2>2. Empty \in Lists
    BY KeysAssumption DEF Empty, Lists
  <2>3. CASE Answered(i, world[<<fetch[i].cluster, fetch[i].view>>])
    BY <1>1, <2>1, <2>3, AnsweredType DEF IInv
  <2>4. CASE Answered(i, Empty)
    BY <1>1, <2>2, <2>4, AnsweredType DEF IInv
  <2>5. CASE fetch' = [fetch EXCEPT ![i] = NoFetch]
    BY <2>5 DEF IInv, FetchesOK
  <2>6. QED
    BY <2>3, <2>4, <2>5 DEF AnswerList
<1>3. /\ location' = location /\ table' = table /\ late' = late /\ es' = es
      /\ deleting' = deleting /\ awaiting' = awaiting /\ pages' = pages /\ acts' = acts
      /\ world' = world
  BY DEF AnswerList
<1>4. Good(table)'
  BY <1>3, GoodKept DEF IInv, location
<1>5. StreamGoesOn /\ world' \in [Clusters \X LiveViews -> Lists]
  BY <1>3 DEF IInv, PlaceOK, StreamGoesOn
<1>6. QED
  BY <1>2, <1>3, <1>4, <1>5, LateKept, Stays

LEMMA ApplyRows ==
  ASSUME IInv, NEW i \in Fetches, ApplyList(i)
  PROVE  /\ \E u : Good(u) /\ table' = u
         /\ fetch[i].use = "resync" => table'.rows = fetch[i].list
<1>1. PICK t : t = table
  OBVIOUS
<1>2. Good(t) /\ fetch[i].list \in Lists
  BY <1>1, RequestFields DEF ApplyList, IInv
<1>3. CASE fetch[i].use = "resync"
  <2>1. table' = _resync(t, fetch[i].list)
    BY <1>1, <1>3 DEF ApplyList
  <2>2. QED
    BY <1>2, <2>1, ResyncGood
<1>4. CASE fetch[i].use # "resync"
  <2>1. table' = Filled(t, fetch[i].list)
    BY <1>1, <1>4 DEF ApplyList
  <2>2. QED
    BY <1>2, <1>4, <2>1, FilledGood
<1>5. QED
  BY <1>3, <1>4

LEMMA ApplyInv ==
  ASSUME IInv, NEW i \in Fetches, ApplyList(i)
  PROVE  IInv'
<1>1. /\ location' = location /\ late' = late /\ es' = es
      /\ deleting' = deleting /\ awaiting' = awaiting /\ pages' = pages /\ acts' = acts
      /\ world' = world /\ fetch' = [fetch EXCEPT ![i] = NoFetch]
  BY DEF ApplyList
<1>2. Good(table)'
  BY <1>1, ApplyRows, GoodNext DEF location
<1>3. FetchesOK' /\ StreamGoesOn /\ world' \in [Clusters \X LiveViews -> Lists]
  BY <1>1 DEF IInv, FetchesOK, PlaceOK, StreamGoesOn
<1>4. QED
  BY <1>1, <1>2, <1>3, LateKept, Stays

LEMMA DeleteInv ==
  ASSUME IInv, NEW k \in Keys, deletePod(k)
  PROVE  IInv'
<1> DEFINE d == [view |-> view, key |-> k]
<1>1. view \in LiveViews /\ cluster \in Clusters
  BY DEF deletePod, IInv, PlaceOK
<1>2. /\ location' = location /\ table' = table /\ late' = late /\ fetch' = fetch
      /\ awaiting' = awaiting /\ pages' = pages /\ acts' = acts + 1 /\ acts < MaxActs
      /\ deleting' = deleting \cup {d}
  BY DEF deletePod, Act
<1>3. world' \in [Clusters \X LiveViews -> Lists] /\ StreamGoesOn
  <2>1. CASE UNCHANGED <<world, es>>
    BY <2>1 DEF IInv, PlaceOK, StreamGoesOn
  <2>2. CASE Becomes(cluster, view, k, Gone)
    BY <1>1, <2>2, BecomesType, KeysAssumption
  <2>3. QED
    BY <2>1, <2>2 DEF deletePod
<1>4. PlaceOK'
  BY <1>2, <1>3 DEF IInv, PlaceOK, location
<1>5. StreamOK' /\ \A v \in LiveViews : Timer(v)' <= Timer(v)
  BY <1>2, <1>3, StreamKept DEF IInv, location
<1>6. Good(table)' /\ FetchesOK'
  BY <1>2, GoodKept DEF IInv, FetchesOK, location
<1>7. ActsOK'
  <2>1. d \in [view : LiveViews, key : Keys]
    BY <1>1
  <2> HIDE DEF d
  <2>2. /\ deleting' \subseteq [view : LiveViews, key : Keys] /\ IsFiniteSet(deleting')
        /\ Cardinality(deleting') <= Cardinality(deleting) + 1
        /\ Cardinality(deleting) \in Nat /\ Cardinality(deleting') \in Nat
    <3>1. deleting \subseteq [view : LiveViews, key : Keys] /\ IsFiniteSet(deleting)
      BY DEF IInv, ActsOK
    <3>2. /\ IsFiniteSet(deleting \cup {d})
          /\ Cardinality(deleting \cup {d}) = IF d \in deleting THEN Cardinality(deleting)
                                              ELSE Cardinality(deleting) + 1
      BY <3>1, FS_AddElement
    <3>3. Cardinality(deleting) \in Nat /\ Cardinality(deleting \cup {d}) \in Nat
      BY <3>1, <3>2, FS_CardinalityType
    <3>4. QED
      BY <1>2, <2>1, <3>1, <3>2, <3>3
  <2>3. acts \in 0 .. MaxActs /\ awaiting \in Nat /\ awaiting <= acts /\ late \in [LiveViews -> Nat]
        /\ pages \in Nat
    BY DEF IInv, ActsOK
  <2>4. acts' \in 0 .. MaxActs /\ awaiting' <= acts'
    BY <1>2, <2>3, BoundsAssumption
  <2>5. ASSUME NEW v \in LiveViews
        PROVE  late'[v] + Timer(v)' + awaiting' + Cardinality(deleting') <= acts'
    <3>1. Timer(v)' <= Timer(v) /\ Timer(v) \in 0 .. 1 /\ Timer(v)' \in 0 .. 1
      BY <1>5 DEF Timer
    <3>2. late[v] + Timer(v) + awaiting + Cardinality(deleting) <= acts /\ late[v] \in Nat
      BY <2>3 DEF IInv, ActsOK
    <3>3. QED
      BY <1>2, <2>2, <2>3, <3>1, <3>2
  <2>6. QED
    BY <1>2, <2>2, <2>3, <2>4, <2>5 DEF ActsOK
<1>8. QED
  BY <1>4, <1>5, <1>6, <1>7 DEF IInv

LEMMA RemoveRowInv ==
  ASSUME IInv, NEW d \in deleting, removeRow(d)
  PROVE  IInv'
<1>1. /\ cluster' = cluster /\ namespace' = namespace /\ world' = world /\ fetch' = fetch
      /\ awaiting' = awaiting /\ acts' = acts /\ deleting' = deleting \ {d}
      /\ d.view \in LiveViews /\ d.key \in Keys
  BY DEF removeRow, IInv, ActsOK
<1>2. /\ deleting' \subseteq [view : LiveViews, key : Keys] /\ IsFiniteSet(deleting')
      /\ Cardinality(deleting') = Cardinality(deleting) - 1
      /\ Cardinality(deleting) \in Nat /\ Cardinality(deleting') \in Nat
  <2>1. deleting \subseteq [view : LiveViews, key : Keys] /\ IsFiniteSet(deleting)
    BY DEF IInv, ActsOK
  <2>2. /\ IsFiniteSet(deleting \ {d})
        /\ Cardinality(deleting \ {d}) = IF d \in deleting THEN Cardinality(deleting) - 1
                                         ELSE Cardinality(deleting)
    BY <2>1, FS_RemoveElement
  <2>3. Cardinality(deleting) \in Nat /\ Cardinality(deleting \ {d}) \in Nat
    BY <2>1, <2>2, FS_CardinalityType
  <2>4. QED
    BY <1>1, <2>1, <2>2, <2>3
<1>3. /\ PlaceOK' /\ Good(table)' /\ StreamOK'
      /\ late' \in [LiveViews -> Nat] /\ pages' \in Nat
      /\ \A u \in LiveViews : late'[u] + Timer(u)' <= late[u] + Timer(u) + 1
  <2>1. CASE /\ view = d.view
             /\ table' = _remove(table, d.key)
             /\ UNCHANGED <<view, es, late, pages>>
    <3>1. PICK t : t = table
      OBVIOUS
    <3>2. \E u : Good(u) /\ table' = u
      BY <1>1, <2>1, <3>1, RemoveGood DEF IInv
    <3>3. Good(table)'
      BY <1>1, <3>2, GoodNext
    <3>4. PlaceOK' /\ StreamOK'
      BY <1>1, <2>1 DEF IInv, PlaceOK, StreamOK
    <3>5. late' \in [LiveViews -> Nat] /\ pages' \in Nat
      BY <2>1 DEF IInv, ActsOK
    <3>6. ASSUME NEW u \in LiveViews PROVE late'[u] + Timer(u)' <= late[u] + Timer(u) + 1
      <4>1. Timer(u)' = Timer(u) /\ Timer(u) \in 0 .. 1 /\ late[u] \in Nat /\ late' = late
        BY <2>1, <3>5 DEF Timer
      <4>2. QED
        BY <4>1
    <3>7. QED
      BY <3>3, <3>4, <3>5, <3>6
  <2>2. CASE view # d.view /\ navigate(view)
    <3>1. view \in LiveViews \cup {Page} /\ view' = view
      BY <2>2 DEF navigate, IInv, PlaceOK
    <3>2. PlaceOK'
      BY <1>1, <3>1 DEF IInv, PlaceOK
    <3>3. QED
      BY <2>2, <3>1, <3>2, Navigated
  <2>3. QED
    BY <2>1, <2>2 DEF removeRow
<1>4. FetchesOK'
  BY <1>1 DEF IInv, FetchesOK
<1>5. ActsOK'
  <2>1. acts \in 0 .. MaxActs /\ awaiting \in Nat /\ awaiting <= acts
    BY DEF IInv, ActsOK
  <2>2. awaiting' + Cardinality(deleting') - acts' + 1 <= awaiting + Cardinality(deleting) - acts
    BY <1>1, <1>2, <2>1
  <2>3. QED
    BY <1>1, <1>2, <1>3, <2>1, <2>2, ActsSpent DEF IInv
<1>6. QED
  BY <1>3, <1>4, <1>5 DEF IInv

LEMMA StutterInv ==
  ASSUME IInv, UNCHANGED vars
  PROVE  IInv'
<1>1. /\ location' = location /\ table' = table /\ late' = late /\ fetch' = fetch /\ es' = es
      /\ deleting' = deleting /\ awaiting' = awaiting /\ pages' = pages /\ acts' = acts
      /\ world' = world
  BY DEF vars, work
<1>2. Good(table)'
  BY <1>1, GoodKept DEF IInv, location
<1>3. FetchesOK' /\ StreamGoesOn /\ world' \in [Clusters \X LiveViews -> Lists]
  BY <1>1 DEF IInv, FetchesOK, PlaceOK, StreamGoesOn
<1>4. QED
  BY <1>1, <1>2, <1>3, LateKept, Stays

LEMMA NextInv == IInv /\ [Next]_vars => IInv'
<1> SUFFICES ASSUME IInv, [Next]_vars PROVE IInv'
  OBVIOUS
<1>1. CASE \E v \in LiveViews \cup {Page} : Click(v)
  BY <1>1, ClickInv
<1>2. CASE \E n \in Namespaces \ {namespace} : changeNamespace(n)
  BY <1>2, NamespaceInv
<1>3. CASE \E c \in Clusters \ {cluster} : changeCluster(c) \/ importKubeconfig(c)
  BY <1>3, ClusterInv, ImportInv
<1>4. CASE \E k \in Keys : deletePod(k)
  BY <1>4, DeleteInv
<1>5. CASE loadNamespaces
  BY <1>5, NamespacesCome
<1>6. CASE PageArrives
  BY <1>6, PageInv
<1>7. CASE Change
  BY <1>7, ChangeInv
<1>8. CASE Connect
  BY <1>8, ConnectInv
<1>9. CASE Deliver
  BY <1>9, DeliverInv
<1>10. CASE Break
  BY <1>10, BreakInv
<1>11. CASE Tick
  BY <1>11, TickInv
<1>12. CASE \E v \in LiveViews : Fallback(v)
  BY <1>12, FallbackInv
<1>13. CASE \E i \in Fetches : AnswerList(i) \/ ApplyList(i)
  BY <1>13, AnswerInv, ApplyInv
<1>14. CASE \E d \in deleting : removeRow(d)
  BY <1>14, RemoveRowInv
<1>15. CASE UNCHANGED vars
  BY <1>15, StutterInv
<1>16. QED
  BY <1>1, <1>2, <1>3, <1>4, <1>5, <1>6, <1>7, <1>8, <1>9, <1>10, <1>11, <1>12, <1>13,
     <1>14, <1>15 DEF Next, User

-----------------------------------------------------------------------------
(* The theorems.                                                             *)

\* Whatever feeds the table: it is good, the stream is that of the view that
\* is open, and there is at most one fallback timer for each act of the user.
THEOREM Inductive == Spec => []IInv
<1>1. Init => IInv
  BY InitInv
<1>2. IInv /\ [Next]_vars => IInv'
  BY NextInv
<1>3. QED
  BY <1>1, <1>2, PTL DEF Spec

LEMMA InvType == IInv => TypeOK
<1> SUFFICES ASSUME IInv PROVE TypeOK
  OBVIOUS
<1>1. /\ world \in [Clusters \X LiveViews -> [Keys -> Rows]]
      /\ cluster \in Clusters /\ namespace \in Namespaces /\ view \in LiveViews \cup {Page}
  BY DEF IInv, PlaceOK, Lists
<1>2. table \in [rows : [Keys -> Rows], shown : Seq([key : Keys, row : Rows \ {Gone}]),
                 here : BOOLEAN]
  BY DEF IInv, Good, Tables, LineSet
<1>3. /\ es \in Streams \cup {NoStream} /\ (es # NoStream => es.view = view)
      /\ es = NoStream <=> view = Page
  BY DEF IInv, StreamOK
<1>4. late \in [LiveViews -> 0 .. MaxActs]
  <2>1. ASSUME NEW v \in LiveViews PROVE late[v] \in 0 .. MaxActs
    <3>1. /\ late[v] \in Nat /\ awaiting \in Nat /\ Cardinality(deleting) \in Nat
          /\ acts \in 0 .. MaxActs
          /\ late[v] + Timer(v) + awaiting + Cardinality(deleting) <= acts
      BY FS_CardinalityType DEF IInv, ActsOK
    <3>2. Timer(v) \in 0 .. 1
      BY DEF Timer
    <3>3. QED
      BY <3>1, <3>2, BoundsAssumption
  <2>2. QED
    BY <2>1 DEF IInv, ActsOK
<1>5. ASSUME NEW i \in Fetches, fetch[i] # NoFetch
      PROVE  fetch[i] \in [cluster : Clusters, view : LiveViews, use : {"resync", "fallback"},
                           list : [Keys -> Rows] \cup {NoAnswer}]
  BY <1>5 DEF IInv, FetchesOK, Requests, Lists
<1>6. /\ deleting \subseteq [view : LiveViews, key : Keys]
      /\ awaiting \in 0 .. MaxActs /\ pages \in Nat
  BY BoundsAssumption DEF IInv, ActsOK
<1>7. QED
  BY <1>1, <1>2, <1>3, <1>4, <1>5, <1>6 DEF TypeOK

\* The table, the stream, the timers and the requests keep their types.
THEOREM TypeCorrect == Spec => []TypeOK
<1>1. IInv => TypeOK
  BY InvType
<1>2. QED
  BY <1>1, Inductive, PTL

LEMMA InvShows == IInv => ShowsWhatItHolds
<1> SUFFICES ASSUME IInv, table.here PROVE table.shown = Lines(table.rows)
  BY DEF ShowsWhatItHolds
<1>1. /\ table.rows \in Lists /\ table.shown \in Seq(LineSet)
      /\ Enumerates(table.shown, table.rows, Visible(table.rows))
  BY DEF IInv, Good, Tables, Lists
<1>2. /\ Lines(table.rows) \in Seq(LineSet)
      /\ Enumerates(Lines(table.rows), table.rows, Visible(table.rows))
  BY <1>1, LinesType
<1>3. QED
  BY <1>1, <1>2, Unique

\* The document always shows what _renderAll would draw from rowsByKey, however
\* many rows _upsert and _remove have put in and taken out since.
THEOREM ShowsWhatItHoldsAlways == Spec => []ShowsWhatItHolds
<1>1. IInv => ShowsWhatItHolds
  BY InvShows
<1>2. QED
  BY <1>1, Inductive, PTL

\* _resync ends with the rows of the answer, whatever the table held before.
THEOREM ResyncTakesOverEver == Spec => ResyncTakesOver
<1>1. IInv /\ [Next]_vars =>
        [\A i \in Fetches : ApplyList(i) /\ fetch[i].use = "resync"
                            => table'.rows = fetch[i].list]_vars
  BY ApplyRows
<1>2. QED
  BY <1>1, Inductive, PTL DEF Spec, ResyncTakesOver
=============================================================================
