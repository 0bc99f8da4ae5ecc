------------------------- MODULE LegacyServerProofs -------------------------
(***************************************************************************)
(* Theorems about LegacyServer, for every value of its constants.          *)
(***************************************************************************)
EXTENDS LegacyServer, FiniteSetTheorems, TLAPS

-----------------------------------------------------------------------------
LEMMA AppendType ==
  ASSUME NEW S, NEW s \in Seq(S), NEW c \in S
  PROVE  Append(s, c) \in Seq(S) /\ Len(Append(s, c)) = Len(s) + 1
OBVIOUS

LEMMA SingleType ==
  ASSUME NEW S, NEW c \in S
  PROVE  <<c>> \in Seq(S) /\ Len(<<c>>) = 1
OBVIOUS

LEMMA ContentTypes ==
  ASSUME TypeOK, NEW k \in Kinds
  PROVE  /\ Latest(k) \in Contents[k] /\ IsFiniteSet(Latest(k))
         /\ \A i \in 0 .. Len(log[k]) : Seen(k, i) \in Contents[k] /\ IsFiniteSet(Seen(k, i))
<1>1. \A i \in 1 .. Len(log[k]) : log[k][i] \in Contents[k]
  BY DEF TypeOK
<1>2. Len(log[k]) \in 1 .. Len(log[k])
  BY DEF TypeOK
<1>3. QED
  BY <1>1, <1>2, ContentsAssumption DEF Latest, Seen

\* A change at the end of a log leaves its earlier positions as they were.
LEMMA AppendKeeps ==
  ASSUME TypeOK, NEW k \in Kinds, NEW c \in Contents[k],
         log' = [log EXCEPT ![k] = Append(log[k], c)]
  PROVE  /\ log' \in [Kinds -> Seq(AnyContent)]
         /\ \A x \in Kinds : /\ log'[x] \in Seq(Contents[x]) /\ Len(log'[x]) > 0
                             /\ Len(log[x]) <= Len(log'[x])
                             /\ \A i \in 0 .. Len(log[x]) : Seen(x, i)' = Seen(x, i)
<1>1. log[k] \in Seq(Contents[k]) /\ Len(log[k]) > 0
  BY DEF TypeOK
<1>2. log'[k] = Append(log[k], c) /\ \A x \in Kinds \ {k} : log'[x] = log[x]
  BY DEF TypeOK
<1>3. log'[k] \in Seq(Contents[k]) /\ Len(log'[k]) = Len(log[k]) + 1
  <2>1. Append(log[k], c) \in Seq(Contents[k]) /\ Len(Append(log[k], c)) = Len(log[k]) + 1
    BY <1>1, AppendType
  <2>2. QED
    BY <1>2, <2>1
<1>4. c \in AnyContent
  BY DEF AnyContent
<1>5. log[k] \in Seq(AnyContent)
  BY DEF TypeOK
<1>6. Append(log[k], c) \in Seq(AnyContent)
  BY <1>4, <1>5, AppendType
<1>7. log' \in [Kinds -> Seq(AnyContent)]
  BY <1>6 DEF TypeOK
<1>8. ASSUME NEW x \in Kinds
      PROVE  /\ log'[x] \in Seq(Contents[x]) /\ Len(log'[x]) > 0
             /\ Len(log[x]) <= Len(log'[x])
  <2>1. CASE x = k
    BY <1>1, <1>3, <2>1
  <2>2. CASE x # k
    <3>1. log'[x] = log[x]
      BY <1>2, <2>2
    <3>2. QED
      BY <3>1 DEF TypeOK
  <2>3. QED
    BY <2>1, <2>2
<1>9. ASSUME NEW x \in Kinds, NEW i \in 0 .. Len(log[x])
      PROVE  Seen(x, i)' = Seen(x, i)
  <2>1. CASE x = k /\ i # 0
    <3>1. i \in 1 .. Len(log[k])
      BY <1>1, <2>1
    <3>2. Append(log[k], c)[i] = log[k][i]
      BY <1>1, <3>1
    <3>3. QED
      BY <1>2, <2>1, <3>2 DEF Seen
  <2>2. CASE x # k \/ i = 0
    BY <1>2, <2>2 DEF Seen
  <2>3. QED
    BY <2>1, <2>2
<1>10. QED
  BY <1>7, <1>8, <1>9

-----------------------------------------------------------------------------
(* The inductive invariant, one lemma per shape of step.                   *)

LEMMA InitInv == Init => IInv
<1> SUFFICES ASSUME Init PROVE IInv
  OBVIOUS
<1>1. PICK c \in [Kinds -> AnyContent] :
        /\ \A k \in Kinds : c[k] \in Contents[k]
        /\ log = [k \in Kinds |-> <<c[k]>>]
  BY DEF Init
<1>2. /\ log \in [Kinds -> Seq(AnyContent)]
      /\ \A k \in Kinds : log[k] \in Seq(Contents[k]) /\ Len(log[k]) = 1
  <2>1. \A k \in Kinds : /\ c[k] \in AnyContent /\ c[k] \in Contents[k]
                          /\ <<c[k]>> \in Seq(AnyContent) /\ <<c[k]>> \in Seq(Contents[k])
                          /\ Len(<<c[k]>>) = 1
    BY <1>1, SingleType
  <2>2. \A k \in Kinds : log[k] = <<c[k]>>
    BY <1>1
  <2>3. QED
    BY <1>1, <2>1, <2>2
<1>3. Idle.pc = "idle"
  BY DEF Idle
<1>4. \A r \in Requests : req[r].pc = "idle"
  BY <1>3 DEF Init
<1>5. \A k \in Kinds : /\ cache[k] = [at |-> 0, items |-> {}] /\ lister[k] = 0
                       /\ refresh[k] = [pc |-> "idle", at |-> 0]
  BY DEF Init
<1>6. TypeOK
  <2>1. cache \in [Kinds -> [at : Nat, items : SUBSET UNION AnyContent]]
    BY DEF Init
  <2>2. refresh \in [Kinds -> [pc : {"idle", "listed", "copying"}, at : Nat]]
    BY DEF Init
  <2>3. /\ serving \in BOOLEAN /\ lister \in [Kinds -> Nat] /\ calls \in [Kinds -> Nat]
        /\ writer = Nobody /\ readers = {}
    BY DEF Init
  <2>4. ASSUME NEW k \in Kinds PROVE Len(log[k]) > 0
    <3>1. Len(log[k]) = 1
      BY <1>2
    <3>2. QED
      BY <3>1
  <2>5. QED
    BY <1>2, <1>4, <2>1, <2>2, <2>3, <2>4 DEF TypeOK
<1>7. LockOK
  BY <1>4, <1>5, NobodyAssumption DEF Init, LockOK
<1>8. CachesOK
  BY <1>2, <1>5, NobodyAssumption DEF Init, CachesOK, Seen
<1>9. ReadersOK
  BY <1>4 DEF Init, ReadersOK, ReaderOK
<1>10. QED
  BY <1>6, <1>7, <1>8, <1>9 DEF IInv

\* The API server changes what it holds.
LEMMA LogInv ==
  ASSUME IInv, NEW k \in Kinds, NEW c \in Contents[k],
         log' = [log EXCEPT ![k] = Append(log[k], c)],
         UNCHANGED <<serving, lister, calls, refresh, cache, locks, req>>
  PROVE  IInv'
<1>1. /\ log' \in [Kinds -> Seq(AnyContent)]
      /\ \A x \in Kinds : /\ log'[x] \in Seq(Contents[x]) /\ Len(log'[x]) > 0
                          /\ Len(log[x]) <= Len(log'[x])
                          /\ \A i \in 0 .. Len(log[x]) : Seen(x, i)' = Seen(x, i)
  BY AppendKeeps DEF IInv
<1>2. TypeOK'
  BY <1>1 DEF IInv, TypeOK, locks
<1>3. LockOK'
  BY DEF IInv, LockOK, locks
<1>4. \A x \in Kinds : /\ cache[x].at \in 0 .. Len(log[x])
                       /\ Seen(x, cache[x].at)' = Seen(x, cache[x].at)
  <2>1. \A x \in Kinds : cache[x].at \in 0 .. Len(log[x]) /\ cache'[x].at = cache[x].at
    BY DEF IInv, CachesOK, TypeOK
  <2>2. QED
    BY <1>1, <2>1 DEF Seen
<1>5. CachesOK'
  BY <1>1, <1>4 DEF IInv, TypeOK, CachesOK, locks
<1>6. ReadersOK'
  BY <1>4 DEF IInv, ReadersOK, ReaderOK, locks
<1>7. QED
  BY <1>2, <1>3, <1>5, <1>6 DEF IInv

\* The informers move on and ask for refreshes.
LEMMA InformerInv ==
  ASSUME IInv, lister' \in [Kinds -> Nat], calls' \in [Kinds -> Nat], serving' \in BOOLEAN,
         \A k \in Kinds : lister[k] <= lister'[k] /\ lister'[k] <= Len(log[k]),
         UNCHANGED <<log, refresh, cache, locks, req>>
  PROVE  IInv'
<1>1. TypeOK'
  BY DEF IInv, TypeOK, locks
<1>2. LockOK'
  BY DEF IInv, LockOK, locks
<1>3. CachesOK'
  BY DEF IInv, TypeOK, CachesOK, Seen, locks
<1>4. ReadersOK'
  BY DEF IInv, ReadersOK, ReaderOK, Seen, locks
<1>5. QED
  BY <1>1, <1>2, <1>3, <1>4 DEF IInv

LEMMA ListInv == ASSUME IInv, NEW k \in Kinds, ListObjects(k) PROVE IInv'
<1> DEFINE f == [pc |-> "listed", at |-> lister[k]]
<1>1. refresh' = [refresh EXCEPT ![k] = f] /\ calls' = [calls EXCEPT ![k] = calls[k] - 1]
  BY DEF ListObjects
<1>2. f \in [pc : {"idle", "listed", "copying"}, at : Nat] /\ f.pc = "listed" /\ f.at = lister[k]
  BY DEF IInv, TypeOK
<1>3. calls' \in [Kinds -> Nat]
  BY <1>1 DEF IInv, TypeOK, ListObjects
<1>4. UNCHANGED <<serving, log, lister, cache, writer, readers, req>>
  BY DEF ListObjects, locks
<1> HIDE DEF f
<1>5. \A x \in Kinds : refresh'[x] = IF x = k THEN f ELSE refresh[x]
  BY <1>1 DEF IInv, TypeOK
<1>6. writer # k
  BY DEF IInv, LockOK, ListObjects
<1>7. TypeOK'
  BY <1>1, <1>2, <1>3, <1>4, <1>5, <1>6 DEF IInv, TypeOK
<1>8. LockOK'
  BY <1>2, <1>4, <1>5, <1>6 DEF IInv, LockOK
<1>9. CachesOK'
  <2>1. lister \in [Kinds -> Nat] /\ cache \in [Kinds -> [at : Nat, items : SUBSET UNION AnyContent]]
    BY DEF IInv, TypeOK
  <2>2. QED
    BY <1>2, <1>4, <1>5, <1>6, <2>1 DEF IInv, CachesOK, Seen
<1>10. ReadersOK'
  BY <1>4 DEF IInv, ReadersOK, ReaderOK, Seen
<1>11. QED
  BY <1>7, <1>8, <1>9, <1>10 DEF IInv

LEMMA LockInv == ASSUME IInv, NEW k \in Kinds, Lock(k) PROVE IInv'
<1> DEFINE f == [pc |-> "copying", at |-> refresh[k].at]
           e == [at |-> refresh[k].at, items |-> {}]
<1>1. refresh' = [refresh EXCEPT ![k] = f] /\ cache' = [cache EXCEPT ![k] = e] /\ writer' = k
  BY DEF Lock
<1>2. /\ f \in [pc : {"idle", "listed", "copying"}, at : Nat]
      /\ f.pc = "copying" /\ f.at = refresh[k].at
      /\ e \in [at : Nat, items : SUBSET UNION AnyContent]
      /\ e.at = refresh[k].at /\ e.items = {}
  BY DEF IInv, TypeOK
<1>3. UNCHANGED <<serving, log, lister, calls, readers, req>>
  BY DEF Lock, world
<1>4. writer = Nobody /\ readers = {} /\ refresh[k].pc = "listed"
  BY DEF Lock
<1> HIDE DEF f, e
<1>5. \A x \in Kinds : /\ refresh'[x] = IF x = k THEN f ELSE refresh[x]
                       /\ cache'[x] = IF x = k THEN e ELSE cache[x]
  BY <1>1 DEF IInv, TypeOK
<1>6. TypeOK'
  BY <1>1, <1>2, <1>3, <1>5 DEF IInv, TypeOK
<1>7. LockOK'
  BY <1>1, <1>2, <1>3, <1>4, <1>5, NobodyAssumption DEF IInv, LockOK
<1>8. CachesOK'
  BY <1>1, <1>2, <1>3, <1>4, <1>5, NobodyAssumption DEF IInv, TypeOK, CachesOK, Seen
<1>9. \A r \in Requests : req[r].pc # "reading"
  BY <1>4 DEF IInv, LockOK
<1>10. ReadersOK'
  BY <1>3, <1>9 DEF IInv, ReadersOK, ReaderOK
<1>11. QED
  BY <1>6, <1>7, <1>8, <1>10 DEF IInv

LEMMA CopyInv == ASSUME IInv, NEW k \in Kinds, AppendObject(k) PROVE IInv'
<1>1. PICK o \in Missing(k) :
        cache' = [cache EXCEPT ![k] = [at |-> cache[k].at, items |-> cache[k].items \cup {o}]]
  BY DEF AppendObject
<1> DEFINE e == [at |-> cache[k].at, items |-> cache[k].items \cup {o}]
<1>2. e.at = cache[k].at /\ e.items = cache[k].items \cup {o}
  OBVIOUS
<1>3. writer = k /\ readers = {}
  BY NobodyAssumption DEF AppendObject, IInv, LockOK
<1>4. cache[k].at = refresh[k].at /\ cache[k].items \subseteq Seen(k, cache[k].at)
  BY <1>3 DEF IInv, CachesOK
<1>5. o \in Seen(k, cache[k].at)
  BY <1>4 DEF Missing
<1>6. cache[k].at \in 0 .. Len(log[k])
  BY DEF IInv, CachesOK, TypeOK
<1>7. Seen(k, cache[k].at) \in AnyContent
  BY <1>6, ContentTypes DEF IInv, AnyContent
<1>8. e \in [at : Nat, items : SUBSET UNION AnyContent]
  BY <1>5, <1>6, <1>7 DEF IInv, TypeOK
<1>9. UNCHANGED <<serving, log, lister, calls, refresh, writer, readers, req>>
  BY DEF AppendObject, world, locks
<1> HIDE DEF e
<1>10. \A x \in Kinds : cache'[x] = IF x = k THEN e ELSE cache[x]
  BY <1>1 DEF IInv, TypeOK, e
<1>11. TypeOK'
  BY <1>1, <1>8, <1>9 DEF IInv, TypeOK, e
<1>12. LockOK'
  BY <1>9 DEF IInv, LockOK
<1>13. CachesOK'
  BY <1>2, <1>3, <1>4, <1>5, <1>9, <1>10 DEF IInv, TypeOK, CachesOK, Seen
<1>14. \A r \in Requests : req[r].pc # "reading"
  BY <1>3 DEF IInv, LockOK
<1>15. ReadersOK'
  BY <1>9, <1>14 DEF IInv, ReadersOK, ReaderOK
<1>16. QED
  BY <1>11, <1>12, <1>13, <1>15 DEF IInv

LEMMA UnlockInv == ASSUME IInv, NEW k \in Kinds, Unlock(k) PROVE IInv'
<1> DEFINE f == [pc |-> "idle", at |-> 0]
<1>1. refresh' = [refresh EXCEPT ![k] = f] /\ writer' = Nobody
  BY DEF Unlock
<1>2. f \in [pc : {"idle", "listed", "copying"}, at : Nat] /\ f.pc = "idle"
  OBVIOUS
<1>3. UNCHANGED <<serving, log, lister, calls, cache, readers, req>>
  BY DEF Unlock, world
<1>4. writer = k
  BY DEF Unlock, IInv, LockOK
<1>5. cache[k].items = Seen(k, cache[k].at)
  BY <1>4 DEF Unlock, Missing, IInv, CachesOK
<1> HIDE DEF f
<1>6. \A x \in Kinds : refresh'[x] = IF x = k THEN f ELSE refresh[x]
  BY <1>1 DEF IInv, TypeOK
<1>7. TypeOK'
  BY <1>1, <1>2, <1>3 DEF IInv, TypeOK
<1>8. LockOK'
  BY <1>1, <1>2, <1>3, <1>4, <1>6, NobodyAssumption DEF IInv, LockOK
<1>9. CachesOK'
  BY <1>1, <1>2, <1>3, <1>4, <1>5, <1>6, NobodyAssumption DEF IInv, TypeOK, CachesOK, Seen
<1>10. ReadersOK'
  BY <1>3 DEF IInv, ReadersOK, ReaderOK, Seen
<1>11. QED
  BY <1>7, <1>8, <1>9, <1>10 DEF IInv

\* A request moves on: what it may become, as far as the invariant says.
RequestOK(r, q, held) ==
    /\ q.pc \in {"idle", "asked", "reading", "answering", "answered"}
    /\ q.pc = "reading" <=> r \in held
    /\ ReaderOK(q)

LEMMA RequestInv ==
  ASSUME IInv, NEW r \in Requests, NEW q, RequestOK(r, q, readers'),
         req' = [req EXCEPT ![r] = q],
         readers' \subseteq Requests, writer # Nobody => readers' = {},
         \A s \in Requests \ {r} : s \in readers' <=> s \in readers,
         UNCHANGED <<serving, world, refresh, cache, writer>>
  PROVE  IInv'
<1>1. req = [s \in Requests |-> req[s]]
  BY DEF IInv, ReadersOK
<1>2. \A s \in Requests : req'[s] = IF s = r THEN q ELSE req[s]
  BY <1>1
<1>3. req' = [s \in Requests |-> req'[s]]
  BY <1>1
<1>4. UNCHANGED <<serving, log, lister, calls, refresh, cache, writer>>
  BY DEF world
<1>5. TypeOK'
  BY <1>2, <1>4 DEF IInv, TypeOK, RequestOK
<1>6. LockOK'
  BY <1>2, <1>4 DEF IInv, LockOK, RequestOK
<1>7. CachesOK'
  BY <1>4 DEF IInv, CachesOK, Seen
<1>8. ASSUME NEW s \in Requests PROVE ReaderOK(req[s])'
  <2>1. CASE s = r
    <3>1. req'[s] = q /\ ReaderOK(q)
      BY <1>2, <2>1 DEF RequestOK
    <3>2. QED
      BY <1>4, <3>1 DEF ReaderOK, Seen
  <2>2. CASE s # r
    <3>1. req'[s] = req[s] /\ ReaderOK(req[s])
      BY <1>2, <2>2 DEF IInv, ReadersOK
    <3>2. QED
      BY <1>4, <3>1 DEF ReaderOK, Seen
  <2>3. QED
    BY <2>1, <2>2
<1>9. QED
  BY <1>3, <1>5, <1>6, <1>7, <1>8 DEF IInv, ReadersOK

LEMMA AskInv == ASSUME IInv, NEW r \in Requests, Ask(r) PROVE IInv'
<1>1. PICK handler \in Routes, arg \in Args :
        /\ DOMAIN handler \subseteq Kinds
        /\ req' = [req EXCEPT ![r] = Asked(handler, arg)]
  BY DEF Ask
<1> DEFINE q == Asked(handler, arg)
<1>2. q.pc = "asked" /\ q.handler = handler /\ q.arg = arg
  BY DEF Asked
<1>3. req[r].pc = "idle"
  BY DEF Ask, Idle
<1>4. UNCHANGED <<serving, world, refresh, cache, writer, readers>>
  BY DEF Ask, locks
<1> HIDE DEF q
<1>5. RequestOK(r, q, readers')
  BY <1>1, <1>2, <1>3, <1>4 DEF RequestOK, ReaderOK, IInv, LockOK
<1>6. req' = [req EXCEPT ![r] = q]
  BY <1>1 DEF q
<1>7. readers' \subseteq Requests /\ (writer # Nobody => readers' = {})
  BY <1>4 DEF IInv, TypeOK, LockOK
<1>8. QED
  BY <1>4, <1>5, <1>6, <1>7, RequestInv

LEMMA RLockInv == ASSUME IInv, NEW r \in Requests, RLock(r) PROVE IInv'
<1> DEFINE q == Reader("reading", req[r].handler, req[r].arg, << >>, Cached(req[r].handler))
<1>1. /\ q.pc = "reading" /\ q.handler = req[r].handler /\ q.arg = req[r].arg
      /\ q.taken = << >> /\ q.due = Cached(req[r].handler)
  BY DEF Reader
<1>2. req' = [req EXCEPT ![r] = q] /\ readers' = readers \cup {r} /\ writer = Nobody
  BY DEF RLock
<1>3. UNCHANGED <<serving, world, refresh, cache, writer>>
  BY DEF RLock
<1>4. /\ req[r].handler \in Routes /\ DOMAIN req[r].handler \subseteq Kinds
      /\ req[r].arg \in Args
  BY DEF RLock, IInv, ReadersOK, ReaderOK
<1>5. DOMAIN << >> = {} /\ << >> = [k \in DOMAIN << >> |-> << >>[k]]
  OBVIOUS
<1> HIDE DEF q
<1>6. ReaderOK(q)
  BY <1>1, <1>4, <1>5 DEF ReaderOK, Cached
<1>7. RequestOK(r, q, readers')
  BY <1>1, <1>2, <1>6 DEF RequestOK
<1>8. QED
  BY <1>2, <1>3, <1>7, RequestInv DEF IInv, TypeOK

LEMMA TakeInv == ASSUME IInv, NEW r \in Requests, TakeSlice(r) PROVE IInv'
<1>1. PICK k \in DOMAIN req[r].handler \ DOMAIN req[r].taken :
        req' = [req EXCEPT ![r] = Reader("reading", req[r].handler, req[r].arg,
                 And(req[r].taken, Reading(k, cache[k].items)), req[r].due)]
  BY DEF TakeSlice
<1> DEFINE t == And(req[r].taken, Reading(k, cache[k].items))
           q == Reader("reading", req[r].handler, req[r].arg, t, req[r].due)
<1>2. /\ q.pc = "reading" /\ q.handler = req[r].handler /\ q.arg = req[r].arg
      /\ q.taken = t /\ q.due = req[r].due
  BY DEF Reader
<1>3. req[r].pc = "reading" /\ ReaderOK(req[r]) /\ r \in readers
  BY DEF TakeSlice, IInv, ReadersOK, LockOK
<1>4. writer = Nobody
  BY <1>3 DEF IInv, LockOK
<1>5. k \in Kinds
  BY <1>1, <1>3 DEF ReaderOK
<1>6. cache[k].items = Seen(k, cache[k].at)
  BY <1>4, <1>5, NobodyAssumption DEF IInv, CachesOK
<1>7. /\ DOMAIN t = DOMAIN req[r].taken \cup {k}
      /\ t = [x \in DOMAIN t |-> t[x]]
      /\ \A x \in DOMAIN req[r].taken : t[x] = req[r].taken[x]
      /\ t[k] = cache[k].items
  BY <1>1 DEF And, Reading
<1>8. UNCHANGED <<serving, world, refresh, cache, writer, readers>>
  BY DEF TakeSlice, locks
<1>9. req' = [req EXCEPT ![r] = q]
  BY <1>1
<1> HIDE DEF q, t
<1>10. ReaderOK(q)
  BY <1>1, <1>2, <1>3, <1>6, <1>7 DEF ReaderOK
<1>11. RequestOK(r, q, readers')
  BY <1>2, <1>3, <1>8, <1>10 DEF RequestOK
<1>12. QED
  BY <1>8, <1>9, <1>11, RequestInv DEF IInv, TypeOK, LockOK

LEMMA RUnlockInv == ASSUME IInv, NEW r \in Requests, RUnlock(r) PROVE IInv'
<1> DEFINE q == Reader("answering", req[r].handler, req[r].arg, req[r].taken, req[r].due)
<1>1. /\ q.pc = "answering" /\ q.handler = req[r].handler /\ q.arg = req[r].arg
      /\ q.taken = req[r].taken /\ q.due = req[r].due
  BY DEF Reader
<1>2. req' = [req EXCEPT ![r] = q] /\ readers' = readers \ {r}
  BY DEF RUnlock
<1>3. req[r].pc = "reading" /\ DOMAIN req[r].taken = DOMAIN req[r].handler /\ ReaderOK(req[r])
  BY DEF RUnlock, IInv, ReadersOK
<1>4. req[r].due = req[r].taken
  BY <1>3 DEF ReaderOK
<1>5. UNCHANGED <<serving, world, refresh, cache, writer>>
  BY DEF RUnlock
<1> HIDE DEF q
<1>6. ReaderOK(q)
  BY <1>1, <1>3, <1>4 DEF ReaderOK
<1>7. RequestOK(r, q, readers')
  BY <1>1, <1>2, <1>6 DEF RequestOK
<1>8. QED
  BY <1>2, <1>5, <1>7, RequestInv DEF IInv, TypeOK, LockOK

\* Answering and leaving: the request holds nothing any more.
Ends(r, q) ==
    /\ q.pc \in {"idle", "answered"}
    /\ req[r].pc # "reading"
    /\ req' = [req EXCEPT ![r] = q]
    /\ UNCHANGED <<serving, world, refresh, cache, locks>>

LEMMA DoneInv == ASSUME IInv, NEW r \in Requests, NEW q, Ends(r, q) PROVE IInv'
<1>1. RequestOK(r, q, readers')
  BY DEF Ends, RequestOK, ReaderOK, IInv, LockOK, locks
<1>2. QED
  BY <1>1, RequestInv DEF Ends, IInv, TypeOK, LockOK, locks

-----------------------------------------------------------------------------
LEMMA StutterInv == IInv /\ UNCHANGED vars => IInv'
<1> SUFFICES ASSUME IInv, UNCHANGED vars PROVE IInv'
  OBVIOUS
<1>1. UNCHANGED <<serving, log, lister, calls, refresh, cache, writer, readers, req>>
  BY DEF vars
<1>2. TypeOK'
  BY <1>1 DEF IInv, TypeOK
<1>3. LockOK' /\ CachesOK'
  BY <1>1 DEF IInv, LockOK, CachesOK, Seen
<1>4. ReadersOK'
  BY <1>1 DEF IInv, ReadersOK, ReaderOK, Seen
<1>5. QED
  BY <1>2, <1>3, <1>4 DEF IInv

LEMMA InformerSteps ==
  ASSUME IInv, NEW k \in Kinds, handlerFuncs(k) \/ Resync(k)
  PROVE  IInv'
<1>1. UNCHANGED <<serving, log, refresh, cache, locks, req>> /\ serving \in BOOLEAN
  BY DEF handlerFuncs, Resync, IInv, TypeOK
<1>2. lister \in [Kinds -> Nat] /\ calls \in [Kinds -> Nat]
  BY DEF IInv, TypeOK
<1>3. \A x \in Kinds : lister[x] <= Len(log[x])
  BY DEF IInv, CachesOK
<1>4. CASE handlerFuncs(k)
  <2>1. PICK i \in lister[k] + 1 .. Len(log[k]) : lister' = [lister EXCEPT ![k] = i]
    BY <1>4 DEF handlerFuncs
  <2>2. i \in Nat /\ lister[k] <= i /\ i <= Len(log[k])
    BY <1>2, <2>1
  <2>3. lister' \in [Kinds -> Nat] /\ \A x \in Kinds : lister[x] <= lister'[x]
                                                    /\ lister'[x] <= Len(log[x])
    BY <1>2, <1>3, <2>1, <2>2
  <2>4. calls' \in [Kinds -> Nat]
    BY <1>2, <1>4 DEF handlerFuncs
  <2>5. QED
    BY <1>1, <2>3, <2>4, InformerInv
<1>5. CASE Resync(k)
  <2>1. UNCHANGED lister
    BY <1>5 DEF Resync
  <2>2. lister[k] \in 0 .. Len(log[k])
    BY <1>2, <1>3
  <2>3. IsFiniteSet(Seen(k, lister[k]))
    BY <2>2, ContentTypes DEF IInv
  <2>4. Cardinality(Seen(k, lister[k])) \in Nat
    BY <2>3, FS_CardinalityType
  <2>5. calls' \in [Kinds -> Nat]
    BY <1>2, <1>5, <2>4 DEF Resync
  <2>6. QED
    BY <1>1, <1>2, <1>3, <2>1, <2>5, InformerInv
<1>6. QED
  BY <1>4, <1>5

LEMMA StartInv == ASSUME IInv, startInformers PROVE IInv'
<1>1. /\ lister' = [k \in Kinds |-> Len(log[k])]
      /\ calls' = [k \in Kinds |-> Cardinality(Latest(k))]
      /\ serving' \in BOOLEAN
      /\ UNCHANGED <<log, refresh, cache, locks, req>>
  BY DEF startInformers
<1>2. \A k \in Kinds : Len(log[k]) \in Nat /\ lister[k] <= Len(log[k])
  BY DEF IInv, TypeOK, CachesOK
<1>3. \A k \in Kinds : Cardinality(Latest(k)) \in Nat
  BY ContentTypes, FS_CardinalityType DEF IInv
<1>4. /\ lister' \in [Kinds -> Nat] /\ calls' \in [Kinds -> Nat]
      /\ \A k \in Kinds : lister[k] <= lister'[k] /\ lister'[k] <= Len(log[k])
  BY <1>1, <1>2, <1>3
<1>5. QED
  BY <1>1, <1>4, InformerInv

LEMMA NextInv == IInv /\ [Next]_vars => IInv'
<1> SUFFICES ASSUME IInv, [Next]_vars PROVE IInv'
  OBVIOUS
<1>1. CASE startInformers
  BY <1>1, StartInv
<1>2. ASSUME NEW k \in Kinds, Change(k) PROVE IInv'
  BY <1>2, LogInv DEF Change
<1>3. ASSUME NEW k \in Kinds, handlerFuncs(k) \/ Resync(k) PROVE IInv'
  BY <1>3, InformerSteps
<1>4. ASSUME NEW k \in Kinds, updateCache(k) PROVE IInv'
  BY <1>4, ListInv, LockInv, CopyInv, UnlockInv DEF updateCache
<1>5. ASSUME NEW r \in Requests, Ask(r) PROVE IInv'
  BY <1>5, AskInv
<1>6. ASSUME NEW r \in Requests, Serve(r) PROVE IInv'
  <2>1. CASE Respond(r)
    <3> DEFINE q == Answered(Reply(req[r].handler, req[r].arg, req[r].taken))
    <3>1. q.pc \in {"idle", "answered"}
      BY DEF Answered
    <3>2. Ends(r, q)
      BY <2>1, <3>1 DEF Respond, Ends
    <3> HIDE DEF q
    <3>3. QED
      BY <3>2, DoneInv
  <2>2. QED
    BY <1>6, <2>1, RLockInv, TakeInv, RUnlockInv DEF Serve
<1>7. ASSUME NEW r \in Requests, Leave(r) PROVE IInv'
  <2>1. Idle.pc \in {"idle", "answered"}
    BY DEF Idle
  <2>2. Ends(r, Idle)
    BY <1>7, <2>1 DEF Leave, Ends
  <2>3. QED
    BY <2>2, DoneInv
<1>8. ASSUME NEW r \in Requests, deletePod(r) PROVE IInv'
  <2>1. PICK o \in Latest("pods") :
          log' = [log EXCEPT !["pods"] = Append(log["pods"], Latest("pods") \ {o})]
    BY <1>8 DEF deletePod
  <2>2. "pods" \in Kinds /\ UNCHANGED <<serving, lister, calls, refresh, cache, locks, req>>
    BY <1>8 DEF deletePod
  <2>3. Latest("pods") \ {o} \in Contents["pods"]
    BY <2>1, <2>2, ContentTypes, ContentsAssumption DEF IInv
  <2>4. QED
    BY <2>1, <2>2, <2>3, LogInv
<1>9. CASE UNCHANGED vars
  BY <1>9, StutterInv
<1>10. QED
  BY <1>1, <1>2, <1>3, <1>4, <1>5, <1>6, <1>7, <1>8, <1>9 DEF Next

(***************************************************************************)
(* The inductive invariant, and with it the types: cacheMu is held by one  *)
(* refresh or by readers, a slice nobody copies into is a whole content of *)
(* its kind, and what a handler has taken is what the caches hold until it *)
(* lets the lock go.                                                       *)
(***************************************************************************)
THEOREM Inductive == Spec => []IInv
<1>1. Init => IInv
  BY InitInv
<1>2. IInv /\ [Next]_vars => IInv'
  BY NextInv
<1>3. QED
  BY <1>1, <1>2, PTL DEF Spec

\* The types of the caches, the lock and the informers' positions (main.go).
THEOREM TypeCorrect == Spec => []TypeOK
<1>1. IInv => TypeOK
  BY DEF IInv
<1>2. QED
  BY <1>1, Inductive, PTL

-----------------------------------------------------------------------------
(* No event is forgotten.                                                  *)

CallOK(k) ==
    calls[k] = 0 =>
        IF refresh[k].pc = "idle" THEN Seen(k, cache[k].at) = Seen(k, lister[k])
        ELSE refresh[k].at = lister[k]

\* Changes of the cluster: the positions stay, and what they stand for.
LEMMA LogCalls ==
  ASSUME IInv, CallsOK, NEW k \in Kinds, NEW c \in Contents[k],
         log' = [log EXCEPT ![k] = Append(log[k], c)],
         UNCHANGED <<serving, lister, calls, refresh, cache, locks, req>>
  PROVE  CallsOK'
<1>1. \A x \in Kinds : \A i \in 0 .. Len(log[x]) : Seen(x, i)' = Seen(x, i)
  BY AppendKeeps DEF IInv
<1>2. \A x \in Kinds : cache[x].at \in 0 .. Len(log[x]) /\ lister[x] \in 0 .. Len(log[x])
  BY DEF IInv, CachesOK, TypeOK
<1>3. \A x \in Kinds : /\ Seen(x, cache[x].at)' = Seen(x, cache[x].at)
                       /\ Seen(x, lister[x])' = Seen(x, lister[x])
  BY <1>1, <1>2 DEF Seen
<1>4. QED
  BY <1>3 DEF CallsOK

\* A step of the informer or the callback of one kind, while serving.
LEMMA KindCalls ==
  ASSUME CallsOK, NEW k \in Kinds, serving, serving' = serving, log' = log, CallOK(k)',
         \A x \in Kinds \ {k} : /\ lister'[x] = lister[x] /\ calls'[x] = calls[x]
                               /\ refresh'[x] = refresh[x] /\ cache'[x] = cache[x]
  PROVE  CallsOK'
<1>1. ASSUME NEW x \in Kinds PROVE CallOK(x)'
  <2>1. CASE x = k
    BY <2>1
  <2>2. CASE x # k
    BY <2>2 DEF CallsOK, CallOK, Seen
  <2>3. QED
    BY <2>1, <2>2
<1>2. QED
  BY <1>1 DEF CallsOK, CallOK

LEMMA StartCalls ==
  ASSUME IInv, CallsOK, startInformers
  PROVE  CallsOK'
<1>1. /\ lister' = [k \in Kinds |-> Len(log[k])] /\ calls' = [k \in Kinds |-> Cardinality(Latest(k))]
      /\ ~serving /\ serving' = TRUE /\ UNCHANGED <<log, refresh, cache>>
  BY DEF startInformers
<1>2. ASSUME NEW k \in Kinds, calls'[k] = 0 PROVE CallOK(k)'
  <2>1. Latest(k) = {}
    BY <1>1, <1>2, ContentTypes, FS_EmptySet DEF IInv
  <2>2. refresh'[k].pc = "idle" /\ cache'[k].at = 0 /\ lister'[k] = Len(log[k])
    BY <1>1 DEF CallsOK
  <2>3. Len(log[k]) # 0
    BY DEF IInv, TypeOK
  <2>4. Seen(k, cache[k].at)' = {} /\ Seen(k, lister[k])' = {}
    BY <1>1, <2>1, <2>2, <2>3 DEF Seen, Latest
  <2>5. QED
    BY <2>2, <2>4 DEF CallOK
<1>3. QED
  BY <1>1, <1>2 DEF CallsOK, CallOK

LEMMA InformerCalls ==
  ASSUME IInv, CallsOK, NEW k \in Kinds, handlerFuncs(k) \/ Resync(k)
  PROVE  CallsOK'
<1>1. serving /\ UNCHANGED <<serving, log, refresh, cache>>
  BY DEF handlerFuncs, Resync
<1>2. CASE handlerFuncs(k)
  <2>1. PICK i \in lister[k] + 1 .. Len(log[k]) : lister' = [lister EXCEPT ![k] = i]
    BY <1>2 DEF handlerFuncs
  <2>2. calls' = [calls EXCEPT ![k] = calls[k] + 1]
    BY <1>2 DEF handlerFuncs
  <2>3. /\ calls'[k] # 0
        /\ \A x \in Kinds \ {k} : lister'[x] = lister[x] /\ calls'[x] = calls[x]
    BY <2>1, <2>2 DEF IInv, TypeOK
  <2>4. QED
    BY <1>1, <2>3, KindCalls DEF CallOK
<1>3. CASE Resync(k)
  <2>1. /\ UNCHANGED lister /\ calls[k] = 0
        /\ \A x \in Kinds \ {k} : calls'[x] = calls[x]
    BY <1>3 DEF Resync, IInv, TypeOK
  <2>2. CallOK(k)'
    BY <1>1, <2>1 DEF CallsOK, CallOK, Seen
  <2>3. QED
    BY <1>1, <2>1, <2>2, KindCalls
<1>4. QED
  BY <1>2, <1>3

\* A callback under way has listed all there was when it was the last to come.
LEMMA UpdateCalls ==
  ASSUME IInv, CallsOK, NEW k \in Kinds, updateCache(k)
  PROVE  CallsOK'
<1>1. serving
  BY DEF CallsOK, updateCache, ListObjects, Lock, AppendObject, Unlock
<1>2. CASE ListObjects(k)
  <2> DEFINE f == [pc |-> "listed", at |-> lister[k]]
  <2>1. /\ refresh' = [refresh EXCEPT ![k] = f] /\ calls' = [calls EXCEPT ![k] = calls[k] - 1]
        /\ UNCHANGED <<serving, log, lister, cache>>
    BY <1>2 DEF ListObjects
  <2>2. f.pc # "idle" /\ f.at = lister[k]
    OBVIOUS
  <2> HIDE DEF f
  <2>3. \A x \in Kinds : /\ refresh'[x] = IF x = k THEN f ELSE refresh[x]
                         /\ x # k => calls'[x] = calls[x]
    BY <2>1 DEF IInv, TypeOK
  <2>4. CallOK(k)'
    BY <2>1, <2>2, <2>3 DEF CallOK
  <2>5. QED
    BY <1>1, <2>1, <2>3, <2>4, KindCalls
<1>3. CASE Lock(k)
  <2> DEFINE f == [pc |-> "copying", at |-> refresh[k].at]
             e == [at |-> refresh[k].at, items |-> {}]
  <2>1. /\ refresh' = [refresh EXCEPT ![k] = f] /\ cache' = [cache EXCEPT ![k] = e]
        /\ refresh[k].pc = "listed" /\ UNCHANGED <<serving, log, lister, calls>>
    BY <1>3 DEF Lock, world
  <2>2. f.pc # "idle" /\ f.at = refresh[k].at
    OBVIOUS
  <2> HIDE DEF f, e
  <2>3. \A x \in Kinds : /\ refresh'[x] = IF x = k THEN f ELSE refresh[x]
                         /\ cache'[x] = IF x = k THEN e ELSE cache[x]
    BY <2>1 DEF IInv, TypeOK
  <2>4. CallOK(k)'
    BY <2>1, <2>2, <2>3 DEF CallsOK, CallOK
  <2>5. QED
    BY <1>1, <2>1, <2>3, <2>4, KindCalls
<1>4. CASE AppendObject(k)
  <2>1. PICK o \in Missing(k) :
          cache' = [cache EXCEPT ![k] = [at |-> cache[k].at, items |-> cache[k].items \cup {o}]]
    BY <1>4 DEF AppendObject
  <2>2. refresh[k].pc = "copying" /\ UNCHANGED <<serving, log, lister, calls, refresh>>
    BY <1>4 DEF AppendObject, world
  <2>3. \A x \in Kinds \ {k} : cache'[x] = cache[x]
    BY <2>1 DEF IInv, TypeOK
  <2>4. CallOK(k)'
    BY <2>2 DEF CallsOK, CallOK
  <2>5. QED
    BY <1>1, <2>2, <2>3, <2>4, KindCalls
<1>5. CASE Unlock(k)
  <2> DEFINE f == [pc |-> "idle", at |-> 0]
  <2>1. /\ refresh' = [refresh EXCEPT ![k] = f] /\ refresh[k].pc = "copying"
        /\ UNCHANGED <<serving, log, lister, calls, cache>>
    BY <1>5 DEF Unlock, world
  <2>2. cache[k].at = refresh[k].at
    BY <2>1 DEF IInv, LockOK, CachesOK
  <2>3. f.pc = "idle"
    OBVIOUS
  <2> HIDE DEF f
  <2>4. \A x \in Kinds : refresh'[x] = IF x = k THEN f ELSE refresh[x]
    BY <2>1 DEF IInv, TypeOK
  <2>5. CallOK(k)'
    BY <2>1, <2>2, <2>3, <2>4 DEF CallsOK, CallOK, Seen
  <2>6. QED
    BY <1>1, <2>1, <2>4, <2>5, KindCalls
<1>6. QED
  BY <1>2, <1>3, <1>4, <1>5 DEF updateCache

LEMMA NextCalls ==
  ASSUME IInv, CallsOK, [Next]_vars
  PROVE  CallsOK'
<1>1. CASE startInformers
  BY <1>1, StartCalls
<1>2. ASSUME NEW k \in Kinds, Change(k) PROVE CallsOK'
  BY <1>2, LogCalls DEF Change
<1>3. ASSUME NEW k \in Kinds, handlerFuncs(k) \/ Resync(k) PROVE CallsOK'
  BY <1>3, InformerCalls
<1>4. ASSUME NEW k \in Kinds, updateCache(k) PROVE CallsOK'
  BY <1>4, UpdateCalls
<1>5. ASSUME NEW r \in Requests, Ask(r) \/ Serve(r) \/ Leave(r) PROVE CallsOK'
  <2>1. UNCHANGED <<serving, log, lister, calls, refresh, cache>>
    BY <1>5 DEF Ask, Serve, RLock, TakeSlice, RUnlock, Respond, Leave, world
  <2>2. QED
    BY <2>1 DEF CallsOK, Seen
<1>6. ASSUME NEW r \in Requests, deletePod(r) PROVE CallsOK'
  <2>1. PICK o \in Latest("pods") :
          log' = [log EXCEPT !["pods"] = Append(log["pods"], Latest("pods") \ {o})]
    BY <1>6 DEF deletePod
  <2>2. "pods" \in Kinds /\ UNCHANGED <<serving, lister, calls, refresh, cache, locks, req>>
    BY <1>6 DEF deletePod
  <2>3. Latest("pods") \ {o} \in Contents["pods"]
    BY <2>1, <2>2, ContentTypes, ContentsAssumption DEF IInv
  <2>4. QED
    BY <2>1, <2>2, <2>3, LogCalls
<1>7. CASE UNCHANGED vars
  BY <1>7 DEF vars, CallsOK, Seen
<1>8. QED
  BY <1>1, <1>2, <1>3, <1>4, <1>5, <1>6, <1>7 DEF Next

(* A cache that is not what its informer holds has a callback to come or   *)
(* under way that will see it (update...Cache and the handlerFuncs of      *)
(* main.go), for any number of kinds, objects and events.                  *)
THEOREM QuietCachesAreCurrentAlways == Spec => []QuietCachesAreCurrent
<1>1. Init => CallsOK
  BY DEF Init, CallsOK, Seen
<1>2. IInv /\ CallsOK /\ [Next]_vars => CallsOK'
  BY NextCalls
<1>3. IInv /\ CallsOK => QuietCachesAreCurrent
  <2> SUFFICES ASSUME IInv, CallsOK, NEW k \in Kinds, calls[k] = 0, refresh[k].pc = "idle"
               PROVE  cache[k].items = Seen(k, lister[k])
    BY DEF QuietCachesAreCurrent
  <2>1. cache[k].items = Seen(k, cache[k].at)
    BY DEF IInv, LockOK, CachesOK
  <2>2. QED
    BY <2>1 DEF CallsOK
<1>4. QED
  BY Inductive, <1>1, <1>2, <1>3, PTL DEF Spec

-----------------------------------------------------------------------------
(* LegacyServer implements SnapshotReads: the views move when a refresh    *)
(* takes the lock, and a request is answered when it does.                 *)

views == [k \in Kinds |-> cache[k].at]
replies == [r \in Requests |-> ReplyTo(r)]

LEMMA SameSeen == \A k, i : Promise!Seen(k, i) = Seen(k, i)
BY DEF Promise!Seen, Seen

LEMMA SameReply ==
  \A handler, arg, taken : Promise!Reply(handler, arg, taken) = Reply(handler, arg, taken)
<1>1. \A by, arg, o : Promise!Selects(by, arg, o) = Selects(by, arg, o)
  BY DEF Promise!Selects, Selects, Promise!filterByNamespace, filterByNamespace,
         Promise!All, All, Promise!InNs, InNs, Promise!Named, Named, Promise!OnIt, OnIt, Promise!About, About
<1>2. \A h, arg, taken : Promise!Found(h, arg, taken) = Found(h, arg, taken)
  BY <1>1 DEF Promise!Found, Found
<1>3. \A h : Promise!Subject(h) = Subject(h)
  BY DEF Promise!Subject, Subject, Promise!Named, Named
<1>4. QED
  BY <1>2, <1>3 DEF Promise!Reply, Reply

LEMMA SameRoutes == Promise!Routes = Routes
BY DEF Promise!Routes, Routes,
     Promise!getOverview, getOverview, Promise!getNamespaces, getNamespaces,
     Promise!getNodes, getNodes, Promise!getNodeDetail, getNodeDetail,
     Promise!getPersistentVolumes, getPersistentVolumes,
     Promise!getStorageClasses, getStorageClasses, Promise!getClusterRoles,
     getClusterRoles, Promise!getClusterRoleBindings, getClusterRoleBindings,
     Promise!getPods, getPods, Promise!getPodDetail, getPodDetail,
     Promise!getDeployments, getDeployments, Promise!getDeploymentDetail,
     getDeploymentDetail, Promise!getDaemonSets, getDaemonSets,
     Promise!getStatefulSets, getStatefulSets, Promise!getReplicaSets,
     getReplicaSets, Promise!getReplicationControllers,
     getReplicationControllers, Promise!getJobs, getJobs,
     Promise!getCronJobs, getCronJobs, Promise!getServices, getServices,
     Promise!getServiceDetail, getServiceDetail, Promise!getIngresses,
     getIngresses, Promise!getIngressClasses, getIngressClasses,
     Promise!getEndpoints, getEndpoints, Promise!getConfigMaps,
     getConfigMaps, Promise!getConfigMapDetail, getConfigMapDetail,
     Promise!getSecrets, getSecrets, Promise!getSecretDetail,
     getSecretDetail, Promise!getPersistentVolumeClaims,
     getPersistentVolumeClaims, Promise!getServiceAccounts,
     getServiceAccounts, Promise!Reading, Reading, Promise!And, And,
     Promise!All, All, Promise!InNs, InNs, Promise!Named, Named,
     Promise!OnIt, OnIt, Promise!About, About

LEMMA Quiet ==
  ASSUME UNCHANGED log, views' = views, replies' = replies
  PROVE  [Promise!Next]_(Promise!vars)
BY DEF views, replies, Promise!vars

LEMMA ReplyMoves ==
  ASSUME IInv, NEW r \in Requests, NEW q, req' = [req EXCEPT ![r] = q]
  PROVE  /\ \A s \in Requests \ {r} : ReplyTo(s)' = ReplyTo(s)
         /\ req'[r] = q
<1>1. \A s \in Requests : req'[s] = IF s = r THEN q ELSE req[s]
  BY DEF IInv, ReadersOK
<1>2. QED
  BY <1>1 DEF ReplyTo

LEMMA ReplyCases ==
  ASSUME NEW r \in Requests
  PROVE  /\ req[r].pc \in {"idle", "asked"} => ReplyTo(r) = NoReply
         /\ req[r].pc \in {"reading", "answering"} =>
              ReplyTo(r) = Reply(req[r].handler, req[r].arg, req[r].due)
         /\ req[r].pc = "answered" => ReplyTo(r) = req[r].says
BY DEF ReplyTo

LEMMA RepliesKept ==
  ASSUME NEW r \in Requests, \A s \in Requests \ {r} : ReplyTo(s)' = ReplyTo(s),
         ReplyTo(r)' = ReplyTo(r)
  PROVE  replies' = replies
BY DEF replies

\* Only Lock changes what the views show.
LEMMA LockStep ==
  ASSUME IInv, NEW k \in Kinds, Lock(k)
  PROVE  Promise!Advance(k)
<1>1. cache' = [cache EXCEPT ![k] = [at |-> refresh[k].at, items |-> {}]]
      /\ UNCHANGED <<log, req>>
  BY DEF Lock, world
<1>2. \A x \in Kinds : cache'[x].at = IF x = k THEN refresh[k].at ELSE cache[x].at
  BY <1>1 DEF IInv, TypeOK
<1>3. views' = [views EXCEPT ![k] = refresh[k].at]
  BY <1>2 DEF views
<1>4. refresh[k].at \in views[k] .. Len(log[k])
  <2>1. /\ refresh[k].at \in Nat /\ cache[k].at \in Nat /\ lister[k] \in Nat
        /\ Len(log[k]) \in Nat
    BY DEF IInv, TypeOK
  <2>2. /\ cache[k].at <= refresh[k].at /\ refresh[k].at <= lister[k]
        /\ lister[k] <= Len(log[k])
    BY DEF IInv, CachesOK, Lock
  <2>3. QED
    BY <2>1, <2>2 DEF views
<1>5. replies' = replies
  BY <1>1 DEF replies, ReplyTo
<1>6. QED
  BY <1>1, <1>3, <1>4, <1>5 DEF Promise!Advance, views, replies

LEMMA AnswerStep ==
  ASSUME IInv, NEW r \in Requests, RLock(r)
  PROVE  Promise!Answer(r, req[r].handler, req[r].arg)
<1> DEFINE q == Reader("reading", req[r].handler, req[r].arg, << >>, Cached(req[r].handler))
           says == Reply(req[r].handler, req[r].arg, Cached(req[r].handler))
<1>1. /\ q.pc = "reading" /\ q.handler = req[r].handler /\ q.arg = req[r].arg
      /\ q.due = Cached(req[r].handler)
  BY DEF Reader
<1>2. req' = [req EXCEPT ![r] = q] /\ req[r].pc = "asked" /\ UNCHANGED <<log, cache>>
  BY DEF RLock, world
<1> HIDE DEF q
<1>3. req'[r] = q /\ \A s \in Requests \ {r} : ReplyTo(s)' = ReplyTo(s)
  BY <1>2, ReplyMoves
<1>4. ReplyTo(r) = NoReply
  BY <1>2, ReplyCases
<1>5. ReplyTo(r)' = says
  BY <1>1, <1>3 DEF ReplyTo
<1>6. Cached(req[r].handler) = [k \in DOMAIN req[r].handler |-> Promise!Seen(k, views[k])]
  <2>1. DOMAIN req[r].handler \subseteq Kinds
    BY <1>2 DEF IInv, ReadersOK, ReaderOK
  <2>2. \A k \in DOMAIN req[r].handler : Seen(k, cache[k].at) = Promise!Seen(k, views[k])
    BY <2>1, SameSeen DEF views
  <2>3. QED
    BY <2>2 DEF Cached
<1> HIDE DEF says
<1>7. replies' = [replies EXCEPT ![r] = says]
  BY <1>3, <1>5 DEF replies
<1>8. replies[r] = NoReply /\ views' = views
  BY <1>2, <1>4 DEF replies, views
<1>9. DOMAIN req[r].handler \subseteq Kinds
  BY <1>2 DEF IInv, ReadersOK, ReaderOK
<1>10. says = Promise!Reply(req[r].handler, req[r].arg,
                    [k \in DOMAIN req[r].handler |-> Promise!Seen(k, views[k])])
  BY <1>6, SameReply DEF says
<1>11. QED
  BY <1>2, <1>7, <1>8, <1>9, <1>10 DEF Promise!Answer, views, replies

\* A step of one request that leaves its answer as it was.
LEMMA RequestStep ==
  ASSUME IInv, NEW r \in Requests, NEW q, req' = [req EXCEPT ![r] = q],
         UNCHANGED <<log, cache>>, req'[r] = q => ReplyTo(r)' = ReplyTo(r)
  PROVE  [Promise!Next]_(Promise!vars)
<1>1. replies' = replies
  BY ReplyMoves, RepliesKept
<1>2. views' = views
  BY DEF views
<1>3. QED
  BY <1>1, <1>2, Quiet

\* A step of the informers or of a refresh that moves no view.
LEMMA CacheStep ==
  ASSUME UNCHANGED <<log, req>>, views' = views
  PROVE  [Promise!Next]_(Promise!vars)
<1>1. replies' = replies
  BY DEF replies, ReplyTo
<1>2. QED
  BY <1>1, Quiet

LEMMA CopyStep ==
  ASSUME IInv, NEW k \in Kinds, AppendObject(k)
  PROVE  [Promise!Next]_(Promise!vars)
<1>1. PICK o : cache' = [cache EXCEPT ![k] = [at |-> cache[k].at, items |-> cache[k].items \cup {o}]]
  BY DEF AppendObject
<1>2. \A x \in Kinds : cache'[x].at = cache[x].at
  BY <1>1 DEF IInv, TypeOK
<1>3. views' = views
  BY <1>2 DEF views
<1>4. QED
  BY <1>3, CacheStep DEF AppendObject, world

\* The cluster changes, by itself or through deletePod.
LEMMA ChangeStep ==
  ASSUME NEW k \in Kinds, NEW c \in Contents[k],
         log' = [log EXCEPT ![k] = Append(log[k], c)], UNCHANGED <<cache, req>>
  PROVE  Promise!Change(k)
<1>1. views' = views /\ replies' = replies
  BY DEF views, replies, ReplyTo
<1>2. QED
  BY <1>1 DEF Promise!Change, views, replies

\* What has been taken under the lock is what was due when it was taken.
LEMMA RespondStep ==
  ASSUME IInv, NEW r \in Requests, Respond(r)
  PROVE  [Promise!Next]_(Promise!vars)
<1> DEFINE says == Reply(req[r].handler, req[r].arg, req[r].taken)
           q == Answered(says)
<1>1. q.pc = "answered" /\ q.says = says
  BY DEF Answered
<1>2. req' = [req EXCEPT ![r] = q] /\ req[r].pc = "answering" /\ UNCHANGED <<log, cache>>
  BY DEF Respond, world
<1>3. ReplyTo(r) = says
  BY <1>2, ReplyCases DEF IInv, ReadersOK, ReaderOK
<1> HIDE DEF q, says
<1>4. req'[r] = q => ReplyTo(r)' = says
  BY <1>1 DEF ReplyTo
<1>5. QED
  BY <1>2, <1>3, <1>4, RequestStep

LEMMA ReadStep ==
  ASSUME IInv, NEW r \in Requests, Ask(r) \/ TakeSlice(r) \/ RUnlock(r)
  PROVE  [Promise!Next]_(Promise!vars)
<1>1. CASE Ask(r)
  <2>1. PICK handler \in Routes, arg \in Args : req' = [req EXCEPT ![r] = Asked(handler, arg)]
    BY <1>1 DEF Ask
  <2> DEFINE q == Asked(handler, arg)
  <2>2. q.pc = "asked"
    BY DEF Asked
  <2>3. Idle.pc = "idle"
    BY DEF Idle
  <2>4. ReplyTo(r) = NoReply
    BY <1>1, <2>3, ReplyCases DEF Ask
  <2> HIDE DEF q
  <2>5. req'[r] = q => ReplyTo(r)' = NoReply
    BY <2>2 DEF ReplyTo
  <2>6. req' = [req EXCEPT ![r] = q]
    BY <2>1 DEF q
  <2>7. QED
    BY <1>1, <2>4, <2>5, <2>6, RequestStep DEF Ask, world
<1>2. CASE TakeSlice(r)
  <2>1. PICK taken : req' = [req EXCEPT ![r] =
          Reader("reading", req[r].handler, req[r].arg, taken, req[r].due)]
    BY <1>2 DEF TakeSlice
  <2> DEFINE q == Reader("reading", req[r].handler, req[r].arg, taken, req[r].due)
  <2>2. /\ q.pc = "reading" /\ q.handler = req[r].handler /\ q.arg = req[r].arg
        /\ q.due = req[r].due
    BY DEF Reader
  <2>3. ReplyTo(r) = Reply(req[r].handler, req[r].arg, req[r].due)
    BY <1>2, ReplyCases DEF TakeSlice
  <2>4. req' = [req EXCEPT ![r] = q]
    BY <2>1
  <2> HIDE DEF q
  <2>5. req'[r] = q => ReplyTo(r)' = Reply(req[r].handler, req[r].arg, req[r].due)
    BY <2>2 DEF ReplyTo
  <2>6. QED
    BY <1>2, <2>3, <2>4, <2>5, RequestStep DEF TakeSlice, world
<1>3. CASE RUnlock(r)
  <2> DEFINE q == Reader("answering", req[r].handler, req[r].arg, req[r].taken, req[r].due)
  <2>1. req' = [req EXCEPT ![r] = q]
    BY <1>3 DEF RUnlock
  <2>2. /\ q.pc = "answering" /\ q.handler = req[r].handler /\ q.arg = req[r].arg
        /\ q.due = req[r].due
    BY DEF Reader
  <2>3. ReplyTo(r) = Reply(req[r].handler, req[r].arg, req[r].due)
    BY <1>3, ReplyCases DEF RUnlock
  <2> HIDE DEF q
  <2>4. req'[r] = q => ReplyTo(r)' = Reply(req[r].handler, req[r].arg, req[r].due)
    BY <2>2 DEF ReplyTo
  <2>5. QED
    BY <1>3, <2>1, <2>3, <2>4, RequestStep DEF RUnlock, world
<1>4. QED
  BY <1>1, <1>2, <1>3

LEMMA LeaveStep ==
  ASSUME IInv, NEW r \in Requests, Leave(r)
  PROVE  Promise!Finish(r)
<1>1. Idle.pc = "idle"
  BY DEF Idle
<1>2. req'[r] = Idle /\ \A s \in Requests \ {r} : ReplyTo(s)' = ReplyTo(s)
  BY ReplyMoves DEF Leave
<1>3. ReplyTo(r)' = NoReply
  BY <1>1, <1>2 DEF ReplyTo
<1>4. replies' = [replies EXCEPT ![r] = NoReply]
  BY <1>2, <1>3 DEF replies
<1>5. UNCHANGED log /\ views' = views
  BY DEF Leave, world, views
<1>6. QED
  BY <1>4, <1>5 DEF Promise!Finish, views, replies

LEMMA AskedRoute ==
  ASSUME IInv, NEW r \in Requests, RLock(r)
  PROVE  req[r].handler \in Routes /\ req[r].arg \in Args
BY DEF IInv, ReadersOK, ReaderOK, RLock

LEMMA NextStep ==
  ASSUME IInv, [Next]_vars
  PROVE  [Promise!Next]_(Promise!vars)
<1>1. ASSUME NEW k \in Kinds, Change(k) PROVE Promise!Change(k)
  <2>1. PICK c \in Contents[k] : log' = [log EXCEPT ![k] = Append(log[k], c)]
    BY <1>1 DEF Change
  <2>2. QED
    BY <1>1, <2>1, ChangeStep DEF Change
<1>2. ASSUME NEW r \in Requests, deletePod(r) PROVE Promise!Change("pods")
  <2>1. PICK o \in Latest("pods") :
          log' = [log EXCEPT !["pods"] = Append(log["pods"], Latest("pods") \ {o})]
    BY <1>2 DEF deletePod
  <2>2. "pods" \in Kinds /\ Latest("pods") \ {o} \in Contents["pods"]
    BY <1>2, <2>1, ContentTypes, ContentsAssumption DEF IInv, deletePod
  <2>3. QED
    BY <1>2, <2>1, <2>2, ChangeStep DEF deletePod
<1>3. ASSUME NEW k \in Kinds, handlerFuncs(k) \/ Resync(k) \/ ListObjects(k) \/ Unlock(k)
      PROVE [Promise!Next]_(Promise!vars)
  BY <1>3, CacheStep DEF handlerFuncs, Resync, ListObjects, Unlock, world, views
<1>4. ASSUME startInformers PROVE [Promise!Next]_(Promise!vars)
  BY <1>4, CacheStep DEF startInformers, views
<1>5. ASSUME NEW r \in Requests, RLock(r)
      PROVE  \E handler \in Promise!Routes, arg \in Args : Promise!Answer(r, handler, arg)
  BY <1>5, AnswerStep, AskedRoute, SameRoutes
<1>6. ASSUME UNCHANGED vars PROVE [Promise!Next]_(Promise!vars)
  BY <1>6, CacheStep DEF vars, views
<1>7. ASSUME NEW r \in Requests, Serve(r) PROVE [Promise!Next]_(Promise!vars)
  BY <1>7, <1>5, ReadStep, RespondStep DEF Serve, Promise!Next
<1>8. ASSUME NEW k \in Kinds, updateCache(k) PROVE [Promise!Next]_(Promise!vars)
  BY <1>8, <1>3, LockStep, CopyStep DEF updateCache, Promise!Next
<1>9. ASSUME NEW r \in Requests, Ask(r) \/ Leave(r) \/ deletePod(r)
      PROVE [Promise!Next]_(Promise!vars)
  <2>1. "pods" \in Kinds \/ ~deletePod(r)
    BY DEF deletePod
  <2>2. QED
    BY <1>9, <2>1, <1>2, ReadStep, LeaveStep DEF Promise!Next
<1>10. QED
  BY <1>1, <1>3, <1>4, <1>6, <1>7, <1>8, <1>9 DEF Next, Promise!Next

LEMMA InitStep ==
  ASSUME Init
  PROVE  Promise!Init
<1>1. views = [k \in Kinds |-> 0]
  BY DEF Init, views
<1>2. Idle.pc = "idle"
  BY DEF Idle
<1>3. replies = [r \in Requests |-> NoReply]
  BY <1>2 DEF Init, replies, ReplyTo
<1>4. QED
  BY <1>1, <1>3 DEF Init, Promise!Init, AnyContent, views, replies

(***************************************************************************)
(* The handlers of main.go answer from snapshots: every answer is made of  *)
(* whole contents of its kinds, all as they are cached at one instant, and *)
(* what is cached never goes back.                                         *)
(***************************************************************************)
THEOREM Refinement == Spec => ImplementsSnapshotReads
<1>1. Init => Promise!Init
  BY InitStep
<1>2. IInv /\ [Next]_vars => [Promise!Next]_(Promise!vars)
  BY NextStep
<1>3. QED
  BY <1>1, <1>2, Inductive, PTL DEF Spec, ImplementsSnapshotReads, Promise!Spec
=============================================================================
