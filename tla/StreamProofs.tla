---------------------------- MODULE StreamProofs ----------------------------
(***************************************************************************)
(* Proofs about one streamed answer (StreamFormats), for any routes and    *)
(* any number of items of a provider: it implements StreamProtocol, and    *)
(* what Kiro cuts short is remembered.                                     *)
(***************************************************************************)
EXTENDS StreamFormats, LoopLemmas

-----------------------------------------------------------------------------
(***************************************************************************)
(* Streamed answers.  A client reads events; each may change what it has   *)
(* only as the protocol says.                                              *)
(***************************************************************************)
ItemRecords == [kind : Kinds, text : Seq(Atoms), open : BOOLEAN]
ItemLists(n) == [0..(n - 1) -> ItemRecords]
View(s, it) == [status |-> s, items |-> it]

(* What the protocol lets happen to the items while the answer is open.    *)
Opens(it, jt) ==
    \E k \in Kinds, n \in Nat :
      /\ DOMAIN it = 0..(n - 1)
      /\ jt = [i \in 0..n |-> IF i = n THEN NewItem(k) ELSE it[i]]
Grows(it, jt) ==
    /\ DOMAIN jt = DOMAIN it
    /\ \E i \in DOMAIN it :
         /\ it[i].open /\ IsPrefix(it[i].text, jt[i].text)
         /\ jt = [it EXCEPT ![i] = ItemOf(it[i].kind, jt[i].text, TRUE)]
Closes(it, jt) ==
    /\ DOMAIN jt = DOMAIN it
    /\ \E i \in DOMAIN it :
         /\ it[i].open
         /\ it[i].kind \in Whole \/ jt[i].text = it[i].text
         /\ jt = [it EXCEPT ![i] = ItemOf(it[i].kind, jt[i].text, FALSE)]

Permitted(c, d) ==
    \/ d.status = c.status /\ d.items = c.items
    \/ c.status = "none" /\ d.status = "open" /\ d.items = c.items
    \/ /\ c.status = "open" /\ d.status = "open"
       /\ Opens(c.items, d.items) \/ Grows(c.items, d.items) \/ Closes(c.items, d.items)
    \/ /\ c.status = "open" /\ d.status = "completed" /\ d.items = c.items
       /\ \A i \in DOMAIN c.items : ~c.items[i].open
    \/ c.status \in {"none", "open"} /\ d.status = "broken" /\ d.items = c.items

LEMMA AllowedSteps == Permitted(client, client') => [Protocol!Next]_<<client.status, client.items>>
<1> SUFFICES ASSUME Permitted(client, client') PROVE [Protocol!Next]_<<client.status, client.items>>
  OBVIOUS
<1> DEFINE c == client
           d == client'
<1>1. CASE d.status = c.status /\ d.items = c.items
  BY <1>1
<1>2. CASE c.status = "none" /\ d.status = "open" /\ d.items = c.items
  BY <1>2 DEF Protocol!Next, Protocol!Start
<1>3. CASE c.status = "open" /\ d.status = "open" /\ Opens(c.items, d.items)
  <2>1. PICK k \in Kinds, n \in Nat :
               /\ DOMAIN c.items = 0..(n - 1)
               /\ d.items = [i \in 0..n |-> IF i = n THEN NewItem(k) ELSE c.items[i]]
    BY <1>3 DEF Opens
  <2>2. Cardinality(0..(n - 1)) = n
    BY FS_Interval
  <2>3. Protocol!Cardinality(0..(n - 1)) = Cardinality(0..(n - 1))
    BY DEF Protocol!Cardinality, Cardinality
  <2>4. Protocol!Cardinality(DOMAIN client.items) = n
    BY <2>1, <2>2, <2>3, Zenon
  <2>5. DOMAIN client.items = 0..(n - 1) /\ client.status = "open" /\ client.status' = client.status
    BY <1>3, <2>1
  <2>6. client.items' = [i \in 0..n |-> IF i = n THEN Protocol!Item(k, <<>>, TRUE) ELSE client.items[i]]
    BY <2>1 DEF NewItem, ItemOf, Protocol!Item
  <2>7. Protocol!OpenItem(k)
    BY ONLY <2>4, <2>5, <2>6, Zenon DEF Protocol!OpenItem
  <2> QED
    BY <2>7 DEF Protocol!Next
<1>4. CASE c.status = "open" /\ d.status = "open" /\ (Grows(c.items, d.items) \/ Closes(c.items, d.items))
  <2>1. \A s, t : Protocol!IsPrefix(s, t) = IsPrefix(s, t)
    BY DEF Protocol!IsPrefix, IsPrefix
  <2>2. CASE Grows(c.items, d.items)
    <3>1. PICK i \in DOMAIN c.items : Protocol!Grow(i)
      BY <1>4, <2>1, <2>2 DEF Protocol!Grow, Grows, ItemOf, Protocol!Item
    <3> QED
      BY <3>1 DEF Protocol!Next
  <2>3. CASE Closes(c.items, d.items)
    <3>1. PICK i \in DOMAIN c.items : Protocol!CloseItem(i)
      BY <1>4, <2>3 DEF Protocol!CloseItem, Closes, ItemOf, Protocol!Item
    <3> QED
      BY <3>1 DEF Protocol!Next
  <2> QED
    BY <1>4, <2>2, <2>3
<1>5. CASE /\ c.status = "open" /\ d.status = "completed" /\ d.items = c.items
           /\ \A i \in DOMAIN c.items : ~c.items[i].open
  BY <1>5 DEF Protocol!Next, Protocol!Complete
<1>6. CASE c.status \in {"none", "open"} /\ d.status = "broken" /\ d.items = c.items
  BY <1>6 DEF Protocol!Next, Protocol!Break
<1> QED
  BY <1>1, <1>2, <1>3, <1>4, <1>5, <1>6 DEF Permitted

(* A client that reads some events ends as d, each change allowed.         *)
ReadAlong(f, c, evs, d) ==
    /\ f[0] = c /\ f[Len(evs)] = d
    /\ \A k \in 1..Len(evs) : f[k] = Reads(f[k - 1], evs[k]) /\ Permitted(f[k - 1], f[k])

Runs(c, evs, d) == (\E T : evs \in Seq(T)) /\ \E f : ReadAlong(f, c, evs, d)

LEMMA NoEvents == ASSUME NEW c PROVE Runs(c, <<>>, c)
<1> DEFINE f == [k \in {0} |-> c]
<1>1. ReadAlong(f, c, <<>>, c)
  BY DEF ReadAlong
<1>2. <<>> \in Seq({c})
  OBVIOUS
<1> QED
  BY <1>1, <1>2, Zenon DEF Runs

LEMMA OneEvent ==
    ASSUME NEW c, NEW e, NEW d, d = Reads(c, e), Permitted(c, d)
    PROVE  Runs(c, <<e>>, d)
<1> DEFINE f == [k \in {0, 1} |-> IF k = 0 THEN c ELSE d]
           evs == <<e>>
<1>1. Len(evs) = 1 /\ evs[1] = e /\ evs \in Seq({e})
  OBVIOUS
<1>2. f[0] = c /\ f[1] = d
  OBVIOUS
<1> HIDE DEF f, evs
<1>3. ReadAlong(f, c, evs, d)
  BY <1>1, <1>2 DEF ReadAlong
<1> QED
  BY <1>1, <1>3, Zenon DEF Runs, evs

LEMMA RunsOn ==
    ASSUME NEW c, NEW a, NEW d, NEW b, NEW e, Runs(c, a, d), Runs(d, b, e)
    PROVE  Runs(c, a \o b, e)
<1>1. PICK T, U : a \in Seq(T) /\ b \in Seq(U)
  BY Zenon DEF Runs
<1>2. PICK f, g : ReadAlong(f, c, a, d) /\ ReadAlong(g, d, b, e)
  BY Zenon DEF Runs
<1>0. PICK m, n : m = Len(a) /\ n = Len(b)
  OBVIOUS
<1> DEFINE V == T \cup U
           ab == a \o b
           h == [k \in 0..(m + n) |-> IF k <= m THEN f[k] ELSE g[k - m]]
<1>3. a \in Seq(V) /\ b \in Seq(V)
  BY <1>1
<1>4. /\ m \in Nat /\ n \in Nat /\ ab \in Seq(V) /\ Len(ab) = m + n
      /\ \A k \in 1..m : ab[k] = a[k]
      /\ \A k \in (m + 1)..(m + n) : ab[k] = b[k - m]
  BY <1>0, <1>3
<1> HIDE DEF ab, V
<1>5. f[0] = c /\ f[m] = d /\ g[0] = d /\ g[n] = e
  BY <1>0, <1>2 DEF ReadAlong
<1>6. h[0] = c /\ h[m + n] = e
  BY <1>4, <1>5
<1>7. ASSUME NEW k \in 1..(m + n) PROVE h[k] = Reads(h[k - 1], ab[k]) /\ Permitted(h[k - 1], h[k])
  <2>1. CASE k <= m
    <3>1. k \in 1..m /\ h[k] = f[k] /\ h[k - 1] = f[k - 1] /\ ab[k] = a[k]
      BY <1>4, <2>1
    <3> QED
      BY <1>0, <1>2, <3>1 DEF ReadAlong
  <2>2. CASE k > m
    <3>1. k - m \in 1..n /\ h[k] = g[k - m] /\ ab[k] = b[k - m] /\ (k - m) - 1 = (k - 1) - m
      <4>1. /\ k - m \in 1..n /\ (k - m) - 1 = (k - 1) - m
            /\ ~(k <= m) /\ k \in (m + 1)..(m + n) /\ k \in 0..(m + n)
        BY <1>4, <2>2
      <4>2. h[k] = g[k - m] /\ ab[k] = b[k - m]
        BY <1>4, <4>1
      <4> QED
        BY <4>1, <4>2
    <3>2. h[k - 1] = g[(k - m) - 1]
      <4>1. k - 1 \in 0..(m + n) /\ k - 1 >= m
        BY <1>4, <2>2
      <4>2. CASE k - 1 = m
        <5>1. (k - m) - 1 = 0 /\ k - 1 <= m
          BY <1>4, <4>2
        <5>2. h[k - 1] = f[m]
          BY <4>1, <4>2, <5>1
        <5> QED
          BY <1>5, <5>1, <5>2
      <4>3. CASE k - 1 # m
        <5>1. ~(k - 1 <= m)
          BY <1>4, <4>1, <4>3
        <5> QED
          BY <3>1, <4>1, <5>1
      <4> QED
        BY <4>2, <4>3
    <3> QED
      BY <1>0, <1>2, <3>1, <3>2 DEF ReadAlong
  <2> QED
    BY <1>4, <2>1, <2>2
<1> HIDE DEF h
<1>8. ReadAlong(h, c, ab, e)
  BY <1>4, <1>6, <1>7 DEF ReadAlong
<1> QED
  BY <1>4, <1>8, Zenon DEF Runs, ab

LEMMA FirstEvent ==
    ASSUME NEW c, NEW evs, NEW d, Runs(c, evs, d), evs # <<>>
    PROVE  /\ Permitted(c, Reads(c, Head(evs)))
           /\ Runs(Reads(c, Head(evs)), Tail(evs), d)
<1>1. PICK T : evs \in Seq(T)
  BY Zenon DEF Runs
<1>2. PICK f : ReadAlong(f, c, evs, d)
  BY Zenon DEF Runs
<1> DEFINE n == Len(evs)
           rest == Tail(evs)
           g == [k \in 0..(n - 1) |-> f[k + 1]]
<1>3. /\ n \in Nat /\ n >= 1 /\ Head(evs) = evs[1] /\ rest \in Seq(T) /\ Len(rest) = n - 1
      /\ \A k \in 1..(n - 1) : rest[k] = evs[k + 1]
  BY <1>1, EmptySeq
<1> HIDE DEF rest
<1>4. f[1] = Reads(c, Head(evs)) /\ Permitted(c, f[1])
  <2>1. 1 \in 1..Len(evs) /\ f[0] = c /\ 1 - 1 = 0
    BY <1>2, <1>3 DEF ReadAlong
  <2>2. f[1] = Reads(f[1 - 1], evs[1]) /\ Permitted(f[1 - 1], f[1])
    BY <1>2, <2>1 DEF ReadAlong
  <2> QED
    BY <1>3, <2>1, <2>2
<1>5. ReadAlong(g, f[1], rest, d)
  <2>1. g[0] = f[1] /\ g[n - 1] = d
    <3>1. f[n] = d /\ (n - 1) + 1 = n /\ n - 1 \in 0..(n - 1) /\ 0 \in 0..(n - 1) /\ 0 + 1 = 1
      BY <1>2, <1>3 DEF ReadAlong
    <3> QED
      BY <3>1
  <2>2. ASSUME NEW k \in 1..(n - 1) PROVE g[k] = Reads(g[k - 1], rest[k]) /\ Permitted(g[k - 1], g[k])
    <3>1. k + 1 \in 1..n /\ g[k] = f[k + 1] /\ g[k - 1] = f[(k + 1) - 1] /\ rest[k] = evs[k + 1]
      BY <1>3
    <3> QED
      BY <1>2, <3>1 DEF ReadAlong
  <2> HIDE DEF g
  <2> QED
    BY <1>3, <2>1, <2>2 DEF ReadAlong
<1> HIDE DEF g
<1> QED
  BY <1>3, <1>4, <1>5, Zenon DEF Runs, rest

-----------------------------------------------------------------------------
(* What the events do to a client. *)
Same(it, jt, n, i) == \A j \in 0..(n - 1) : j # i => jt[j] = it[j]

LEMMA ReadOther ==
    ASSUME NEW c, NEW e, e.type \in {"in_progress", "part_added", "message_delta"}
    PROVE  Runs(c, <<e>>, c)
<1>1. Reads(c, e) = c
  BY DEF Reads
<1>2. Permitted(c, c)
  BY DEF Permitted
<1> QED
  BY <1>1, <1>2, OneEvent

LEMMA ReadStart ==
    ASSUME NEW it \in ItemLists(0), NEW e, e.type \in {"created", "message_start"}
    PROVE  Runs(View("none", it), <<e>>, View("open", it))
<1>1. Reads(View("none", it), e) = [status |-> "open", items |-> [i \in {} |-> <<>>]]
  BY DEF Reads
<1>2. [i \in {} |-> <<>>] = it
  BY DEF ItemLists
<1>3. Permitted(View("none", it), View("open", it))
  BY DEF Permitted, View
<1> QED
  BY <1>1, <1>2, <1>3, OneEvent DEF View

LEMMA WithIs ==
    ASSUME NEW it, NEW i, NEW x
    PROVE  With(View("open", it), i, x) = View("open", Put(it, i, x))
BY DEF With, View

LEMMA PutIs ==
    ASSUME NEW n \in Nat, NEW it \in ItemLists(n), NEW x \in ItemRecords
    PROVE  /\ \A i \in 0..(n - 1) : /\ Put(it, i, x) \in ItemLists(n) /\ Put(it, i, x)[i] = x
                                    /\ Same(it, Put(it, i, x), n, i)
                                    /\ Put(it, i, x) = [it EXCEPT ![i] = x]
           /\ Put(it, n, x) \in ItemLists(n + 1) /\ Put(it, n, x)[n] = x /\ Same(it, Put(it, n, x), n, n)
           /\ Put(it, n, x) = [i \in 0..n |-> IF i = n THEN x ELSE it[i]]
<1>1. DOMAIN it = 0..(n - 1)
  BY DEF ItemLists
<1>2. ASSUME NEW i \in 0..(n - 1)
      PROVE  /\ Put(it, i, x) \in ItemLists(n) /\ Put(it, i, x)[i] = x
             /\ Same(it, Put(it, i, x), n, i) /\ Put(it, i, x) = [it EXCEPT ![i] = x]
  <2>1. (DOMAIN it) \cup {i} = 0..(n - 1)
    BY <1>1
  <2>2. Put(it, i, x) = [y \in 0..(n - 1) |-> IF y = i THEN x ELSE it[y]]
    BY <2>1 DEF Put
  <2> QED
    BY <2>2, <1>1 DEF ItemLists, Same
<1>3. (DOMAIN it) \cup {n} = 0..n /\ 0..n = 0..((n + 1) - 1)
  BY <1>1
<1>4. Put(it, n, x) = [y \in 0..n |-> IF y = n THEN x ELSE it[y]]
  BY <1>3 DEF Put
<1>5. Put(it, n, x) \in ItemLists(n + 1)
  <2>1. \A y \in 0..n : y # n => y \in 0..(n - 1)
    OBVIOUS
  <2> QED
    BY <1>3, <1>4, <2>1 DEF ItemLists
<1>6. Put(it, n, x)[n] = x /\ Same(it, Put(it, n, x), n, n)
  BY <1>4 DEF Same
<1> QED
  BY <1>2, <1>4, <1>5, <1>6

LEMMA ReadAdded ==
    ASSUME NEW n \in Nat, NEW it \in ItemLists(n), NEW k \in Kinds
    PROVE  \E jt \in ItemLists(n + 1) :
             /\ Runs(View("open", it), <<Added(n, k)>>, View("open", jt))
             /\ jt[n] = ItemOf(k, <<>>, TRUE) /\ Same(it, jt, n, n)
<1> DEFINE e == Added(n, k)
           x == NewItem(k)
           jt == Put(it, n, x)
<1>1. e.type = "added" /\ e.index = n /\ e.kind = k
  BY DEF Added
<1>2. x \in ItemRecords /\ x = ItemOf(k, <<>>, TRUE)
  BY DEF NewItem, ItemOf, ItemRecords
<1> HIDE DEF e
<1>3. Reads(View("open", it), e) = View("open", jt)
  <2>1. Reads(View("open", it), e) = With(View("open", it), n, x)
    BY <1>1 DEF Reads
  <2> QED
    BY <2>1, WithIs
<1> HIDE DEF x
<1>4. /\ jt \in ItemLists(n + 1) /\ jt[n] = x /\ Same(it, jt, n, n)
      /\ jt = [i \in 0..n |-> IF i = n THEN x ELSE it[i]]
  BY <1>2, PutIs
<1>5. DOMAIN it = 0..(n - 1)
  BY DEF ItemLists
<1> HIDE DEF jt
<1>6. Opens(it, jt)
  BY <1>4, <1>5 DEF Opens, x
<1>7. Permitted(View("open", it), View("open", jt))
  BY <1>6 DEF Permitted, View
<1> QED
  BY <1>2, <1>3, <1>4, <1>7, OneEvent DEF e

LEMMA Prefixed ==
    ASSUME NEW s \in Seq(Atoms), NEW f \in Seq(Atoms)
    PROVE  s \o f \in Seq(Atoms) /\ IsPrefix(s, s \o f)
<1> DEFINE t == s \o f
<1>1. /\ t \in Seq(Atoms) /\ Len(s) \in Nat /\ Len(f) \in Nat /\ Len(t) = Len(s) + Len(f)
      /\ \A i \in 1..Len(s) : t[i] = s[i]
  OBVIOUS
<1> HIDE DEF t
<1>2. SubSeq(t, 1, Len(s)) = s
  <2>1. SubSeq(t, 1, Len(s)) \in Seq(Atoms) /\ Len(SubSeq(t, 1, Len(s))) = Len(s)
        /\ \A i \in 1..Len(s) : SubSeq(t, 1, Len(s))[i] = t[i]
    BY <1>1
  <2> QED
    BY <1>1, <2>1, SeqEqual
<1>3. IsPrefix(s, t)
  BY <1>1, <1>2 DEF IsPrefix
<1> QED
  BY <1>1, <1>3 DEF t

LEMMA RecordIs ==
    ASSUME NEW x \in ItemRecords
    PROVE  /\ x = ItemOf(x.kind, x.text, x.open) /\ x.kind \in Kinds /\ x.text \in Seq(Atoms) /\ x.open \in BOOLEAN
           /\ \A k \in Kinds : \A t \in Seq(Atoms) : \A o \in BOOLEAN : ItemOf(k, t, o) \in ItemRecords
BY DEF ItemRecords, ItemOf

LEMMA ReadDelta ==
    ASSUME NEW n \in Nat, NEW it \in ItemLists(n), NEW i \in 0..(n - 1), it[i].open, NEW f \in Seq(Atoms)
    PROVE  \E jt \in ItemLists(n) :
             /\ Runs(View("open", it), <<Delta(i, f)>>, View("open", jt))
             /\ jt[i] = ItemOf(it[i].kind, it[i].text \o f, TRUE) /\ Same(it, jt, n, i)
<1> DEFINE e == Delta(i, f)
           x == it[i]
           t == x.text \o f
           y == ItemOf(x.kind, t, TRUE)
           jt == Put(it, i, y)
           c == View("open", it)
<1>1. e.type = "delta" /\ e.index = i /\ e.text = f
  BY DEF Delta
<1>2. x \in ItemRecords /\ i \in DOMAIN it /\ DOMAIN it = 0..(n - 1)
  BY DEF ItemLists
<1> HIDE DEF e, x
<1>3. x.open = TRUE /\ y \in ItemRecords /\ IsPrefix(x.text, t)
  <2>1. x.open = TRUE
    BY <1>2, RecordIs DEF x
  <2> QED
    BY <1>2, <2>1, RecordIs, Prefixed
<1>5. Reads(c, e) = View("open", jt)
  <2>1. ItemAt(c, i) = x
    BY <1>2 DEF ItemAt, View, x
  <2>2. Reads(c, e) = With(c, i, y)
    BY <1>1, <1>3, <2>1 DEF Reads
  <2> HIDE DEF y
  <2> QED
    BY <2>2, WithIs
<1>6. y.text = t
  BY DEF ItemOf
<1> HIDE DEF y, t
<1>7. jt \in ItemLists(n) /\ jt[i] = y /\ Same(it, jt, n, i) /\ jt = [it EXCEPT ![i] = y]
  BY <1>3, PutIs
<1> HIDE DEF jt
<1>8. Grows(it, jt)
  <2>1. jt = [it EXCEPT ![i] = ItemOf(it[i].kind, jt[i].text, TRUE)]
    BY <1>6, <1>7 DEF x, y
  <2>2. DOMAIN jt = DOMAIN it /\ IsPrefix(it[i].text, jt[i].text)
    BY <1>2, <1>3, <1>6, <1>7 DEF ItemLists, x
  <2> QED
    BY <1>2, <2>1, <2>2 DEF Grows
<1>9. Permitted(c, View("open", jt))
  BY <1>8 DEF Permitted, View
<1>10. Runs(c, <<e>>, View("open", jt))
  BY <1>5, <1>9, OneEvent
<1> QED
  BY <1>7, <1>10 DEF e, y, x, t

LEMMA ReadPartDone ==
    ASSUME NEW n \in Nat, NEW it \in ItemLists(n), NEW i \in 0..(n - 1)
    PROVE  Runs(View("open", it), <<PartDone(i, it[i].text)>>, View("open", it))
<1> DEFINE x == it[i]
           e == PartDone(i, x.text)
           c == View("open", it)
<1>1. e.type = "part_done" /\ e.index = i /\ e.text = x.text
  BY DEF PartDone
<1>2. x \in ItemRecords /\ i \in DOMAIN it /\ DOMAIN it = 0..(n - 1)
  BY DEF ItemLists
<1> HIDE DEF e, x
<1>3. ItemOf(x.kind, x.text, x.open) = x
  BY <1>2, RecordIs
<1>4. Reads(c, e) = View("open", Put(it, i, x))
  <2>1. ItemAt(c, i) = x
    BY <1>2 DEF ItemAt, View, x
  <2>2. Reads(c, e) = With(c, i, ItemOf(x.kind, x.text, x.open))
    BY <1>1, <2>1 DEF Reads
  <2> QED
    BY <1>3, <2>2, WithIs
<1>5. Put(it, i, x) = it
  <2>1. (DOMAIN it) \cup {i} = DOMAIN it
    BY <1>2
  <2>2. it = [y \in DOMAIN it |-> it[y]]
    BY DEF ItemLists
  <2> QED
    BY <2>1, <2>2 DEF Put, x
<1>6. Permitted(c, View("open", it))
  BY DEF Permitted
<1> QED
  BY <1>4, <1>5, <1>6, OneEvent DEF e, x

LEMMA ReadDone ==
    ASSUME NEW n \in Nat, NEW it \in ItemLists(n), NEW i \in 0..(n - 1), it[i].open,
           NEW k \in {None, it[i].kind}, NEW t,
           t = None \/ t = it[i].text \/ (it[i].kind \in Whole /\ t \in Seq(Atoms))
    PROVE  \E jt \in ItemLists(n) :
             /\ Runs(View("open", it), <<ItemDone(i, k, t)>>, View("open", jt))
             /\ jt[i] = ItemOf(it[i].kind, IF t = None THEN it[i].text ELSE t, FALSE) /\ Same(it, jt, n, i)
<1> DEFINE x == it[i]
           e == ItemDone(i, k, t)
           u == IF t = None THEN x.text ELSE t
           y == ItemOf(x.kind, u, FALSE)
           jt == Put(it, i, y)
           c == View("open", it)
<1>1. e.type = "done" /\ e.index = i /\ e.kind = k /\ e.text = t
  BY DEF ItemDone
<1>2. x \in ItemRecords /\ i \in DOMAIN it /\ DOMAIN it = 0..(n - 1)
  BY DEF ItemLists
<1>3. (IF k = None THEN x.kind ELSE k) = x.kind /\ (x.kind \in Whole \/ u = x.text) /\ u \in Seq(Atoms)
  BY <1>2, RecordIs
<1> HIDE DEF e, x
<1>4. Reads(c, e) = View("open", jt)
  <2>1. ItemAt(c, i) = x
    BY <1>2 DEF ItemAt, View, x
  <2>2. Reads(c, e) = With(c, i, ItemOf(IF k = None THEN x.kind ELSE k, u, FALSE))
    BY <1>1, <2>1 DEF Reads
  <2>3. Reads(c, e) = With(c, i, y)
    BY <1>3, <2>2
  <2> HIDE DEF y
  <2> QED
    BY <2>3, WithIs
<1> HIDE DEF u
<1>5. y \in ItemRecords
  BY <1>2, <1>3, RecordIs
<1>6. y.text = u
  BY DEF ItemOf
<1> HIDE DEF y
<1>7. jt \in ItemLists(n) /\ jt[i] = y /\ Same(it, jt, n, i) /\ jt = [it EXCEPT ![i] = y]
  BY <1>5, PutIs
<1> HIDE DEF jt
<1>8. Closes(it, jt)
  <2>1. jt = [it EXCEPT ![i] = ItemOf(it[i].kind, jt[i].text, FALSE)]
    BY <1>6, <1>7 DEF x, y
  <2>2. DOMAIN jt = DOMAIN it
    BY <1>7 DEF ItemLists
  <2>3. it[i].kind \in Whole \/ jt[i].text = it[i].text
    BY <1>3, <1>6, <1>7 DEF x
  <2> QED
    BY <1>2, <2>1, <2>2, <2>3 DEF Closes
<1>9. Permitted(c, View("open", jt))
  BY <1>8 DEF Permitted, View
<1>10. Runs(c, <<e>>, View("open", jt))
  BY <1>4, <1>9, OneEvent
<1> QED
  BY <1>7, <1>10 DEF e, y, x, u

AllClosed(it, n) == \A i \in 0..(n - 1) : ~it[i].open

LEMMA ReadStop ==
    ASSUME NEW n \in Nat, NEW it \in ItemLists(n), AllClosed(it, n)
    PROVE  Runs(View("open", it), <<Event("message_stop")>>, View("completed", it))
<1> DEFINE e == Event("message_stop")
           c == View("open", it)
<1>1. e.type = "message_stop"
  BY DEF Event
<1> HIDE DEF e
<1>2. Reads(c, e) = View("completed", it)
  BY <1>1 DEF Reads, View
<1>3. DOMAIN it = 0..(n - 1)
  BY DEF ItemLists
<1>4. Permitted(c, View("completed", it))
  BY <1>3 DEF Permitted, View, AllClosed
<1> QED
  BY <1>2, <1>4, OneEvent DEF e

LEMMA ReadCompleted ==
    ASSUME NEW n \in Nat, NEW it \in ItemLists(n), AllClosed(it, n), NEW e,
           e.type = "completed", Items(e.output) = it
    PROVE  Runs(View("open", it), <<e>>, View("completed", it))
<1> DEFINE c == View("open", it)
<1>1. Reads(c, e) = View("completed", it)
  BY DEF Reads, View
<1>2. DOMAIN it = 0..(n - 1)
  BY DEF ItemLists
<1>3. Permitted(c, View("completed", it))
  BY <1>2 DEF Permitted, View, AllClosed
<1> QED
  BY <1>1, <1>3, OneEvent

LEMMA ReadEnd ==
    ASSUME NEW s \in {"none", "open", "completed", "broken"}, NEW it, NEW e, e.type \in {"error", "end"}
    PROVE  Runs(View(s, it), <<e>>, View(IF s = "completed" THEN s ELSE "broken", it))
<1> DEFINE c == View(s, it)
           d == View(IF s = "completed" THEN s ELSE "broken", it)
<1>1. Reads(c, e) = d
  <2>1. Reads(c, e) = [c EXCEPT !.status = IF @ = "completed" THEN @ ELSE "broken"]
    BY DEF Reads
  <2> QED
    BY <2>1 DEF View
<1>2. Permitted(c, d)
  BY DEF Permitted, View
<1> QED
  BY <1>1, <1>2, OneEvent

-----------------------------------------------------------------------------
(* The transformer for a client of the Responses API: its state, and what  *)
(* the client has when it has read every event pushed so far.              *)
CallRecords == [index : Nat, args : Seq(Atoms)]
Finishes == {None, "stop", "tool_calls", "length"}
TrStates ==
    [phase : 0..5, had_reasoning : BOOLEAN, reasoning : Seq(Atoms), message : Seq(Atoms),
     calls : Seq(CallRecords), images : Seq(Seq(Atoms)), finish : Finishes]

Coherent(st) ==
    /\ st.phase < 2 => ~st.had_reasoning /\ st.reasoning = <<>>
    /\ st.phase \in {2, 3} => st.had_reasoning
    /\ st.phase < 4 => st.message = <<>> /\ st.calls = <<>>

CountOf(st) == message_output_index(st) + (IF st.phase = 4 THEN 1 + Len(st.calls) ELSE 0)

CallsShown(calls, b, it) ==
    \A k \in 1..Len(calls) :
      calls[k].index = b + k /\ it[b + k] = ItemOf("function_call", calls[k].args, TRUE)

Shown(st, it) ==
    LET b == message_output_index(st) IN
    /\ it \in ItemLists(CountOf(st))
    /\ st.had_reasoning /\ st.phase = 2 => it[0] = ItemOf("reasoning", st.reasoning, TRUE)
    /\ st.had_reasoning /\ st.phase # 2 => it[0] = ItemOf("reasoning", st.reasoning, FALSE)
    /\ st.phase = 4 =>
         it[b] = ItemOf("message", st.message, TRUE) /\ CallsShown(st.calls, b, it)

Matches(d, st) ==
    /\ st \in TrStates /\ Coherent(st)
    /\ IF st.phase = 5 THEN \E it : d = View("completed", it)
       ELSE \E it : d = View(IF st.phase = 0 THEN "none" ELSE "open", it) /\ Shown(st, it)

Follows(d, r) == \E e : Runs(d, r.events, e) /\ Matches(e, r.st)

LEMMA ThenFollows ==
    ASSUME NEW d, NEW r, NEW q, Follows(d, r), \A e : Matches(e, r.st) => Follows(e, q)
    PROVE  Follows(d, Step(q.st, r.events \o q.events))
<1>1. PICK e : Runs(d, r.events, e) /\ Matches(e, r.st)
  BY Zenon DEF Follows
<1>2. PICK f : Runs(e, q.events, f) /\ Matches(f, q.st)
  BY <1>1, Zenon DEF Follows
<1>3. Runs(d, r.events \o q.events, f)
  BY <1>1, <1>2, RunsOn
<1> QED
  BY <1>2, <1>3 DEF Follows, Step

LEMMA Quiet == ASSUME NEW d, NEW st, Matches(d, st) PROVE Follows(d, Step(st, <<>>))
BY NoEvents DEF Follows, Step

LEMMA JoinIs ==
    ASSUME NEW S, NEW s \in Seq(S), NEW t \in Seq(S)
    PROVE  /\ s \o t \in Seq(S) /\ Len(s \o t) = Len(s) + Len(t)
           /\ \A i \in 1..Len(s) : (s \o t)[i] = s[i]
           /\ \A i \in (Len(s) + 1)..(Len(s) + Len(t)) : (s \o t)[i] = t[i - Len(s)]
OBVIOUS

LEMMA TwoEvents == ASSUME NEW a, NEW b PROVE <<a>> \o <<b>> = <<a, b>>
<1> DEFINE S == {a, b}
<1>1. a \in S /\ b \in S
  OBVIOUS
<1> DEFINE s == <<a>>
           t == <<b>>
           u == <<a, b>>
<1>2. s \in Seq(S) /\ Len(s) = 1 /\ s[1] = a /\ t \in Seq(S) /\ Len(t) = 1 /\ t[1] = b
      /\ u \in Seq(S) /\ Len(u) = 2 /\ u[1] = a /\ u[2] = b
  BY <1>1
<1> HIDE DEF S, s, t, u
<1>3. s \o t \in Seq(S) /\ Len(s \o t) = 2 /\ (s \o t)[1] = a /\ (s \o t)[2] = b
  <2> DEFINE m == Len(s)
             n == Len(t)
             st == s \o t
  <2>1. st \in Seq(S) /\ Len(st) = m + n /\ (\A i \in 1..m : st[i] = s[i])
        /\ \A i \in (m + 1)..(m + n) : st[i] = t[i - m]
    BY <1>2, JoinIs
  <2>2. m = 1 /\ n = 1
    BY <1>2
  <2> HIDE DEF m, n, st
  <2>3. Len(st) = 2 /\ st[1] = s[1] /\ st[2] = t[1]
    BY <2>1, <2>2
  <2> QED
    BY <1>2, <2>1, <2>3 DEF st
<1>4. \A i \in 1..2 : (s \o t)[i] = u[i]
  BY <1>2, <1>3
<1> QED
  BY <1>2, <1>3, <1>4, SeqEqual DEF s, t, u

InPhase(st, p) == [st EXCEPT !.phase = p]

LEMMA PhaseTypes ==
    ASSUME NEW st \in TrStates, NEW p \in 0..5
    PROVE  /\ InPhase(st, p) \in TrStates /\ InPhase(st, p).phase = p
           /\ InPhase(st, p).had_reasoning = st.had_reasoning /\ InPhase(st, p).reasoning = st.reasoning
           /\ InPhase(st, p).message = st.message /\ InPhase(st, p).calls = st.calls
           /\ InPhase(st, p).images = st.images /\ InPhase(st, p).finish = st.finish
           /\ message_output_index(InPhase(st, p)) = message_output_index(st)
BY DEF InPhase, TrStates, message_output_index

LEMMA StateTypes ==
    ASSUME NEW st \in TrStates
    PROVE  /\ st.phase \in 0..5 /\ st.had_reasoning \in BOOLEAN /\ st.reasoning \in Seq(Atoms)
           /\ st.message \in Seq(Atoms) /\ st.calls \in Seq(CallRecords) /\ Len(st.calls) \in Nat
           /\ st.images \in Seq(Seq(Atoms)) /\ st.finish \in Finishes
           /\ message_output_index(st) \in {0, 1}
           /\ CountOf(st) \in Nat
           /\ \A k \in 1..Len(st.calls) : st.calls[k].args \in Seq(Atoms) /\ st.calls[k].index \in Nat
<1>1. /\ st.phase \in 0..5 /\ st.had_reasoning \in BOOLEAN /\ st.reasoning \in Seq(Atoms)
      /\ st.message \in Seq(Atoms) /\ st.calls \in Seq(CallRecords) /\ Len(st.calls) \in Nat
      /\ st.images \in Seq(Seq(Atoms)) /\ st.finish \in Finishes
  BY DEF TrStates
<1>2. message_output_index(st) \in {0, 1}
  BY <1>1 DEF message_output_index
<1>3. CountOf(st) \in Nat
  <2> DEFINE b == message_output_index(st)
             n == Len(st.calls)
  <2>1. b \in Nat /\ n \in Nat
    BY <1>1, <1>2
  <2> HIDE DEF b, n
  <2>2. CountOf(st) = b + (IF st.phase = 4 THEN 1 + n ELSE 0)
    BY DEF CountOf, b, n
  <2> QED
    BY <2>1, <2>2
<1>4. ASSUME NEW k \in 1..Len(st.calls) PROVE st.calls[k].args \in Seq(Atoms) /\ st.calls[k].index \in Nat
  <2>1. st.calls[k] \in CallRecords
    BY <1>1
  <2> QED
    BY <2>1 DEF CallRecords
<1> QED
  BY <1>1, <1>2, <1>3, <1>4

LEMMA Begins ==
    ASSUME NEW d, NEW st, Matches(d, st)
    PROVE  /\ Follows(d, ensure_initial_events(st))
           /\ ensure_initial_events(st).st = IF st.phase = 0 THEN InPhase(st, 1) ELSE st
<1> DEFINE r == ensure_initial_events(st)
           s == InPhase(st, 1)
           evs == <<Event("created"), Event("in_progress")>>
<1>1. CASE st.phase # 0
  <2>1. r = Step(st, <<>>)
    BY <1>1 DEF ensure_initial_events, NotStarted
  <2> QED
    BY <1>1, <2>1, Quiet DEF Step
<1>2. CASE st.phase = 0
  <2>1. r = Step(s, evs)
    BY <1>2 DEF ensure_initial_events, NotStarted, Initiated, InPhase
  <2>2. PICK it : d = View("none", it) /\ Shown(st, it)
    BY <1>2 DEF Matches
  <2>3. st \in TrStates /\ Coherent(st)
    BY DEF Matches
  <2>4. CountOf(st) = 0 /\ message_output_index(st) = 0 /\ ~st.had_reasoning
    BY <1>2, <2>3 DEF CountOf, message_output_index, Coherent
  <2>5. it \in ItemLists(0)
    BY <2>2, <2>4 DEF Shown
  <2>6. Runs(d, <<Event("created")>>, View("open", it))
    <3>1. Event("created").type = "created"
      BY DEF Event
    <3> QED
      BY <2>2, <2>5, <3>1, ReadStart
  <2>7. Runs(View("open", it), <<Event("in_progress")>>, View("open", it))
    <3>1. Event("in_progress").type = "in_progress"
      BY DEF Event
    <3> QED
      BY <3>1, ReadOther
  <2>8. Runs(d, evs, View("open", it))
    <3>1. Runs(d, <<Event("created")>> \o <<Event("in_progress")>>, View("open", it))
      BY <2>6, <2>7, RunsOn
    <3>2. <<Event("created")>> \o <<Event("in_progress")>> = evs
      BY TwoEvents
    <3> QED
      BY <3>1, <3>2
  <2>9. s \in TrStates /\ s.phase = 1 /\ message_output_index(s) = 0
        /\ s.had_reasoning = st.had_reasoning /\ s.message = st.message /\ s.calls = st.calls
        /\ s.reasoning = st.reasoning
    BY <2>3, <2>4, PhaseTypes
  <2> HIDE DEF s, evs
  <2>10. Coherent(s) /\ CountOf(s) = 0
    BY <1>2, <2>3, <2>4, <2>9 DEF Coherent, CountOf
  <2>11. Shown(s, it)
    <3>1. s.phase # 4 /\ ~s.had_reasoning /\ it \in ItemLists(CountOf(s))
      BY <2>4, <2>5, <2>9, <2>10
    <3> QED
      BY <3>1, Zenon DEF Shown
  <2>12. Matches(View("open", it), s)
    BY <2>9, <2>10, <2>11 DEF Matches
  <2>13. r.st = s /\ r.events = evs
    BY <2>1 DEF Step
  <2>14. Follows(d, r)
    BY <2>8, <2>12, <2>13 DEF Follows
  <2> QED
    BY <1>2, <2>13, <2>14 DEF s
<1> QED
  BY <1>1, <1>2
LEMMA PhaseTwice ==
    \A st \in TrStates : \A p, q \in 0..5 : InPhase(InPhase(st, p), q) = InPhase(st, q)
BY DEF InPhase, TrStates

LEMMA Opened ==
    ASSUME NEW d, NEW st, Matches(d, st), st.phase \in 1..4
    PROVE  /\ st \in TrStates /\ Coherent(st)
           /\ \E it : d = View("open", it) /\ Shown(st, it)
BY DEF Matches

LEMMA OpenMatches ==
    ASSUME NEW st \in TrStates, Coherent(st), st.phase \in 1..4, NEW it, Shown(st, it)
    PROVE  Matches(View("open", it), st)
BY DEF Matches

LEMMA ReasoningCloses ==
    ASSUME NEW d, NEW st, Matches(d, st)
    PROVE  /\ Follows(d, close_reasoning_item(st))
           /\ close_reasoning_item(st).st = IF st.phase = 2 THEN InPhase(st, 3) ELSE st
<1> DEFINE r == close_reasoning_item(st)
           s == InPhase(st, 3)
           p == PartDone(0, st.reasoning)
           q == ItemDone(0, "reasoning", st.reasoning)
<1>1. CASE st.phase # 2
  <2>1. r = Step(st, <<>>)
    BY <1>1 DEF close_reasoning_item, Reasoning
  <2> QED
    BY <1>1, <2>1, Quiet DEF Step
<1>2. CASE st.phase = 2
  <2>1. r = Step(s, <<p, q>>)
    BY <1>2 DEF close_reasoning_item, Reasoning, ReasoningDone, InPhase
  <2>2. st \in TrStates /\ Coherent(st) /\ st.phase \in 1..4
    BY <1>2 DEF Matches
  <2>3. PICK it : d = View("open", it) /\ Shown(st, it)
    BY <2>2, Opened
  <2>4. st.had_reasoning /\ message_output_index(st) = 1 /\ CountOf(st) = 1 /\ st.message = <<>> /\ st.calls = <<>>
    BY <1>2, <2>2 DEF Coherent, message_output_index, CountOf
  <2>5. it \in ItemLists(1) /\ it[0] = ItemOf("reasoning", st.reasoning, TRUE)
    BY <1>2, <2>3, <2>4 DEF Shown
  <2>6. it[0].open /\ it[0].text = st.reasoning /\ it[0].kind = "reasoning"
    BY <2>5 DEF ItemOf
  <2>7. Runs(View("open", it), <<p>>, View("open", it))
    <3>1. 0 \in 0..(1 - 1) /\ 1 \in Nat
      OBVIOUS
    <3>2. Runs(View("open", it), <<PartDone(0, it[0].text)>>, View("open", it))
      BY <2>5, <3>1, ReadPartDone
    <3> QED
      BY <2>6, <3>2
  <2>8. PICK jt \in ItemLists(1) :
           Runs(View("open", it), <<q>>, View("open", jt)) /\ jt[0] = ItemOf("reasoning", st.reasoning, FALSE)
    <3>1. 0 \in 0..(1 - 1) /\ 1 \in Nat
      OBVIOUS
    <3>2. "reasoning" \in {None, it[0].kind} /\ st.reasoning = it[0].text
      BY <2>6
    <3>3. \E jt \in ItemLists(1) :
            /\ Runs(View("open", it), <<ItemDone(0, "reasoning", st.reasoning)>>, View("open", jt))
            /\ jt[0] = ItemOf(it[0].kind, IF st.reasoning = None THEN it[0].text ELSE st.reasoning, FALSE)
            /\ Same(it, jt, 1, 0)
      BY <2>5, <2>6, <3>1, <3>2, ReadDone
    <3> QED
      BY <2>6, <3>3
  <2>9. Runs(d, <<p, q>>, View("open", jt))
    BY <2>3, <2>7, <2>8, RunsOn, TwoEvents
  <2>10. /\ s \in TrStates /\ s.phase = 3 /\ message_output_index(s) = 1 /\ s.reasoning = st.reasoning
         /\ s.had_reasoning = st.had_reasoning /\ s.message = st.message /\ s.calls = st.calls
    <3>1. 3 \in 0..5
      OBVIOUS
    <3> QED
      BY <2>2, <2>4, <3>1, PhaseTypes
  <2> HIDE DEF s, p, q
  <2>11. Coherent(s) /\ CountOf(s) = 1
    BY <2>4, <2>10 DEF Coherent, CountOf
  <2>12. Shown(s, jt)
    BY <2>8, <2>10, <2>11 DEF Shown
  <2>13. Matches(View("open", jt), s)
    BY <2>10, <2>11, <2>12, OpenMatches
  <2>14. r.st = s /\ r.events = <<p, q>>
    BY <2>1 DEF Step
  <2>15. Follows(d, r)
    BY <2>9, <2>13, <2>14 DEF Follows
  <2> QED
    BY <1>2, <2>14, <2>15 DEF s
<1> QED
  BY <1>1, <1>2

LEMMA MessageStarts ==
    ASSUME NEW d, NEW st, Matches(d, st), st.phase \notin {0, 2}
    PROVE  /\ Follows(d, start_message_item(st))
           /\ start_message_item(st).st = IF st.phase < 4 THEN InPhase(st, 4) ELSE st
<1> DEFINE r == start_message_item(st)
           s == InPhase(st, 4)
           b == message_output_index(st)
           p == Added(b, "message")
           q == [type |-> "part_added", index |-> b]
<1>1. st \in TrStates /\ Coherent(st) /\ st.phase \in 0..5 /\ b \in {0, 1}
  BY StateTypes DEF Matches
<1>2. CASE st.phase >= 4
  <2>1. r = Step(st, <<>>)
    BY <1>2 DEF start_message_item, MessageInProgress
  <2> QED
    BY <1>1, <1>2, <2>1, Quiet DEF Step
<1>3. CASE ~(st.phase >= 4)
  <2>1. r = Step(s, <<p, q>>)
    BY <1>3 DEF start_message_item, MessageInProgress, InPhase
  <2>2. st.phase \in 1..4 /\ st.phase \in {1, 3} /\ st.phase < 4
    BY <1>1, <1>3
  <2>3. PICK it : d = View("open", it) /\ Shown(st, it)
    BY <2>2, Opened
  <2>4. CountOf(st) = b /\ st.message = <<>> /\ st.calls = <<>> /\ (st.had_reasoning => b = 1) /\ b \in Nat
    <3>1. CountOf(st) = b + 0 /\ b + 0 = b
      BY <1>1, <2>2 DEF CountOf
    <3>2. st.message = <<>> /\ st.calls = <<>>
      BY <1>1, <2>2 DEF Coherent
    <3>3. st.had_reasoning => b = 1
      BY DEF message_output_index
    <3> QED
      BY <1>1, <3>1, <3>2, <3>3
  <2>5. it \in ItemLists(b) /\ (st.had_reasoning => it[0] = ItemOf("reasoning", st.reasoning, FALSE))
    BY <2>2, <2>3, <2>4 DEF Shown
  <2>6. "message" \in Kinds
    BY DEF Kinds
  <2>7. PICK jt \in ItemLists(b + 1) :
          /\ Runs(View("open", it), <<p>>, View("open", jt))
          /\ jt[b] = ItemOf("message", <<>>, TRUE) /\ Same(it, jt, b, b)
    BY <2>4, <2>5, <2>6, ReadAdded
  <2>8. Runs(View("open", jt), <<q>>, View("open", jt))
    <3>1. q.type = "part_added"
      OBVIOUS
    <3> QED
      BY <3>1, ReadOther
  <2>9. Runs(d, <<p, q>>, View("open", jt))
    BY <2>3, <2>7, <2>8, RunsOn, TwoEvents
  <2>10. /\ s \in TrStates /\ s.phase = 4 /\ message_output_index(s) = b /\ s.reasoning = st.reasoning
         /\ s.had_reasoning = st.had_reasoning /\ s.message = <<>> /\ s.calls = <<>>
    <3>1. 4 \in 0..5
      OBVIOUS
    <3> QED
      BY <1>1, <2>4, <3>1, PhaseTypes
  <2>11. st.had_reasoning => jt[0] = ItemOf("reasoning", st.reasoning, FALSE)
    <3>1. SUFFICES ASSUME st.had_reasoning PROVE jt[0] = ItemOf("reasoning", st.reasoning, FALSE)
      OBVIOUS
    <3>2. b = 1 /\ 0 \in 0..(b - 1) /\ 0 # b
      BY <2>4, <3>1
    <3>3. jt[0] = it[0]
      BY <2>7, <3>2 DEF Same
    <3> QED
      BY <2>5, <3>1, <3>3
  <2> HIDE DEF s, p, q, b
  <2>12. Coherent(s) /\ CountOf(s) = b + 1
    BY <2>4, <2>10 DEF Coherent, CountOf
  <2>13. Shown(s, jt)
    <3>1. CallsShown(s.calls, b, jt)
      <4>1. 1..Len(s.calls) = {}
        BY <2>10
      <4> QED
        BY <4>1 DEF CallsShown
    <3>2. jt \in ItemLists(CountOf(s)) /\ jt[b] = ItemOf("message", s.message, TRUE)
      BY <2>7, <2>10, <2>12
    <3>3. s.had_reasoning => jt[0] = ItemOf("reasoning", s.reasoning, FALSE)
      BY <2>10, <2>11
    <3> QED
      <4>1. s.phase # 2 /\ message_output_index(s) = b
        BY <2>10
      <4> QED
        BY <3>1, <3>2, <3>3, <4>1, Zenon DEF Shown
  <2>14. Matches(View("open", jt), s)
    BY <2>10, <2>12, <2>13, OpenMatches
  <2>15. r.st = s /\ r.events = <<p, q>>
    BY <2>1 DEF Step
  <2>16. Follows(d, r)
    BY <2>9, <2>14, <2>15 DEF Follows
  <2> QED
    BY <1>3, <2>2, <2>15, <2>16 DEF s
<1> QED
  BY <1>2, <1>3

LEMMA MessageEntered ==
    ASSUME NEW d, NEW st, Matches(d, st)
    PROVE  /\ Follows(d, EnterMessage(st))
           /\ EnterMessage(st).st = IF st.phase < 4 THEN InPhase(st, 4) ELSE st
<1> DEFINE r1 == ensure_initial_events(st)
           r2 == close_reasoning_item(r1.st)
           r3 == start_message_item(r2.st)
           q == IF r1.st.phase < 4 THEN Step(r3.st, r2.events \o r3.events) ELSE Step(r1.st, <<>>)
           R == EnterMessage(st)
<1>1. R = Step(q.st, r1.events \o q.events)
  BY DEF EnterMessage, Then, MessageInProgress
<1>2. st \in TrStates /\ st.phase \in 0..5
  BY StateTypes DEF Matches
<1>3. Follows(d, r1) /\ r1.st = IF st.phase = 0 THEN InPhase(st, 1) ELSE st
  BY Begins
<1>4. r1.st \in TrStates /\ r1.st.phase = IF st.phase = 0 THEN 1 ELSE st.phase
  BY <1>2, <1>3, PhaseTypes
<1> HIDE DEF r1
<1>5. CASE r1.st.phase < 4
  <2>1. \A e : Matches(e, r1.st) => Follows(e, r2) /\ r2.st = IF r1.st.phase = 2 THEN InPhase(r1.st, 3) ELSE r1.st
    BY ReasoningCloses
  <2>2. PICK e : Matches(e, r1.st)
    BY <1>3 DEF Follows
  <2>3. r2.st = IF r1.st.phase = 2 THEN InPhase(r1.st, 3) ELSE r1.st
    BY <2>1, <2>2
  <2>4. r2.st \in TrStates /\ r2.st.phase \notin {0, 2} /\ r2.st.phase < 4
    BY <1>2, <1>4, <1>5, <2>3, PhaseTypes
  <2>5. \A f : Matches(f, r2.st) => Follows(f, r3) /\ r3.st = InPhase(r2.st, 4)
    BY <2>4, MessageStarts
  <2>6. PICK f : Matches(f, r2.st)
    BY <2>1, <2>2 DEF Follows
  <2>7. r3.st = InPhase(r2.st, 4)
    BY <2>5, <2>6
  <2>8. q = Step(r3.st, r2.events \o r3.events)
    BY <1>5
  <2> HIDE DEF r2, r3
  <2>9. \A x : Matches(x, r1.st) => Follows(x, Step(r3.st, r2.events \o r3.events))
    BY <2>1, <2>5, ThenFollows
  <2> HIDE DEF q
  <2>10. Follows(d, Step(q.st, r1.events \o q.events))
    BY <1>3, <2>8, <2>9, ThenFollows
  <2>11. R.st = r3.st
    BY <1>1, <2>8 DEF Step
  <2>12. r3.st = InPhase(st, 4)
    BY <1>2, <1>3, <1>4, <2>3, <2>7, PhaseTwice
  <2>13. st.phase < 4
    BY <1>2, <1>4, <1>5
  <2> QED
    BY <1>1, <2>10, <2>11, <2>12, <2>13
<1>6. CASE ~(r1.st.phase < 4)
  <2>1. q = Step(st, <<>>) /\ r1.st = st /\ ~(st.phase < 4)
    BY <1>2, <1>3, <1>4, <1>6
  <2> HIDE DEF q
  <2>2. \A x : Matches(x, r1.st) => Follows(x, q)
    BY <2>1, Quiet
  <2>3. Follows(d, Step(q.st, r1.events \o q.events))
    BY <1>3, <2>2, ThenFollows
  <2>4. R.st = st
    BY <1>1, <2>1 DEF Step
  <2> QED
    BY <1>1, <2>1, <2>3, <2>4
<1> QED
  BY <1>5, <1>6
(* The phases in which items are open.                                     *)
LEMMA InReasoning ==
    ASSUME NEW d, NEW st, Matches(d, st), st.phase = 2
    PROVE  /\ st \in TrStates /\ st.had_reasoning /\ st.message = <<>> /\ st.calls = <<>>
           /\ \E it \in ItemLists(1) : d = View("open", it) /\ it[0] = ItemOf("reasoning", st.reasoning, TRUE)
<1>1. st \in TrStates /\ Coherent(st) /\ st.phase \in 1..4
  BY DEF Matches
<1>2. PICK it : d = View("open", it) /\ Shown(st, it)
  BY <1>1, Opened
<1>3. st.had_reasoning /\ st.message = <<>> /\ st.calls = <<>>
  BY <1>1 DEF Coherent
<1>4. CountOf(st) = 1
  BY <1>3 DEF CountOf, message_output_index
<1>5. it \in ItemLists(1) /\ it[0] = ItemOf("reasoning", st.reasoning, TRUE)
  BY <1>2, <1>3, <1>4, Zenon DEF Shown
<1> QED
  BY <1>1, <1>2, <1>3, <1>5

LEMMA ReasoningMatches ==
    ASSUME NEW st \in TrStates, st.phase = 2, st.had_reasoning, st.message = <<>>, st.calls = <<>>,
           NEW it \in ItemLists(1), it[0] = ItemOf("reasoning", st.reasoning, TRUE)
    PROVE  Matches(View("open", it), st)
<1>1. Coherent(st)
  BY DEF Coherent
<1>2. CountOf(st) = 1 /\ st.phase # 4
  BY DEF CountOf, message_output_index
<1>3. Shown(st, it)
  BY <1>2, Zenon DEF Shown
<1> QED
  BY <1>1, <1>3, OpenMatches

LEMMA InMessage ==
    ASSUME NEW d, NEW st, Matches(d, st), st.phase = 4
    PROVE  /\ st \in TrStates
           /\ \E it \in ItemLists(message_output_index(st) + (1 + Len(st.calls))) :
                /\ d = View("open", it)
                /\ st.had_reasoning => it[0] = ItemOf("reasoning", st.reasoning, FALSE)
                /\ it[message_output_index(st)] = ItemOf("message", st.message, TRUE)
                /\ CallsShown(st.calls, message_output_index(st), it)
<1>1. st \in TrStates /\ Coherent(st) /\ st.phase \in 1..4 /\ st.phase # 2
  BY DEF Matches
<1>2. PICK it : d = View("open", it) /\ Shown(st, it)
  BY <1>1, Opened
<1>3. CountOf(st) = message_output_index(st) + (1 + Len(st.calls))
  BY DEF CountOf
<1>4. /\ it \in ItemLists(message_output_index(st) + (1 + Len(st.calls)))
      /\ st.had_reasoning => it[0] = ItemOf("reasoning", st.reasoning, FALSE)
      /\ it[message_output_index(st)] = ItemOf("message", st.message, TRUE)
      /\ CallsShown(st.calls, message_output_index(st), it)
  BY <1>1, <1>2, <1>3, Zenon DEF Shown
<1> QED
  BY <1>1, <1>2, <1>4

LEMMA MessageMatches ==
    ASSUME NEW st \in TrStates, st.phase = 4,
           NEW it \in ItemLists(message_output_index(st) + (1 + Len(st.calls))),
           st.had_reasoning => it[0] = ItemOf("reasoning", st.reasoning, FALSE),
           it[message_output_index(st)] = ItemOf("message", st.message, TRUE),
           CallsShown(st.calls, message_output_index(st), it)
    PROVE  Matches(View("open", it), st)
<1>1. Coherent(st) /\ st.phase # 2 /\ st.phase \in 1..4
  BY DEF Coherent
<1>2. CountOf(st) = message_output_index(st) + (1 + Len(st.calls))
  BY DEF CountOf
<1>3. Shown(st, it)
  BY <1>1, <1>2, Zenon DEF Shown
<1> QED
  BY <1>1, <1>3, OpenMatches

ReasoningBegun(s) ==
    IF s.phase < Reasoning
    THEN Step([s EXCEPT !.phase = Reasoning, !.had_reasoning = TRUE],
              <<Added(0, "reasoning"), [type |-> "part_added", index |-> 0]>>)
    ELSE Step(s, <<>>)
ReasoningGrown(s, f) == Step([s EXCEPT !.reasoning = @ \o f], <<Delta(0, f)>>)
Reasoned(st, f) == [st EXCEPT !.phase = 2, !.had_reasoning = TRUE, !.reasoning = @ \o f]

LEMMA WithReasoning ==
    ASSUME NEW st \in TrStates PROVE [st EXCEPT !.phase = 2, !.had_reasoning = TRUE] \in TrStates
<1>1. 2 \in 0..5 /\ TRUE \in BOOLEAN
  OBVIOUS
<1>2. [st EXCEPT !.phase = 2] \in TrStates
  BY <1>1 DEF TrStates
<1> QED
  BY <1>1, <1>2 DEF TrStates

LEMMA ReasoningBegins ==
    ASSUME NEW d, NEW st, Matches(d, st), st.phase \in {1, 2}
    PROVE  /\ Follows(d, ReasoningBegun(st))
           /\ ReasoningBegun(st).st = [st EXCEPT !.phase = 2, !.had_reasoning = TRUE]
<1> DEFINE r == ReasoningBegun(st)
           s == [st EXCEPT !.phase = 2, !.had_reasoning = TRUE]
           p == Added(0, "reasoning")
           q == [type |-> "part_added", index |-> 0]
<1>1. st \in TrStates /\ Coherent(st)
  BY DEF Matches
<1>2. CASE st.phase = 2
  <2>1. r = Step(st, <<>>)
    BY <1>2 DEF ReasoningBegun, Reasoning
  <2>2. st.had_reasoning /\ st.had_reasoning \in BOOLEAN
    BY <1>1, <1>2 DEF Coherent, TrStates
  <2>3. s = st
    BY <1>1, <1>2, <2>2 DEF TrStates
  <2> QED
    BY <2>1, <2>3, Quiet DEF Step
<1>3. CASE st.phase = 1
  <2>1. r = Step(s, <<p, q>>)
    BY <1>3 DEF ReasoningBegun, Reasoning
  <2>2. ~st.had_reasoning /\ st.message = <<>> /\ st.calls = <<>> /\ CountOf(st) = 0
    BY <1>1, <1>3 DEF Coherent, CountOf, message_output_index
  <2>3. PICK it : d = View("open", it) /\ Shown(st, it)
    BY <1>3, Opened
  <2>4. it \in ItemLists(0)
    BY <2>2, <2>3 DEF Shown
  <2>5. "reasoning" \in Kinds /\ 0 \in Nat /\ 0 + 1 = 1
    BY DEF Kinds
  <2>6. PICK jt \in ItemLists(1) :
           Runs(View("open", it), <<p>>, View("open", jt)) /\ jt[0] = ItemOf("reasoning", <<>>, TRUE)
    <3>1. \E jt \in ItemLists(0 + 1) :
             /\ Runs(View("open", it), <<Added(0, "reasoning")>>, View("open", jt))
             /\ jt[0] = ItemOf("reasoning", <<>>, TRUE) /\ Same(it, jt, 0, 0)
      BY <2>4, <2>5, ReadAdded
    <3> QED
      BY <2>5, <3>1
  <2>7. Runs(View("open", jt), <<q>>, View("open", jt))
    <3>1. q.type = "part_added"
      OBVIOUS
    <3> QED
      BY <3>1, ReadOther
  <2>8. Runs(d, <<p, q>>, View("open", jt))
    BY <2>3, <2>6, <2>7, RunsOn, TwoEvents
  <2>9. /\ s \in TrStates /\ s.phase = 2 /\ s.had_reasoning /\ s.message = <<>> /\ s.calls = <<>>
        /\ s.reasoning = st.reasoning
    <3>1. s \in TrStates
      BY <1>1, WithReasoning
    <3>2. s.phase = 2 /\ s.had_reasoning = TRUE /\ s.reasoning = st.reasoning
      BY <1>1 DEF TrStates
    <3>3. s.message = st.message /\ s.calls = st.calls
      BY <1>1 DEF TrStates
    <3> HIDE DEF s
    <3> QED
      BY <2>2, <3>1, <3>2, <3>3
  <2>10. st.reasoning = <<>>
    BY <1>1, <1>3 DEF Coherent
  <2> HIDE DEF s
  <2>11. Matches(View("open", jt), s)
    BY <2>6, <2>9, <2>10, ReasoningMatches
  <2>12. r.st = s /\ r.events = <<p, q>>
    BY <2>1 DEF Step
  <2> QED
    BY <2>8, <2>11, <2>12 DEF Follows, s
<1> QED
  BY <1>2, <1>3

LEMMA ReasoningGrows ==
    ASSUME NEW d, NEW st, Matches(d, st), st.phase = 2, NEW f \in Seq(Atoms)
    PROVE  Follows(d, ReasoningGrown(st, f))
<1> DEFINE r == ReasoningGrown(st, f)
           t == st.reasoning \o f
           s == [st EXCEPT !.reasoning = t]
<1>1. /\ st \in TrStates /\ st.had_reasoning /\ st.message = <<>> /\ st.calls = <<>>
      /\ \E it \in ItemLists(1) : d = View("open", it) /\ it[0] = ItemOf("reasoning", st.reasoning, TRUE)
  BY InReasoning
<1>2. PICK it \in ItemLists(1) : d = View("open", it) /\ it[0] = ItemOf("reasoning", st.reasoning, TRUE)
  BY <1>1
<1>3. it[0].open /\ it[0].kind = "reasoning" /\ it[0].text = st.reasoning
  BY <1>2 DEF ItemOf
<1>4. PICK jt \in ItemLists(1) :
        Runs(d, <<Delta(0, f)>>, View("open", jt)) /\ jt[0] = ItemOf("reasoning", t, TRUE)
  <2>1. 1 \in Nat /\ 0 \in 0..(1 - 1)
    OBVIOUS
  <2>2. \E jt \in ItemLists(1) :
          /\ Runs(View("open", it), <<Delta(0, f)>>, View("open", jt))
          /\ jt[0] = ItemOf(it[0].kind, it[0].text \o f, TRUE) /\ Same(it, jt, 1, 0)
    BY <1>3, <2>1, ReadDelta
  <2> QED
    BY <1>2, <1>3, <2>2
<1>5. t \in Seq(Atoms)
  BY <1>1 DEF TrStates
<1> HIDE DEF t
<1>6. /\ s \in TrStates /\ s.phase = 2 /\ s.had_reasoning /\ s.message = <<>> /\ s.calls = <<>>
      /\ s.reasoning = t
  BY <1>1, <1>5 DEF TrStates
<1>7. r = Step(s, <<Delta(0, f)>>)
  BY DEF ReasoningGrown, t
<1> HIDE DEF s, r
<1>8. Matches(View("open", jt), s)
  BY <1>4, <1>6, ReasoningMatches
<1>9. r.st = s /\ r.events = <<Delta(0, f)>>
  BY <1>7 DEF Step
<1>10. Follows(d, r)
  BY <1>4, <1>8, <1>9 DEF Follows
<1> QED
  BY <1>10 DEF r

LEMMA ReasoningAdds ==
    ASSUME NEW d, NEW st, Matches(d, st), NEW c, c.reasoning \in Seq(Atoms),
           st.phase <= 2 \/ c.reasoning = <<>>
    PROVE  /\ Follows(d, ReasoningDelta(st, c))
           /\ ReasoningDelta(st, c).st = IF c.reasoning = <<>> THEN st ELSE Reasoned(st, c.reasoning)
<1> DEFINE f == c.reasoning
           R == ReasoningDelta(st, c)
           r1 == ensure_initial_events(st)
           r2 == ReasoningBegun(r1.st)
           r12 == Step(r2.st, r1.events \o r2.events)
           r3 == ReasoningGrown(r2.st, f)
<1>1. CASE f = <<>>
  <2>1. R = Step(st, <<>>)
    BY <1>1 DEF ReasoningDelta
  <2> QED
    BY <1>1, <2>1, Quiet DEF Step
<1>2. CASE f # <<>>
  <2>1. R = Step(r3.st, r12.events \o r3.events)
    BY <1>2 DEF ReasoningDelta, ReasoningBegun, ReasoningGrown, Then, Step
  <2>2. st \in TrStates /\ st.phase \in 0..2 /\ Coherent(st)
    <3>1. st \in TrStates /\ Coherent(st)
      BY DEF Matches
    <3>2. st.phase \in 0..5 /\ st.phase <= 2
      BY <1>2, <3>1, StateTypes
    <3> QED
      BY <3>1, <3>2
  <2>3. Follows(d, r1) /\ r1.st = IF st.phase = 0 THEN InPhase(st, 1) ELSE st
    BY Begins
  <2>4. r1.st \in TrStates /\ r1.st.phase \in {1, 2}
    BY <2>2, <2>3, PhaseTypes
  <2> HIDE DEF r1
  <2>5. \A e : Matches(e, r1.st) => Follows(e, r2) /\ r2.st = [r1.st EXCEPT !.phase = 2, !.had_reasoning = TRUE]
    BY <2>4, ReasoningBegins
  <2>6. r2.st = [r1.st EXCEPT !.phase = 2, !.had_reasoning = TRUE]
    BY <2>3, <2>5 DEF Follows
  <2>7. r2.st.phase = 2
    BY <2>4, <2>6 DEF TrStates
  <2> HIDE DEF r2
  <2>8. Follows(d, r12)
    BY <2>3, <2>5, ThenFollows
  <2>9. \A e : Matches(e, r2.st) => Follows(e, r3)
    BY <2>7, ReasoningGrows
  <2>10. r12.st = r2.st
    BY DEF Step
  <2>11. r3.st = [r2.st EXCEPT !.reasoning = @ \o f]
    BY DEF ReasoningGrown, Step
  <2> HIDE DEF r12, r3
  <2>12. Follows(d, Step(r3.st, r12.events \o r3.events))
    BY <2>8, <2>9, <2>10, ThenFollows
  <2>13. R.st = r3.st
    BY <2>1 DEF Step
  <2>14. r3.st = Reasoned(st, f)
    <3>1. r1.st = st \/ r1.st = [st EXCEPT !.phase = 1]
      BY <2>3 DEF InPhase
    <3>0. st \in TrStates
      BY <2>2
    <3> DEFINE x == st.reasoning \o f
    <3>2. CASE r1.st = st
      <4>1. r3.st = [[[st EXCEPT !.phase = 2] EXCEPT !.had_reasoning = TRUE] EXCEPT !.reasoning = x]
        BY <2>6, <2>11, <3>0, <3>2 DEF TrStates
      <4> QED
        BY <4>1 DEF Reasoned
    <3>3. CASE r1.st = [st EXCEPT !.phase = 1]
      <4> HIDE DEF f
      <4>1. r3.st = [[[[st EXCEPT !.phase = 1] EXCEPT !.phase = 2] EXCEPT !.had_reasoning = TRUE] EXCEPT !.reasoning = x]
        BY <2>6, <2>11, <3>0, <3>3 DEF TrStates
      <4> HIDE DEF x
      <4>2. r3.st = [[[st EXCEPT !.phase = 2] EXCEPT !.had_reasoning = TRUE] EXCEPT !.reasoning = x]
        BY <3>0, <4>1 DEF TrStates
      <4> QED
        BY <4>2 DEF Reasoned, x
    <3> QED
      BY <3>1, <3>2, <3>3
  <2> QED
    BY <1>2, <2>1, <2>12, <2>13, <2>14
<1> QED
  BY <1>1, <1>2
CallEntered(st) == IF st.phase < 4 THEN InPhase(st, 4) ELSE st

LEMMA RoleStarts ==
    ASSUME NEW d, NEW st, Matches(d, st), NEW c
    PROVE  /\ Follows(d, RoleDelta(st, c))
           /\ RoleDelta(st, c).st = IF ~c.role \/ st.phase >= 2 THEN st ELSE InPhase(st, 4)
<1> DEFINE R == RoleDelta(st, c)
           r1 == ensure_initial_events(st)
           r2 == start_message_item(r1.st)
<1>1. CASE ~c.role \/ st.phase >= 2
  <2>1. R = Step(st, <<>>)
    BY <1>1 DEF RoleDelta, Reasoning
  <2> QED
    BY <1>1, <2>1, Quiet DEF Step
<1>2. CASE ~(~c.role \/ st.phase >= 2)
  <2>1. R = Step(r2.st, r1.events \o r2.events)
    BY <1>2 DEF RoleDelta, Then, Reasoning
  <2>2. st \in TrStates /\ st.phase \in 0..1
    <3>1. st \in TrStates
      BY DEF Matches
    <3>2. st.phase \in 0..5
      BY <3>1, StateTypes
    <3> QED
      BY <1>2, <3>1, <3>2
  <2>3. Follows(d, r1) /\ r1.st = IF st.phase = 0 THEN InPhase(st, 1) ELSE st
    BY Begins
  <2>4. r1.st \in TrStates /\ r1.st.phase = 1
    BY <2>2, <2>3, PhaseTypes
  <2> HIDE DEF r1
  <2>5. \A e : Matches(e, r1.st) => Follows(e, r2) /\ r2.st = InPhase(r1.st, 4)
    BY <2>4, MessageStarts
  <2>6. r2.st = InPhase(r1.st, 4)
    BY <2>3, <2>5 DEF Follows
  <2>7. InPhase(r1.st, 4) = InPhase(st, 4)
    BY <2>2, <2>3, PhaseTwice
  <2> HIDE DEF r2
  <2>8. Follows(d, Step(r2.st, r1.events \o r2.events))
    BY <2>3, <2>5, ThenFollows
  <2>9. R.st = r2.st
    BY <2>1 DEF Step
  <2> QED
    BY <1>2, <2>1, <2>6, <2>7, <2>8, <2>9
<1> QED
  BY <1>1, <1>2

MessageGrown(s, f) == Step([s EXCEPT !.message = @ \o f], <<Delta(message_output_index(s), f)>>)

LEMMA MessageGrows ==
    ASSUME NEW d, NEW st, Matches(d, st), st.phase = 4, NEW f \in Seq(Atoms)
    PROVE  Follows(d, MessageGrown(st, f))
<1> DEFINE r == MessageGrown(st, f)
           t == st.message \o f
           s == [st EXCEPT !.message = t]
           b == message_output_index(st)
           n == b + (1 + Len(st.calls))
<1>1. st \in TrStates
  BY InMessage
<1>2. /\ st.message \in Seq(Atoms) /\ st.calls \in Seq(CallRecords) /\ Len(st.calls) \in Nat /\ b \in {0, 1}
      /\ (st.had_reasoning => b = 1)
  BY <1>1, StateTypes DEF message_output_index
<1>3. PICK it \in ItemLists(n) :
         /\ d = View("open", it)
         /\ st.had_reasoning => it[0] = ItemOf("reasoning", st.reasoning, FALSE)
         /\ it[b] = ItemOf("message", st.message, TRUE)
         /\ CallsShown(st.calls, b, it)
  BY InMessage
<1>4. it[b].open /\ it[b].kind = "message" /\ it[b].text = st.message
  BY <1>3 DEF ItemOf
<1>5. n \in Nat /\ b \in 0..(n - 1)
  BY <1>2
<1> DEFINE e == Delta(b, f)
<1> HIDE DEF b, n
<1>6. PICK jt \in ItemLists(n) :
        Runs(d, <<e>>, View("open", jt)) /\ jt[b] = ItemOf("message", t, TRUE) /\ Same(it, jt, n, b)
  <2>1. \E jt \in ItemLists(n) :
          /\ Runs(View("open", it), <<Delta(b, f)>>, View("open", jt))
          /\ jt[b] = ItemOf(it[b].kind, it[b].text \o f, TRUE) /\ Same(it, jt, n, b)
    BY <1>4, <1>5, ReadDelta
  <2> QED
    BY <1>3, <1>4, <2>1
<1>7. t \in Seq(Atoms)
  BY <1>2
<1>8. r = Step(s, <<e>>)
  BY DEF MessageGrown, b
<1> HIDE DEF t, e
<1>9. /\ s \in TrStates /\ s.phase = 4 /\ s.message = t /\ s.calls = st.calls /\ s.reasoning = st.reasoning
      /\ s.had_reasoning = st.had_reasoning
  BY <1>1, <1>7 DEF TrStates
<1>10. message_output_index(s) = b
  BY <1>9 DEF message_output_index, b
<1> HIDE DEF s, r
<1>11. CallsShown(s.calls, b, jt)
  <2>1. SUFFICES ASSUME NEW k \in 1..Len(st.calls)
                 PROVE st.calls[k].index = b + k /\ jt[b + k] = ItemOf("function_call", st.calls[k].args, TRUE)
    BY <1>9 DEF CallsShown
  <2>2. b + k \in 0..(n - 1) /\ b + k # b
    BY <1>2 DEF n
  <2>3. jt[b + k] = it[b + k]
    BY <1>6, <2>2 DEF Same
  <2> QED
    BY <1>3, <2>3 DEF CallsShown
<1>12. s.had_reasoning => jt[0] = ItemOf("reasoning", s.reasoning, FALSE)
  <2>1. SUFFICES ASSUME st.had_reasoning PROVE jt[0] = ItemOf("reasoning", st.reasoning, FALSE)
    BY <1>9
  <2>2. b = 1 /\ 0 # b /\ 0 \in 0..(n - 1)
    BY <1>2, <1>5, <2>1
  <2> QED
    BY <1>3, <1>6, <2>1, <2>2 DEF Same
<1>13. n = message_output_index(s) + (1 + Len(s.calls))
  BY <1>9, <1>10 DEF n
<1>14. Matches(View("open", jt), s)
  BY <1>6, <1>9, <1>10, <1>11, <1>12, <1>13, MessageMatches
<1>15. r.st = s /\ r.events = <<e>>
  BY <1>8 DEF Step
<1>16. Follows(d, r)
  BY <1>6, <1>14, <1>15 DEF Follows
<1> QED
  BY <1>16 DEF r

Texted(st, t) == [CallEntered(st) EXCEPT !.message = @ \o t]
Imaged(st, x) == [st EXCEPT !.images = Append(@, x)]

LEMMA ContentAdds ==
    ASSUME NEW d, NEW st, Matches(d, st), NEW c, c.text \in Seq(Atoms),
           st.phase # 5 \/ c.text = <<>>
    PROVE  /\ Follows(d, ContentDelta(st, c))
           /\ ContentDelta(st, c).st =
                IF c.text = <<>> THEN st ELSE Texted(st, c.text)
<1> DEFINE f == c.text
           R == ContentDelta(st, c)
           r1 == EnterMessage(st)
           r2 == MessageGrown(r1.st, f)
<1>1. CASE f = <<>>
  <2>1. R = Step(st, <<>>)
    BY <1>1 DEF ContentDelta
  <2> QED
    BY <1>1, <2>1, Quiet DEF Step
<1>2. CASE f # <<>>
  <2>1. R = Step(r2.st, r1.events \o r2.events)
    BY <1>2 DEF ContentDelta, Then, MessageGrown, Step
  <2>2. Follows(d, r1) /\ r1.st = CallEntered(st)
    BY MessageEntered DEF CallEntered
  <2>3. st \in TrStates /\ st.phase \in 0..5
    BY StateTypes DEF Matches
  <2>4. r1.st.phase = 4
    BY <1>2, <2>2, <2>3, PhaseTypes DEF CallEntered
  <2> HIDE DEF r1, f
  <2>5. \A e : Matches(e, r1.st) => Follows(e, r2)
    BY <2>4, MessageGrows DEF f
  <2>6. r2.st = Texted(st, f)
    BY <2>2 DEF MessageGrown, Step, Texted
  <2> HIDE DEF r2
  <2>7. Follows(d, Step(r2.st, r1.events \o r2.events))
    BY <2>2, <2>5, ThenFollows
  <2>8. R.st = r2.st
    BY <2>1 DEF Step
  <2> QED
    BY <1>2, <2>1, <2>6, <2>7, <2>8 DEF f
<1> QED
  BY <1>1, <1>2

LEMMA SameShown ==
    ASSUME NEW d, NEW st, Matches(d, st), NEW s \in TrStates, s.phase = st.phase,
           s.had_reasoning = st.had_reasoning, s.reasoning = st.reasoning, s.message = st.message,
           s.calls = st.calls
    PROVE  Matches(d, s)
<1>1. st \in TrStates /\ Coherent(st)
  BY DEF Matches
<1>2. Coherent(s)
  BY <1>1 DEF Coherent
<1>3. message_output_index(s) = message_output_index(st)
  BY DEF message_output_index
<1>4. CountOf(s) = CountOf(st)
  BY <1>3 DEF CountOf
<1>5. \A it : Shown(st, it) => Shown(s, it)
  BY <1>3, <1>4 DEF Shown
<1> QED
  BY <1>2, <1>5 DEF Matches

LEMMA ImagesKept ==
    ASSUME NEW d, NEW st, Matches(d, st), NEW c, c.image \in Seq(Atoms)
    PROVE  /\ Follows(d, Images(st, c))
           /\ Images(st, c).st = IF c.image = <<>> THEN st ELSE Imaged(st, c.image)
<1> DEFINE R == Images(st, c)
           t == Append(st.images, c.image)
           s == IF c.image = <<>> THEN st ELSE [st EXCEPT !.images = t]
<1>1. R = Step(s, <<>>)
  BY DEF Images
<1>2. st \in TrStates
  BY DEF Matches
<1>3. t \in Seq(Seq(Atoms))
  BY <1>2, StateTypes
<1> HIDE DEF t
<1>4. /\ s \in TrStates /\ s.phase = st.phase /\ s.had_reasoning = st.had_reasoning
      /\ s.reasoning = st.reasoning /\ s.message = st.message /\ s.calls = st.calls
  BY <1>2, <1>3 DEF TrStates
<1> HIDE DEF s
<1>5. Matches(d, s)
  BY <1>4, SameShown
<1>6. Follows(d, R)
  BY <1>1, <1>5, Quiet
<1>7. R.st = s
  BY <1>1 DEF Step
<1> QED
  BY <1>6, <1>7 DEF s, t, Imaged

(* A call begins with the next index, and grows.                           *)
CallBegun(s, i) == Step([s EXCEPT !.calls = Append(@, [index |-> i, args |-> <<>>])], <<Added(i, "function_call")>>)
CallFound(s, i) == SelectInSeq(s.calls, LAMBDA fc : fc.index = i)
CallGrown(s, i, f) ==
    Step(IF CallFound(s, i) = 0 THEN s ELSE [s EXCEPT !.calls[CallFound(s, i)].args = @ \o f], <<Delta(i, f)>>)

LEMMA CallBegins ==
    ASSUME NEW d, NEW st, Matches(d, st), st.phase = 4
    PROVE  LET i == message_output_index(st) + 1 + Len(st.calls) IN
           Follows(d, CallBegun(st, i))
<1> DEFINE b == message_output_index(st)
           m == Len(st.calls)
           i == b + 1 + m
           call == [index |-> i, args |-> <<>>]
           calls == Append(st.calls, call)
           s == [st EXCEPT !.calls = calls]
           r == CallBegun(st, i)
           e == Added(i, "function_call")
<1>1. st \in TrStates
  BY InMessage
<1>2. st.calls \in Seq(CallRecords) /\ m \in Nat /\ b \in {0, 1} /\ (st.had_reasoning => b = 1)
  BY <1>1, StateTypes DEF message_output_index
<1>3. PICK it \in ItemLists(b + (1 + m)) :
         /\ d = View("open", it)
         /\ st.had_reasoning => it[0] = ItemOf("reasoning", st.reasoning, FALSE)
         /\ it[b] = ItemOf("message", st.message, TRUE)
         /\ CallsShown(st.calls, b, it)
  BY InMessage
<1>4. r = Step(s, <<e>>)
  BY DEF CallBegun
<1>5. /\ calls \in Seq(CallRecords) /\ Len(calls) = m + 1
      /\ (\A k \in 1..m : calls[k] = st.calls[k]) /\ calls[m + 1] = call
  <2>1. call \in CallRecords
    BY <1>2 DEF CallRecords
  <2> HIDE DEF call
  <2> QED
    BY <1>2, <2>1
<1> HIDE DEF b, m, e, calls
<1>6. i \in Nat /\ b + (1 + m) = i
  BY <1>2
<1>7. PICK jt \in ItemLists(i + 1) :
        Runs(d, <<e>>, View("open", jt)) /\ jt[i] = ItemOf("function_call", <<>>, TRUE) /\ Same(it, jt, i, i)
  <2>1. "function_call" \in Kinds
    BY DEF Kinds
  <2>2. it \in ItemLists(i)
    BY <1>6
  <2> HIDE DEF i
  <2>3. \E jt \in ItemLists(i + 1) :
          /\ Runs(View("open", it), <<Added(i, "function_call")>>, View("open", jt))
          /\ jt[i] = ItemOf("function_call", <<>>, TRUE) /\ Same(it, jt, i, i)
    BY <1>6, <2>1, <2>2, ReadAdded
  <2> QED
    BY <1>3, <2>3 DEF e
<1>8. /\ s \in TrStates /\ s.phase = 4 /\ s.message = st.message /\ s.calls = calls /\ s.reasoning = st.reasoning
      /\ s.had_reasoning = st.had_reasoning
  BY <1>1, <1>5 DEF TrStates
<1>9. message_output_index(s) = b
  BY <1>8 DEF message_output_index, b
<1> HIDE DEF s, r
<1>10. CallsShown(calls, b, jt)
  <2>1. SUFFICES ASSUME NEW k \in 1..(m + 1)
                 PROVE calls[k].index = b + k /\ jt[b + k] = ItemOf("function_call", calls[k].args, TRUE)
    BY <1>5 DEF CallsShown
  <2>2. CASE k = m + 1
    <3>1. calls[k] = call /\ b + k = i
      BY <1>2, <1>5, <2>2
    <3>2. call.index = i /\ call.args = <<>>
      OBVIOUS
    <3> HIDE DEF call
    <3> QED
      BY <1>7, <3>1, <3>2
  <2>3. CASE k # m + 1
    <3>1. k \in 1..m /\ b + k \in 0..(i - 1) /\ b + k # i
      BY <1>2, <2>3
    <3>2. calls[k] = st.calls[k] /\ jt[b + k] = it[b + k]
      BY <1>5, <1>7, <3>1 DEF Same
    <3>3. st.calls[k].index = b + k /\ it[b + k] = ItemOf("function_call", st.calls[k].args, TRUE)
      BY <1>3, <3>1 DEF CallsShown, m
    <3> QED
      BY <3>2, <3>3
  <2> QED
    BY <2>2, <2>3
<1>11. jt[b] = ItemOf("message", s.message, TRUE)
  <2>1. b \in 0..(i - 1) /\ b # i
    BY <1>2
  <2> QED
    BY <1>3, <1>7, <1>8, <2>1 DEF Same
<1>12. s.had_reasoning => jt[0] = ItemOf("reasoning", s.reasoning, FALSE)
  <2>1. SUFFICES ASSUME st.had_reasoning PROVE jt[0] = ItemOf("reasoning", st.reasoning, FALSE)
    BY <1>8
  <2>2. 0 # i /\ 0 \in 0..(i - 1)
    BY <1>2
  <2> QED
    BY <1>3, <1>7, <2>1, <2>2 DEF Same
<1>13. i + 1 = message_output_index(s) + (1 + Len(s.calls))
  <2>1. Len(s.calls) = m + 1
    BY <1>5, <1>8
  <2> QED
    BY <1>2, <1>9, <2>1
<1>14. Matches(View("open", jt), s)
  BY <1>7, <1>8, <1>9, <1>10, <1>11, <1>12, <1>13, MessageMatches
<1>15. r.st = s /\ r.events = <<e>>
  BY <1>4 DEF Step
<1>16. Follows(d, r)
  BY <1>7, <1>14, <1>15 DEF Follows
<1> QED
  BY <1>16 DEF r, m, b

LEMMA CallIs ==
    ASSUME NEW st \in TrStates, NEW b \in {0, 1}, NEW it, CallsShown(st.calls, b, it), NEW k \in 1..Len(st.calls)
    PROVE  CallFound(st, b + k) = k
<1> DEFINE I == {j \in 1..Len(st.calls) : st.calls[j].index = b + k}
<1>1. \A j \in 1..Len(st.calls) : st.calls[j].index = b + j
  BY DEF CallsShown
<1>2. Len(st.calls) \in Nat
  BY StateTypes
<1>3. I = {k}
  BY <1>1, <1>2
<1>4. CallFound(st, b + k) = IF I # {} THEN Min(I) ELSE 0
  BY DEF CallFound, SelectInSeq
<1> HIDE DEF I
<1>5. Min(I) = k
  <2>1. \E x \in I : \A y \in I : x =< y
    BY <1>2, <1>3
  <2>2. Min(I) \in I
    BY <2>1 DEF Min
  <2> QED
    BY <1>3, <2>2
<1> QED
  BY <1>3, <1>4, <1>5

LEMMA CallGrows ==
    ASSUME NEW d, NEW st, Matches(d, st), st.phase = 4, NEW k \in 1..Len(st.calls), NEW f \in Seq(Atoms)
    PROVE  LET i == message_output_index(st) + k
               r == CallGrown(st, i, f)
           IN /\ Follows(d, r)
              /\ r.st.phase = 4 /\ Len(r.st.calls) = Len(st.calls)
<1> DEFINE b == message_output_index(st)
           m == Len(st.calls)
           i == b + k
           old == st.calls[k]
           t == old.args \o f
           call == [old EXCEPT !.args = t]
           calls == [st.calls EXCEPT ![k] = call]
           s == [st EXCEPT !.calls = calls]
           r == CallGrown(st, i, f)
           e == Delta(i, f)
<1>1. st \in TrStates
  BY InMessage
<1>2. st.calls \in Seq(CallRecords) /\ m \in Nat /\ b \in {0, 1} /\ (st.had_reasoning => b = 1)
  BY <1>1, StateTypes DEF message_output_index
<1>3. PICK it \in ItemLists(b + (1 + m)) :
         /\ d = View("open", it)
         /\ st.had_reasoning => it[0] = ItemOf("reasoning", st.reasoning, FALSE)
         /\ it[b] = ItemOf("message", st.message, TRUE)
         /\ CallsShown(st.calls, b, it)
  BY InMessage
<1>4. r = Step(s, <<e>>)
  <2>1. CallFound(st, i) = k
    BY <1>1, <1>2, <1>3, CallIs
  <2>2. k # 0
    BY <1>2
  <2> QED
    BY <2>1, <2>2 DEF CallGrown
<1>5. old \in CallRecords /\ old.index = i /\ it[i] = ItemOf("function_call", old.args, TRUE)
  <2>1. old \in CallRecords
    BY <1>2
  <2> HIDE DEF b
  <2>2. st.calls[k].index = b + k /\ it[b + k] = ItemOf("function_call", st.calls[k].args, TRUE)
    BY <1>3 DEF CallsShown
  <2> QED
    BY <2>1, <2>2
<1> HIDE DEF old
<1>6. call \in CallRecords /\ call.index = i /\ call.args = t
  <2>1. t \in Seq(Atoms)
    BY <1>5 DEF CallRecords
  <2> HIDE DEF t, i
  <2> QED
    BY <1>5, <2>1 DEF CallRecords
<1> HIDE DEF t, call
<1>7. /\ calls \in Seq(CallRecords) /\ Len(calls) = m
      /\ (\A j \in 1..m : j # k => calls[j] = st.calls[j]) /\ calls[k] = call
  BY <1>2, <1>6
<1> DEFINE n == b + (1 + m)
<1>8. n \in Nat /\ i \in 0..(n - 1)
  BY <1>2
<1> HIDE DEF b, m, e, calls, n
<1>9. PICK jt \in ItemLists(n) :
        Runs(d, <<e>>, View("open", jt)) /\ jt[i] = ItemOf("function_call", t, TRUE) /\ Same(it, jt, n, i)
  <2> HIDE DEF i
  <2>1. it[i].open /\ it[i].kind = "function_call" /\ it[i].text = old.args
    BY <1>5 DEF ItemOf
  <2>2. it \in ItemLists(n)
    BY DEF n
  <2>3. \E jt \in ItemLists(n) :
          /\ Runs(View("open", it), <<Delta(i, f)>>, View("open", jt))
          /\ jt[i] = ItemOf(it[i].kind, it[i].text \o f, TRUE) /\ Same(it, jt, n, i)
    BY <1>8, <2>1, <2>2, ReadDelta
  <2> QED
    BY <1>3, <2>1, <2>3 DEF e, t
<1>10. /\ s \in TrStates /\ s.phase = 4 /\ s.message = st.message /\ s.calls = calls /\ s.reasoning = st.reasoning
       /\ s.had_reasoning = st.had_reasoning
  BY <1>1, <1>7 DEF TrStates
<1>11. message_output_index(s) = b
  BY <1>10 DEF message_output_index, b
<1> HIDE DEF s, r
<1>12. CallsShown(calls, b, jt)
  <2>1. SUFFICES ASSUME NEW j \in 1..m
                 PROVE calls[j].index = b + j /\ jt[b + j] = ItemOf("function_call", calls[j].args, TRUE)
    BY <1>7 DEF CallsShown
  <2>2. CASE j = k
    BY <1>6, <1>7, <1>9, <2>2
  <2>3. CASE j # k
    <3>1. b + j \in 0..(n - 1) /\ b + j # i
      BY <1>2, <2>3 DEF n
    <3>2. calls[j] = st.calls[j] /\ jt[b + j] = it[b + j]
      BY <1>7, <1>9, <2>3, <3>1 DEF Same
    <3>3. st.calls[j].index = b + j /\ it[b + j] = ItemOf("function_call", st.calls[j].args, TRUE)
      BY <1>3 DEF CallsShown, m
    <3> QED
      BY <3>2, <3>3
  <2> QED
    BY <2>2, <2>3
<1>13. jt[b] = ItemOf("message", s.message, TRUE)
  <2>1. b \in 0..(n - 1) /\ b # i
    BY <1>2 DEF n, m
  <2> QED
    BY <1>3, <1>9, <1>10, <2>1 DEF Same
<1>14. s.had_reasoning => jt[0] = ItemOf("reasoning", s.reasoning, FALSE)
  <2>1. SUFFICES ASSUME st.had_reasoning PROVE jt[0] = ItemOf("reasoning", st.reasoning, FALSE)
    BY <1>10
  <2>2. 0 # i /\ 0 \in 0..(n - 1)
    BY <1>2, <2>1 DEF n, m
  <2> QED
    BY <1>3, <1>9, <2>1, <2>2 DEF Same
<1>15. n = message_output_index(s) + (1 + Len(s.calls))
  <2>1. Len(s.calls) = m
    BY <1>7, <1>10
  <2> QED
    BY <1>11, <2>1 DEF n
<1>16. Matches(View("open", jt), s)
  BY <1>9, <1>10, <1>11, <1>12, <1>13, <1>14, <1>15, MessageMatches
<1>17. r.st = s /\ r.events = <<e>>
  BY <1>4 DEF Step
<1>18. Follows(d, r)
  BY <1>9, <1>16, <1>17 DEF Follows
<1>19. r.st.phase = 4 /\ Len(r.st.calls) = m
  BY <1>7, <1>10, <1>17
<1> QED
  BY <1>18, <1>19 DEF r, m, b

ToolEntries == [index : Nat, id : BOOLEAN, args : Seq(Atoms)]

ToolBegun(s, c, i) == IF ~c.tool.id THEN Step(s, <<>>) ELSE Then(EnterMessage(s), LAMBDA q : CallBegun(q, i))
ToolGrown(s, c, i) == IF c.tool.args = <<>> THEN Step(s, <<>>) ELSE CallGrown(s, i, c.tool.args)

LEMMA ToolAdds ==
    ASSUME NEW d, NEW st, Matches(d, st), st.phase # 5, NEW c, c.tool \in ToolEntries, c.tool # None,
           c.tool.id => c.tool.index = Len(st.calls),
           ~c.tool.id => c.tool.index < Len(st.calls)
    PROVE  LET r == ToolDelta(st, c) IN
           /\ Follows(d, r)
           /\ r.st.phase = 4 /\ Len(r.st.calls) = Len(st.calls) + (IF c.tool.id THEN 1 ELSE 0)
<1> DEFINE b == message_output_index(st)
           m == Len(st.calls)
           x == c.tool.index
           i == b + 1 + x
           q == EnterMessage(st)
           g == CallBegun(q.st, i)
           r1 == ToolBegun(st, c, i)
           r2 == ToolGrown(r1.st, c, i)
           R == ToolDelta(st, c)
<1>1. R = Step(r2.st, r1.events \o r2.events)
  BY DEF ToolDelta, Then, ToolBegun, ToolGrown, CallGrown, CallFound, CallBegun
<1>2. st \in TrStates /\ Coherent(st) /\ st.phase \in 0..5 /\ m \in Nat /\ b \in {0, 1}
  BY StateTypes DEF Matches
<1>3. x \in Nat /\ c.tool.id \in BOOLEAN /\ c.tool.args \in Seq(Atoms)
  BY DEF ToolEntries
<1>4. /\ Follows(d, r1) /\ r1.st.phase = 4 /\ message_output_index(r1.st) = b
      /\ Len(r1.st.calls) = m + (IF c.tool.id THEN 1 ELSE 0) /\ x + 1 \in 1..Len(r1.st.calls)
  <2>1. CASE ~c.tool.id
    <3>1. r1 = Step(st, <<>>)
      BY <2>1 DEF ToolBegun
    <3>2. r1.st = st
      BY <3>1 DEF Step
    <3>3. st.phase = 4
      <4>1. st.calls # <<>>
        BY <1>2, <1>3, <2>1
      <4> QED
        BY <1>2, <4>1 DEF Coherent
    <3>4. x + 1 \in 1..m
      BY <1>2, <1>3, <2>1
    <3>5. Follows(d, r1)
      BY <3>1, Quiet
    <3> HIDE DEF b, m, x, r1
    <3> QED
      BY <1>2, <2>1, <3>2, <3>3, <3>4, <3>5 DEF b, m
  <2>2. CASE c.tool.id
    <3>1. r1 = Step(g.st, q.events \o g.events)
      BY <2>2 DEF ToolBegun, Then
    <3>2. Follows(d, q) /\ q.st = IF st.phase < 4 THEN InPhase(st, 4) ELSE st
      BY MessageEntered
    <3>3. /\ q.st.phase = 4 /\ q.st.calls = st.calls /\ message_output_index(q.st) = b /\ q.st \in TrStates
      BY <1>2, <3>2, PhaseTypes
    <3> HIDE DEF q
    <3>4. i = message_output_index(q.st) + 1 + Len(q.st.calls)
      BY <2>2, <3>3
    <3>5. \A e : Matches(e, q.st) => Follows(e, g)
      BY <3>3, <3>4, CallBegins
    <3>6. g.st = [q.st EXCEPT !.calls = Append(@, [index |-> i, args |-> <<>>])]
      BY DEF CallBegun, Step
    <3>7. q.st.calls \in Seq(CallRecords) /\ [index |-> i, args |-> <<>>] \in CallRecords
      <4>1. i \in Nat /\ <<>> \in Seq(Atoms)
        BY <1>2, <1>3
      <4>2. q.st.calls \in Seq(CallRecords)
        BY <3>3, StateTypes
      <4> HIDE DEF i
      <4> QED
        BY <4>1, <4>2 DEF CallRecords
    <3> DEFINE calls == Append(q.st.calls, [index |-> i, args |-> <<>>])
    <3>8. calls \in Seq(CallRecords) /\ Len(calls) = m + 1
      BY <3>3, <3>7
    <3> HIDE DEF calls, g
    <3>9. g.st.phase = 4 /\ g.st.calls = calls /\ g.st.had_reasoning = q.st.had_reasoning
      BY <3>3, <3>6, <3>8 DEF TrStates, calls
    <3>10. message_output_index(g.st) = b
      BY <3>3, <3>9 DEF message_output_index
    <3>11. Follows(d, Step(g.st, q.events \o g.events))
      BY <3>2, <3>5, ThenFollows
    <3>12. r1.st = g.st
      BY <3>1 DEF Step
    <3>13. x + 1 \in 1..(m + 1)
      BY <1>2, <1>3, <2>2
    <3> HIDE DEF r1, m, b, x
    <3> QED
      BY <2>2, <3>1, <3>8, <3>9, <3>10, <3>11, <3>12, <3>13
  <2> QED
    BY <1>3, <2>1, <2>2
<1> HIDE DEF r1
<1>5. ASSUME NEW e, Matches(e, r1.st) PROVE Follows(e, r2) /\ r2.st.phase = 4 /\ Len(r2.st.calls) = Len(r1.st.calls)
  <2>1. CASE c.tool.args = <<>>
    <3>1. r2 = Step(r1.st, <<>>)
      BY <2>1 DEF ToolGrown
    <3>2. Follows(e, r2)
      BY <1>5, <3>1, Quiet
    <3>3. r2.st = r1.st
      BY <3>1 DEF Step
    <3> HIDE DEF r2
    <3> QED
      BY <1>4, <3>2, <3>3
  <2>2. CASE c.tool.args # <<>>
    <3>1. r2 = CallGrown(r1.st, i, c.tool.args)
      BY <2>2 DEF ToolGrown
    <3>2. i = message_output_index(r1.st) + (x + 1)
      BY <1>2, <1>3, <1>4
    <3> HIDE DEF i, r2
    <3>3. r2 = CallGrown(r1.st, message_output_index(r1.st) + (x + 1), c.tool.args)
      BY <3>1, <3>2
    <3> QED
      BY <1>3, <1>4, <1>5, <3>3, CallGrows
  <2> QED
    BY <2>1, <2>2
<1>6. PICK e : Matches(e, r1.st)
  BY <1>4 DEF Follows
<1>7. Follows(d, Step(r2.st, r1.events \o r2.events))
  BY <1>4, <1>5, ThenFollows
<1>8. R.st = r2.st
  BY <1>1 DEF Step
<1> QED
  BY <1>1, <1>4, <1>5, <1>6, <1>7, <1>8

-----------------------------------------------------------------------------
(* Many events of one kind, one after the other.                           *)
LEMMA FunctionIsSeq ==
    ASSUME NEW T, NEW m \in Nat, NEW F, F = [k \in 1..m |-> F[k]], \A k \in 1..m : F[k] \in T
    PROVE  F \in Seq(T) /\ Len(F) = m
<1>1. F \in [1..m -> T]
  OBVIOUS
<1> QED
  BY <1>1

LEMMA WholePart == ASSUME NEW S, NEW t \in Seq(S) PROVE SubSeq(t, 1, Len(t)) = t
<1> DEFINE n == Len(t)
           u == SubSeq(t, 1, n)
<1>1. n \in Nat /\ 1 \in Nat /\ 1 <= n + 1 /\ n <= Len(t)
  OBVIOUS
<1>2. u \in Seq(S) /\ Len(u) = n + 1 - 1 /\ \A k \in 1..(n + 1 - 1) : u[k] = t[1 + k - 1]
  BY <1>1, PartOf
<1> HIDE DEF u
<1>3. Len(u) = Len(t) /\ \A k \in 1..Len(t) : u[k] = t[k]
  BY <1>1, <1>2
<1>4. u = t
  BY <1>2, <1>3, SeqEqual
<1> QED
  BY <1>4 DEF u

LEMMA UpToNext ==
    ASSUME NEW S, NEW t \in Seq(S), NEW m \in Nat, m + 1 \in 1..Len(t)
    PROVE  /\ SubSeq(t, 1, m) \in Seq(S) /\ t[m + 1] \in S
           /\ SubSeq(t, 1, m + 1) = SubSeq(t, 1, m) \o <<t[m + 1]>>
           /\ SubSeq(t, 1, m + 1) = Append(SubSeq(t, 1, m), t[m + 1])
<1> DEFINE x == t[m + 1]
           u == SubSeq(t, 1, m)
           v == SubSeq(t, 1, m + 1)
<1>1. 1 \in Nat /\ m + 1 \in Nat /\ 1 <= m + 1 /\ 1 <= m + 1 + 1 /\ m <= Len(t) /\ m + 1 <= Len(t) /\ x \in S
  OBVIOUS
<1>2. u \in Seq(S) /\ Len(u) = m + 1 - 1 /\ \A k \in 1..(m + 1 - 1) : u[k] = t[1 + k - 1]
  BY <1>1, PartOf
<1>3. v \in Seq(S) /\ Len(v) = m + 1 + 1 - 1 /\ \A k \in 1..(m + 1 + 1 - 1) : v[k] = t[1 + k - 1]
  BY <1>1, PartOf
<1> HIDE DEF u, v, x
<1>4. Len(u) = m /\ (\A k \in 1..m : u[k] = t[k]) /\ Len(v) = m + 1 /\ \A k \in 1..(m + 1) : v[k] = t[k]
  BY <1>2, <1>3
<1> DEFINE w == Append(u, x)
<1>5. w \in Seq(S) /\ Len(w) = m + 1 /\ w[m + 1] = x /\ \A k \in 1..m : w[k] = u[k]
  BY <1>1, <1>2, <1>4
<1>6. u \o <<x>> = w
  BY <1>1, <1>2, AppendIsConcat
<1> HIDE DEF w
<1>7. \A k \in 1..(m + 1) : v[k] = w[k]
  BY <1>4, <1>5 DEF x
<1>8. v = w
  BY <1>3, <1>4, <1>5, <1>7, SeqEqual
<1> QED
  BY <1>1, <1>2, <1>6, <1>8 DEF u, v, x, w

LEMMA RunsThrough ==
    ASSUME NEW T, NEW F \in Seq(T), NEW V, NEW c \in V[0],
           \A k \in 1..Len(F) : \A x \in V[k - 1] : \E y \in V[k] : Runs(x, <<F[k]>>, y)
    PROVE  \E y \in V[Len(F)] : Runs(c, F, y)
<1> DEFINE n == Len(F)
           G(m) == SubSeq(F, 1, m)
           P == {m \in Nat : m <= n => \E y \in V[m] : Runs(c, G(m), y)}
<1>1. n \in Nat
  OBVIOUS
<1>2. 0 \in P
  <2>1. G(0) = <<>>
    OBVIOUS
  <2> QED
    BY <2>1, NoEvents
<1>3. ASSUME NEW m \in Nat, m \in P PROVE m + 1 \in P
  <2>1. SUFFICES ASSUME m + 1 <= n PROVE \E y \in V[m + 1] : Runs(c, G(m + 1), y)
    OBVIOUS
  <2>2. PICK x \in V[m] : Runs(c, G(m), x)
    BY <1>1, <1>3, <2>1
  <2>3. m + 1 \in 1..n /\ (m + 1) - 1 = m
    BY <1>1, <2>1
  <2>4. PICK y \in V[m + 1] : Runs(x, <<F[m + 1]>>, y)
    BY <2>2, <2>3
  <2>5. G(m + 1) = G(m) \o <<F[m + 1]>>
    BY <2>3, UpToNext
  <2>6. Runs(c, G(m) \o <<F[m + 1]>>, y)
    BY <2>2, <2>4, RunsOn
  <2> QED
    BY <2>5, <2>6
<1> HIDE DEF P
<1>4. n \in P
  BY <1>1, <1>2, <1>3, Upwards
<1>5. G(n) = F
  BY <1>1, WholePart
<1>6. n <= n
  BY <1>1
<1> HIDE DEF n, G
<1>7. \E y \in V[n] : Runs(c, G(n), y)
  BY <1>4, <1>6 DEF P
<1> QED
  BY <1>5, <1>7, Zenon DEF n

LEMMA RunsFlat ==
    ASSUME NEW T, NEW F \in Seq(Seq(T)), NEW V, NEW c \in V[0],
           \A k \in 1..Len(F) : \A x \in V[k - 1] : \E y \in V[k] : Runs(x, F[k], y)
    PROVE  \E y \in V[Len(F)] : Runs(c, FlattenSeq(F), y)
<1> DEFINE n == Len(F)
           G(m) == SubSeq(F, 1, m)
           P == {m \in Nat : m <= n => \E y \in V[m] : Runs(c, FlattenSeq(G(m)), y)}
<1>1. n \in Nat
  OBVIOUS
<1>2. 0 \in P
  <2>1. G(0) = <<>> /\ FlattenSeq(<<>>) = <<>>
    BY FlattenNext
  <2> QED
    BY <2>1, NoEvents
<1>3. ASSUME NEW m \in Nat, m \in P PROVE m + 1 \in P
  <2>1. SUFFICES ASSUME m + 1 <= n PROVE \E y \in V[m + 1] : Runs(c, FlattenSeq(G(m + 1)), y)
    OBVIOUS
  <2>2. PICK x \in V[m] : Runs(c, FlattenSeq(G(m)), x)
    BY <1>1, <1>3, <2>1
  <2>3. m + 1 \in 1..n /\ (m + 1) - 1 = m
    BY <1>1, <2>1
  <2>4. PICK y \in V[m + 1] : Runs(x, F[m + 1], y)
    BY <2>2, <2>3
  <2>5. G(m + 1) = Append(G(m), F[m + 1]) /\ G(m) \in Seq(Seq(T)) /\ F[m + 1] \in Seq(T)
    BY <2>3, UpToNext
  <2>6. FlattenSeq(G(m + 1)) = FlattenSeq(G(m)) \o F[m + 1]
    BY <2>5, FlattenNext
  <2>7. Runs(c, FlattenSeq(G(m)) \o F[m + 1], y)
    BY <2>2, <2>4, RunsOn
  <2> QED
    BY <2>6, <2>7
<1> HIDE DEF P
<1>4. n \in P
  BY <1>1, <1>2, <1>3, Upwards
<1>5. G(n) = F
  BY <1>1, WholePart
<1>6. n <= n
  BY <1>1
<1> HIDE DEF n, G
<1>7. \E y \in V[n] : Runs(c, FlattenSeq(G(n)), y)
  BY <1>4, <1>6 DEF P
<1> QED
  BY <1>5, <1>7, Zenon DEF n
-----------------------------------------------------------------------------
(* The items are closed, the calls first; images come whole.               *)
TopOf(st) == message_output_index(st) + (1 + Len(st.calls))

CallsClosed(st, k) ==
    LET b == message_output_index(st) IN
    {jt \in ItemLists(TopOf(st)) :
       /\ st.had_reasoning => jt[0] = ItemOf("reasoning", st.reasoning, FALSE)
       /\ jt[b] = ItemOf("message", st.message, TRUE)
       /\ \A j \in 1..k : jt[b + j] = ItemOf("function_call", st.calls[j].args, FALSE)
       /\ \A j \in (k + 1)..Len(st.calls) : jt[b + j] = ItemOf("function_call", st.calls[j].args, TRUE)}

ImagesGiven(st, k) ==
    LET b == message_output_index(st)
        m == Len(st.calls)
    IN {jt \in ItemLists(TopOf(st) + k) :
          /\ st.had_reasoning => jt[0] = ItemOf("reasoning", st.reasoning, FALSE)
          /\ jt[b] = ItemOf("message", st.message, FALSE)
          /\ \A j \in 1..m : jt[b + j] = ItemOf("function_call", st.calls[j].args, FALSE)
          /\ \A j \in 1..k : jt[b + m + j] = ItemOf("image_generation_call", st.images[j], FALSE)}

LEMMA CallCloses ==
    ASSUME NEW st \in TrStates, NEW k \in 1..Len(st.calls), NEW it \in CallsClosed(st, k - 1),
           st.calls[k].index = message_output_index(st) + k
    PROVE  \E jt \in CallsClosed(st, k) :
             Runs(View("open", it), <<ItemDone(st.calls[k].index, "function_call", st.calls[k].args)>>, View("open", jt))
<1> DEFINE b == message_output_index(st)
           m == Len(st.calls)
           n == TopOf(st)
           i == b + k
           t == st.calls[k].args
           e == ItemDone(i, "function_call", t)
<1>1. m \in Nat /\ b \in {0, 1} /\ t \in Seq(Atoms) /\ (st.had_reasoning => b = 1)
  BY StateTypes DEF message_output_index
<1>2. n \in Nat /\ n = b + (1 + m) /\ i \in 0..(n - 1)
  BY <1>1 DEF TopOf
<1>3. /\ it \in ItemLists(n)
      /\ st.had_reasoning => it[0] = ItemOf("reasoning", st.reasoning, FALSE)
      /\ it[b] = ItemOf("message", st.message, TRUE)
      /\ \A j \in 1..(k - 1) : it[b + j] = ItemOf("function_call", st.calls[j].args, FALSE)
      /\ \A j \in ((k - 1) + 1)..m : it[b + j] = ItemOf("function_call", st.calls[j].args, TRUE)
  BY DEF CallsClosed
<1>4. it[i] = ItemOf("function_call", t, TRUE)
  <2>1. k \in ((k - 1) + 1)..m
    BY <1>1
  <2> HIDE DEF b, m
  <2> QED
    BY <1>3, <2>1
<1> HIDE DEF b, m, n, t
<1>5. it[i].open /\ it[i].kind = "function_call" /\ it[i].text = t
  BY <1>4 DEF ItemOf
<1>6. PICK jt \in ItemLists(n) :
        Runs(View("open", it), <<e>>, View("open", jt)) /\ jt[i] = ItemOf("function_call", t, FALSE) /\ Same(it, jt, n, i)
  <2> HIDE DEF i, e
  <2>1. "function_call" \in {None, it[i].kind}
    BY <1>5
  <2>2. \E jt \in ItemLists(n) :
          /\ Runs(View("open", it), <<ItemDone(i, "function_call", t)>>, View("open", jt))
          /\ jt[i] = ItemOf(it[i].kind, IF t = None THEN it[i].text ELSE t, FALSE) /\ Same(it, jt, n, i)
    BY <1>2, <1>3, <1>5, <2>1, ReadDone
  <2> QED
    BY <1>5, <2>2 DEF e
<1>7. st.had_reasoning => jt[0] = ItemOf("reasoning", st.reasoning, FALSE)
  <2>1. SUFFICES ASSUME st.had_reasoning PROVE jt[0] = ItemOf("reasoning", st.reasoning, FALSE)
    OBVIOUS
  <2>2. 0 # i /\ 0 \in 0..(n - 1)
    BY <1>1, <1>2, <2>1
  <2> QED
    BY <1>3, <1>6, <2>1, <2>2 DEF Same
<1>8. jt[b] = ItemOf("message", st.message, TRUE)
  <2>1. b \in 0..(n - 1) /\ b # i
    BY <1>1, <1>2
  <2> QED
    BY <1>3, <1>6, <2>1 DEF Same
<1>9. ASSUME NEW j \in 1..m, j # k PROVE jt[b + j] = it[b + j]
  <2>1. b + j \in 0..(n - 1) /\ b + j # i
    BY <1>1, <1>2, <1>9
  <2> QED
    BY <1>6, <2>1 DEF Same
<1>10. \A j \in 1..k : jt[b + j] = ItemOf("function_call", st.calls[j].args, FALSE)
  <2>1. SUFFICES ASSUME NEW j \in 1..k PROVE jt[b + j] = ItemOf("function_call", st.calls[j].args, FALSE)
    OBVIOUS
  <2>2. CASE j = k
    BY <1>6, <2>2 DEF t
  <2>3. CASE j # k
    <3>1. j \in 1..(k - 1) /\ j \in 1..m
      BY <1>1, <2>3 DEF m
    <3> QED
      BY <1>3, <1>9, <2>3, <3>1
  <2> QED
    BY <2>2, <2>3
<1>11. \A j \in (k + 1)..m : jt[b + j] = ItemOf("function_call", st.calls[j].args, TRUE)
  <2>1. SUFFICES ASSUME NEW j \in (k + 1)..m PROVE jt[b + j] = ItemOf("function_call", st.calls[j].args, TRUE)
    OBVIOUS
  <2>2. j # k /\ j \in 1..m /\ j \in ((k - 1) + 1)..m
    BY <1>1
  <2> QED
    BY <1>3, <1>9, <2>2
<1>12. jt \in CallsClosed(st, k)
  BY <1>6, <1>7, <1>8, <1>10, <1>11, Zenon DEF CallsClosed, b, n, m
<1> QED
  BY <1>6, <1>12 DEF e, i, b, t

LEMMA CallsClose ==
    ASSUME NEW st \in TrStates, NEW it \in CallsClosed(st, 0),
           \A k \in 1..Len(st.calls) : st.calls[k].index = message_output_index(st) + k
    PROVE  \E jt \in CallsClosed(st, Len(st.calls)) :
             Runs(View("open", it),
                  [k \in 1..Len(st.calls) |-> ItemDone(st.calls[k].index, "function_call", st.calls[k].args)],
                  View("open", jt))
<1> DEFINE m == Len(st.calls)
           F == [k \in 1..m |-> ItemDone(st.calls[k].index, "function_call", st.calls[k].args)]
           T == {F[k] : k \in 1..m}
           V == [k \in 0..m |-> {View("open", jt) : jt \in CallsClosed(st, k)}]
           c == View("open", it)
<1>1. m \in Nat
  BY StateTypes
<1>2. F \in Seq(T) /\ Len(F) = m
  BY <1>1, FunctionIsSeq
<1>3. c \in V[0]
  BY <1>1
<1>4. ASSUME NEW k \in 1..m, NEW x \in V[k - 1] PROVE \E y \in V[k] : Runs(x, <<F[k]>>, y)
  <2>1. k - 1 \in 0..m /\ k \in 0..m
    BY <1>1
  <2>2. PICK jt \in CallsClosed(st, k - 1) : x = View("open", jt)
    BY <2>1
  <2>3. PICK kt \in CallsClosed(st, k) :
          Runs(View("open", jt), <<ItemDone(st.calls[k].index, "function_call", st.calls[k].args)>>, View("open", kt))
    BY CallCloses
  <2>4. View("open", kt) \in V[k]
    BY <2>1
  <2> QED
    BY <2>2, <2>3, <2>4
<1> HIDE DEF F, T, V, m
<1>5. PICK y \in V[Len(F)] : Runs(c, F, y)
  BY <1>2, <1>3, <1>4, RunsThrough
<1>6. PICK jt \in CallsClosed(st, m) : y = View("open", jt)
  BY <1>1, <1>2 DEF V
<1> QED
  BY <1>5, <1>6 DEF F, m

LEMMA MessageCloses ==
    ASSUME NEW st \in TrStates, NEW it \in CallsClosed(st, Len(st.calls))
    PROVE  LET b == message_output_index(st) IN
           \E jt \in ImagesGiven(st, 0) :
             Runs(View("open", it), <<PartDone(b, st.message), ItemDone(b, "message", st.message)>>, View("open", jt))
<1> DEFINE b == message_output_index(st)
           m == Len(st.calls)
           n == TopOf(st)
           t == st.message
           p == PartDone(b, t)
           e == ItemDone(b, "message", t)
<1>1. m \in Nat /\ b \in {0, 1} /\ t \in Seq(Atoms) /\ (st.had_reasoning => b = 1)
  BY StateTypes DEF message_output_index
<1>2. n \in Nat /\ n = b + (1 + m) /\ b \in 0..(n - 1)
  BY <1>1 DEF TopOf
<1>3. /\ it \in ItemLists(n)
      /\ st.had_reasoning => it[0] = ItemOf("reasoning", st.reasoning, FALSE)
      /\ it[b] = ItemOf("message", t, TRUE)
      /\ \A j \in 1..m : it[b + j] = ItemOf("function_call", st.calls[j].args, FALSE)
  BY DEF CallsClosed
<1> HIDE DEF b, m, n, t
<1>4. it[b].open /\ it[b].kind = "message" /\ it[b].text = t
  BY <1>3 DEF ItemOf
<1>5. Runs(View("open", it), <<p>>, View("open", it))
  <2>1. Runs(View("open", it), <<PartDone(b, it[b].text)>>, View("open", it))
    BY <1>2, <1>3, ReadPartDone
  <2> QED
    BY <1>4, <2>1
<1>6. PICK jt \in ItemLists(n) :
        Runs(View("open", it), <<e>>, View("open", jt)) /\ jt[b] = ItemOf("message", t, FALSE) /\ Same(it, jt, n, b)
  <2> HIDE DEF e
  <2>1. "message" \in {None, it[b].kind}
    BY <1>4
  <2>2. \E jt \in ItemLists(n) :
          /\ Runs(View("open", it), <<ItemDone(b, "message", t)>>, View("open", jt))
          /\ jt[b] = ItemOf(it[b].kind, IF t = None THEN it[b].text ELSE t, FALSE) /\ Same(it, jt, n, b)
    BY <1>2, <1>3, <1>4, <2>1, ReadDone
  <2> QED
    BY <1>4, <2>2 DEF e
<1>7. Runs(View("open", it), <<p, e>>, View("open", jt))
  BY <1>5, <1>6, RunsOn, TwoEvents
<1>8. st.had_reasoning => jt[0] = ItemOf("reasoning", st.reasoning, FALSE)
  <2>1. SUFFICES ASSUME st.had_reasoning PROVE jt[0] = ItemOf("reasoning", st.reasoning, FALSE)
    OBVIOUS
  <2>2. 0 # b /\ 0 \in 0..(n - 1)
    BY <1>1, <1>2, <2>1
  <2> QED
    BY <1>3, <1>6, <2>1, <2>2 DEF Same
<1>9. \A j \in 1..m : jt[b + j] = ItemOf("function_call", st.calls[j].args, FALSE)
  <2>1. SUFFICES ASSUME NEW j \in 1..m PROVE jt[b + j] = it[b + j]
    BY <1>3
  <2>2. b + j \in 0..(n - 1) /\ b + j # b
    BY <1>1, <1>2
  <2> QED
    BY <1>6, <2>2 DEF Same
<1>10. n + 0 = n /\ 1..0 = {}
  BY <1>2
<1>11. jt \in ImagesGiven(st, 0)
  <2>1. jt \in ItemLists(TopOf(st) + 0)
    BY <1>6, <1>10 DEF n
  <2> QED
    BY <1>6, <1>8, <1>9, <1>10, <2>1, Zenon DEF ImagesGiven, b, n, m, t
<1> QED
  BY <1>7, <1>11 DEF b, e, p, t
ImageEvents(st, k) ==
    <<Added(ImageIndex(st, k), "image_generation_call"),
      ItemDone(ImageIndex(st, k), "image_generation_call", st.images[k])>>

LEMMA ImageGiven ==
    ASSUME NEW st \in TrStates, NEW k \in 1..Len(st.images), NEW it \in ImagesGiven(st, k - 1)
    PROVE  \E jt \in ImagesGiven(st, k) : Runs(View("open", it), ImageEvents(st, k), View("open", jt))
<1> DEFINE b == message_output_index(st)
           m == Len(st.calls)
           n == TopOf(st)
           i == n + (k - 1)
           t == st.images[k]
           p == Added(i, "image_generation_call")
           e == ItemDone(i, "image_generation_call", t)
<1>1. m \in Nat /\ b \in {0, 1} /\ (st.had_reasoning => b = 1) /\ st.images \in Seq(Seq(Atoms))
  BY StateTypes DEF message_output_index
<1>2. /\ n \in Nat /\ n = b + (1 + m) /\ i \in Nat /\ i \in 0..((i + 1) - 1) /\ t \in Seq(Atoms)
      /\ i + 1 = n + k /\ i = b + m + k
  <2>1. k \in Nat /\ k >= 1 /\ t \in Seq(Atoms)
    BY <1>1
  <2> HIDE DEF t
  <2>2. n = b + (1 + m)
    BY DEF TopOf
  <2> HIDE DEF b, m, n
  <2> QED
    BY <1>1, <2>1, <2>2
<1>3. /\ it \in ItemLists(i)
      /\ st.had_reasoning => it[0] = ItemOf("reasoning", st.reasoning, FALSE)
      /\ it[b] = ItemOf("message", st.message, FALSE)
      /\ \A j \in 1..m : it[b + j] = ItemOf("function_call", st.calls[j].args, FALSE)
      /\ \A j \in 1..(k - 1) : it[b + m + j] = ItemOf("image_generation_call", st.images[j], FALSE)
  BY DEF ImagesGiven
<1>4. ImageEvents(st, k) = <<p, e>>
  BY <1>2 DEF ImageEvents, ImageIndex
<1> HIDE DEF b, m, n, t, i
<1>5. PICK jt \in ItemLists(i + 1) :
        /\ Runs(View("open", it), <<p>>, View("open", jt))
        /\ jt[i] = ItemOf("image_generation_call", <<>>, TRUE) /\ Same(it, jt, i, i)
  <2>1. "image_generation_call" \in Kinds
    BY DEF Kinds, Whole
  <2> QED
    BY <1>2, <1>3, <2>1, ReadAdded
<1>6. jt[i].open /\ jt[i].kind = "image_generation_call" /\ jt[i].kind \in Whole
  BY <1>5 DEF ItemOf, Whole
<1>7. PICK kt \in ItemLists(i + 1) :
        /\ Runs(View("open", jt), <<e>>, View("open", kt))
        /\ kt[i] = ItemOf("image_generation_call", t, FALSE) /\ Same(jt, kt, i + 1, i)
  <2> HIDE DEF e
  <2>1. "image_generation_call" \in {None, jt[i].kind} /\ t # None
    BY <1>2, <1>6, StreamAssumption
  <2>2. \E kt \in ItemLists(i + 1) :
          /\ Runs(View("open", jt), <<ItemDone(i, "image_generation_call", t)>>, View("open", kt))
          /\ kt[i] = ItemOf(jt[i].kind, IF t = None THEN jt[i].text ELSE t, FALSE) /\ Same(jt, kt, i + 1, i)
    <3>1. i + 1 \in Nat /\ i \in 0..((i + 1) - 1)
      BY <1>2
    <3>2. t = None \/ t = jt[i].text \/ (jt[i].kind \in Whole /\ t \in Seq(Atoms))
      BY <1>2, <1>6
    <3> QED
      BY <1>6, <2>1, <3>1, <3>2, ReadDone
  <2> QED
    BY <1>6, <2>1, <2>2 DEF e
<1>8. Runs(View("open", it), <<p, e>>, View("open", kt))
  BY <1>5, <1>7, RunsOn, TwoEvents
<1>9. ASSUME NEW j \in 0..(i - 1) PROVE kt[j] = it[j]
  <2>1. j # i /\ j \in 0..((i + 1) - 1)
    BY <1>2
  <2>2. kt[j] = jt[j]
    BY <1>7, <2>1 DEF Same
  <2>3. jt[j] = it[j]
    BY <1>5, <2>1 DEF Same
  <2> QED
    BY <2>2, <2>3
<1>10. i = b + m + k /\ k >= 1 /\ k \in Nat
  BY <1>1, <1>2
<1>11. st.had_reasoning => kt[0] = ItemOf("reasoning", st.reasoning, FALSE)
  <2>1. 0 \in 0..(i - 1)
    BY <1>1, <1>10
  <2> QED
    BY <1>3, <1>9, <2>1
<1>12. kt[b] = ItemOf("message", st.message, FALSE)
  <2>1. b \in 0..(i - 1)
    BY <1>1, <1>10
  <2> QED
    BY <1>3, <1>9, <2>1
<1>13. \A j \in 1..m : kt[b + j] = ItemOf("function_call", st.calls[j].args, FALSE)
  <2>1. \A j \in 1..m : b + j \in 0..(i - 1)
    BY <1>1, <1>10
  <2> QED
    BY <1>3, <1>9, <2>1
<1>14. \A j \in 1..k : kt[b + m + j] = ItemOf("image_generation_call", st.images[j], FALSE)
  <2>1. SUFFICES ASSUME NEW j \in 1..k PROVE kt[b + m + j] = ItemOf("image_generation_call", st.images[j], FALSE)
    OBVIOUS
  <2>2. CASE j = k
    BY <1>7, <1>10, <2>2 DEF t
  <2>3. CASE j # k
    <3>1. j \in 1..(k - 1) /\ b + m + j \in 0..(i - 1)
      BY <1>1, <1>10, <2>3
    <3> QED
      BY <1>3, <1>9, <3>1
  <2> QED
    BY <2>2, <2>3
<1>15. kt \in ItemLists(TopOf(st) + k)
  BY <1>2, <1>7 DEF n
<1>16. kt \in ImagesGiven(st, k)
  BY <1>11, <1>12, <1>13, <1>14, <1>15, Zenon DEF ImagesGiven, b, m
<1> QED
  BY <1>4, <1>8, <1>16

LEMMA AllImagesGiven ==
    ASSUME NEW st \in TrStates, NEW it \in ImagesGiven(st, 0)
    PROVE  \E jt \in ImagesGiven(st, Len(st.images)) :
             Runs(View("open", it), FlattenSeq([k \in 1..Len(st.images) |-> ImageEvents(st, k)]), View("open", jt))
<1> DEFINE m == Len(st.images)
           F == [k \in 1..m |-> ImageEvents(st, k)]
           T == UNION {{Added(ImageIndex(st, k), "image_generation_call"),
                        ItemDone(ImageIndex(st, k), "image_generation_call", st.images[k])} : k \in 1..m}
           V == [k \in 0..m |-> {View("open", jt) : jt \in ImagesGiven(st, k)}]
           c == View("open", it)
<1>1. m \in Nat
  BY StateTypes
<1>2. F \in Seq(Seq(T)) /\ Len(F) = m
  <2>1. ASSUME NEW k \in 1..m PROVE ImageEvents(st, k) \in Seq(T)
    <3> DEFINE a == Added(ImageIndex(st, k), "image_generation_call")
               e == ItemDone(ImageIndex(st, k), "image_generation_call", st.images[k])
    <3>1. a \in T /\ e \in T
      OBVIOUS
    <3>2. ImageEvents(st, k) = <<a, e>>
      BY DEF ImageEvents
    <3> HIDE DEF T, a, e
    <3> QED
      BY <3>1, <3>2
  <2> HIDE DEF T
  <2> QED
    BY <1>1, <2>1, FunctionIsSeq
<1>3. c \in V[0]
  BY <1>1
<1>4. ASSUME NEW k \in 1..m, NEW x \in V[k - 1] PROVE \E y \in V[k] : Runs(x, F[k], y)
  <2>1. k - 1 \in 0..m /\ k \in 0..m
    BY <1>1
  <2>2. PICK jt \in ImagesGiven(st, k - 1) : x = View("open", jt)
    BY <2>1
  <2>3. PICK kt \in ImagesGiven(st, k) : Runs(View("open", jt), ImageEvents(st, k), View("open", kt))
    BY ImageGiven
  <2>4. View("open", kt) \in V[k]
    BY <2>1
  <2> QED
    BY <2>2, <2>3, <2>4
<1> HIDE DEF F, T, V, m
<1>5. PICK y \in V[Len(F)] : Runs(c, FlattenSeq(F), y)
  BY <1>2, <1>3, <1>4, RunsFlat
<1>6. PICK jt \in ImagesGiven(st, m) : y = View("open", jt)
  BY <1>1, <1>2 DEF V
<1> QED
  BY <1>5, <1>6 DEF F, m

(* The output of response.completed is what the client has.                *)
Pair(k, t) == <<k, t>>

LEMMA PairIs ==
    \A k, t : Pair(k, t)[1] = k /\ Pair(k, t)[2] = t /\ \A K, S : k \in K /\ t \in S => Pair(k, t) \in K \X S
BY DEF Pair

LEMMA PairShown ==
    ASSUME NEW k, NEW t, NEW x, x = Pair(k, t)
    PROVE  ItemOf(x[1], x[2], FALSE) = ItemOf(k, t, FALSE)
<1>1. Pair(k, t)[1] = k /\ Pair(k, t)[2] = t
  BY DEF Pair
<1> QED
  BY <1>1, Zenon

LEMMA OneIs == ASSUME NEW T, NEW x \in T PROVE <<x>> \in Seq(T) /\ Len(<<x>>) = 1 /\ <<x>>[1] = x
OBVIOUS

LEMMA KindsAre ==
    /\ "reasoning" \in Kinds /\ "message" \in Kinds /\ "function_call" \in Kinds
    /\ "image_generation_call" \in Kinds
BY DEF Kinds, Whole

LEMMA OutputIs ==
    ASSUME NEW st \in TrStates, NEW jt \in ImagesGiven(st, Len(st.images))
    PROVE  Items(Output(st)) = jt /\ AllClosed(jt, TopOf(st) + Len(st.images))
<1> DEFINE b == message_output_index(st)
           m == Len(st.calls)
           g == Len(st.images)
           n == TopOf(st) + g
           T == Kinds \X Seq(Atoms)
           o1 == IF st.had_reasoning THEN <<Pair("reasoning", st.reasoning)>> ELSE <<>>
           o2 == <<Pair("message", st.message)>>
           o3 == [k \in 1..m |-> Pair("function_call", st.calls[k].args)]
           o4 == [k \in 1..g |-> Pair("image_generation_call", st.images[k])]
           p1 == o1 \o o2
           p2 == p1 \o o3
           o == p2 \o o4
<1>1. /\ m \in Nat /\ g \in Nat /\ b \in {0, 1} /\ (st.had_reasoning => b = 1) /\ (~st.had_reasoning => b = 0)
      /\ st.images \in Seq(Seq(Atoms)) /\ st.message \in Seq(Atoms) /\ st.reasoning \in Seq(Atoms)
      /\ \A k \in 1..m : st.calls[k].args \in Seq(Atoms)
  BY StateTypes DEF message_output_index
<1>2. Output(st) = o
  BY DEF Output, Pair
<1>3. o1 \in Seq(T) /\ Len(o1) = b /\ (st.had_reasoning => o1[1] = Pair("reasoning", st.reasoning))
  <2> HIDE DEF b, m, g
  <2>1. CASE st.had_reasoning
    <3> DEFINE x == Pair("reasoning", st.reasoning)
    <3>1. o1 = <<x>> /\ x \in T
      BY <1>1, <2>1, PairIs, KindsAre
    <3> HIDE DEF o1, T, x
    <3>2. <<x>> \in Seq(T) /\ Len(<<x>>) = 1 /\ <<x>>[1] = x
      BY <3>1, OneIs
    <3>3. o1 \in Seq(T) /\ Len(o1) = b /\ o1[1] = x
      BY <1>1, <2>1, <3>1, <3>2
    <3> QED
      BY <3>3 DEF x
  <2>2. CASE ~st.had_reasoning
    <3>1. o1 = <<>>
      BY <2>2
    <3> HIDE DEF o1, T
    <3> QED
      BY <1>1, <2>2, <3>1
  <2> QED
    BY <2>1, <2>2
<1>4. o2 \in Seq(T) /\ Len(o2) = 1 /\ o2[1] = Pair("message", st.message)
  <2> DEFINE x == Pair("message", st.message)
  <2>1. x \in T
    BY <1>1, PairIs, KindsAre
  <2>2. o2 = <<x>>
    OBVIOUS
  <2> HIDE DEF T, x, o2
  <2>3. <<x>> \in Seq(T) /\ Len(<<x>>) = 1 /\ <<x>>[1] = x
    BY <2>1, OneIs
  <2>4. o2 \in Seq(T) /\ Len(o2) = 1 /\ o2[1] = x
    BY <2>2, <2>3
  <2> QED
    BY <2>4 DEF x
<1>5. o3 \in Seq(T) /\ Len(o3) = m
  <2>1. ASSUME NEW k \in 1..m PROVE o3[k] \in T
    <3>1. st.calls[k].args \in Seq(Atoms)
      BY <1>1
    <3>2. Pair("function_call", st.calls[k].args) \in T
      BY <3>1, PairIs, KindsAre
    <3> HIDE DEF T
    <3> QED
      BY <3>2
  <2>2. o3 = [k \in 1..m |-> o3[k]]
    OBVIOUS
  <2> HIDE DEF T, m, o3
  <2> QED
    BY <1>1, <2>1, <2>2, FunctionIsSeq
<1>6. o4 \in Seq(T) /\ Len(o4) = g
  <2>1. ASSUME NEW k \in 1..g PROVE o4[k] \in T
    <3>1. st.images[k] \in Seq(Atoms)
      BY <1>1
    <3>2. Pair("image_generation_call", st.images[k]) \in T
      BY <3>1, PairIs, KindsAre
    <3> HIDE DEF T
    <3> QED
      BY <3>2
  <2>2. o4 = [k \in 1..g |-> o4[k]]
    OBVIOUS
  <2> HIDE DEF T, g, o4
  <2> QED
    BY <1>1, <2>1, <2>2, FunctionIsSeq
<1>7. (\A k \in 1..m : o3[k] = Pair("function_call", st.calls[k].args))
      /\ \A k \in 1..g : o4[k] = Pair("image_generation_call", st.images[k])
  OBVIOUS
<1> HIDE DEF T, o1, o2, o3, o4
<1>8. /\ p1 \in Seq(T) /\ Len(p1) = b + 1 /\ (st.had_reasoning => p1[1] = Pair("reasoning", st.reasoning))
      /\ p1[b + 1] = Pair("message", st.message)
  <2>1. /\ o1 \o o2 \in Seq(T) /\ Len(o1 \o o2) = Len(o1) + Len(o2)
        /\ \A i \in 1..Len(o1) : (o1 \o o2)[i] = o1[i]
        /\ \A i \in (Len(o1) + 1)..(Len(o1) + Len(o2)) : (o1 \o o2)[i] = o2[i - Len(o1)]
    BY <1>3, <1>4, JoinIs
  <2> HIDE DEF p1, b
  <2>2. b + 1 \in (b + 1)..(b + 1) /\ (b + 1) - b = 1 /\ (st.had_reasoning => 1 \in 1..b)
    BY <1>1
  <2> QED
    BY <1>3, <1>4, <2>1, <2>2 DEF p1
<1>9. /\ p2 \in Seq(T) /\ Len(p2) = b + 1 + m /\ (st.had_reasoning => p2[1] = Pair("reasoning", st.reasoning))
      /\ p2[b + 1] = Pair("message", st.message)
      /\ \A k \in 1..m : p2[b + 1 + k] = Pair("function_call", st.calls[k].args)
  <2> HIDE DEF p1, p2
  <2>1. /\ p1 \o o3 \in Seq(T) /\ Len(p1 \o o3) = Len(p1) + Len(o3)
        /\ \A i \in 1..Len(p1) : (p1 \o o3)[i] = p1[i]
        /\ \A i \in (Len(p1) + 1)..(Len(p1) + Len(o3)) : (p1 \o o3)[i] = o3[i - Len(p1)]
    <3>1. p1 \in Seq(T) /\ o3 \in Seq(T)
      BY <1>5, <1>8
    <3> QED
      BY <3>1, JoinIs
  <2> HIDE DEF b, m
  <2>2. b + 1 \in 1..(b + 1) /\ 1 \in 1..(b + 1)
    BY <1>1
  <2>3. \A k \in 1..m : b + 1 + k \in (b + 1 + 1)..(b + 1 + m) /\ (b + 1 + k) - (b + 1) = k
    BY <1>1
  <2> QED
    BY <1>5, <1>7, <1>8, <2>1, <2>2, <2>3 DEF p2
<1>10. /\ o \in Seq(T) /\ Len(o) = b + 1 + m + g /\ (st.had_reasoning => o[1] = Pair("reasoning", st.reasoning))
       /\ o[b + 1] = Pair("message", st.message)
       /\ \A k \in 1..m : o[b + 1 + k] = Pair("function_call", st.calls[k].args)
       /\ \A k \in 1..g : o[b + 1 + m + k] = Pair("image_generation_call", st.images[k])
  <2> HIDE DEF p2, o
  <2>1. /\ p2 \o o4 \in Seq(T) /\ Len(p2 \o o4) = Len(p2) + Len(o4)
        /\ \A i \in 1..Len(p2) : (p2 \o o4)[i] = p2[i]
        /\ \A i \in (Len(p2) + 1)..(Len(p2) + Len(o4)) : (p2 \o o4)[i] = o4[i - Len(p2)]
    <3>1. p2 \in Seq(T) /\ o4 \in Seq(T)
      BY <1>6, <1>9
    <3> QED
      BY <3>1, JoinIs
  <2> HIDE DEF b, m, g
  <2>2. b + 1 \in 1..(b + 1 + m) /\ 1 \in 1..(b + 1 + m) /\ \A k \in 1..m : b + 1 + k \in 1..(b + 1 + m)
    BY <1>1
  <2>3. \A k \in 1..g : b + 1 + m + k \in (b + 1 + m + 1)..(b + 1 + m + g) /\ (b + 1 + m + k) - (b + 1 + m) = k
    BY <1>1
  <2> QED
    BY <1>6, <1>7, <1>9, <2>1, <2>2, <2>3 DEF o
<1> HIDE DEF o
<1>11. /\ jt \in ItemLists(n)
       /\ st.had_reasoning => jt[0] = ItemOf("reasoning", st.reasoning, FALSE)
       /\ jt[b] = ItemOf("message", st.message, FALSE)
       /\ \A j \in 1..m : jt[b + j] = ItemOf("function_call", st.calls[j].args, FALSE)
       /\ \A j \in 1..g : jt[b + m + j] = ItemOf("image_generation_call", st.images[j], FALSE)
  BY DEF ImagesGiven
<1>12. n = b + 1 + m + g /\ n \in Nat
  <2>1. TopOf(st) = b + (1 + m)
    BY DEF TopOf
  <2> HIDE DEF b, m, g
  <2> QED
    BY <1>1, <2>1
<1> HIDE DEF n, b, m, g
<1>13. ASSUME NEW i \in 0..(n - 1) PROVE jt[i] = ItemOf(o[i + 1][1], o[i + 1][2], FALSE)
  <2>1. \/ i < b \/ i = b
        \/ \E k \in 1..m : i = b + k
        \/ \E k \in 1..g : i = b + m + k
    <3>1. CASE i > b /\ i <= b + m
      <4>1. i - b \in 1..m /\ i = b + (i - b)
        BY <1>1, <1>12, <3>1
      <4> QED
        BY <4>1
    <3>2. CASE i > b + m
      <4>1. i - (b + m) \in 1..g /\ i = b + m + (i - (b + m))
        BY <1>1, <1>12, <3>2
      <4> QED
        BY <4>1
    <3> QED
      BY <1>1, <1>12, <3>1, <3>2
  <2>2. CASE i < b
    <3>1. i = 0 /\ st.had_reasoning /\ i + 1 = 1
      BY <1>1, <1>12, <2>2
    <3>2. o[i + 1] = Pair("reasoning", st.reasoning) /\ jt[i] = ItemOf("reasoning", st.reasoning, FALSE)
      BY <1>10, <1>11, <3>1
    <3>8. ItemOf(o[i + 1][1], o[i + 1][2], FALSE) = jt[i]
      BY <3>2, PairShown, Zenon
    <3> QED
      BY <3>8
  <2>3. CASE i = b
    <3>1. o[i + 1] = Pair("message", st.message) /\ jt[i] = ItemOf("message", st.message, FALSE)
      BY <1>10, <1>11, <2>3
    <3>8. ItemOf(o[i + 1][1], o[i + 1][2], FALSE) = jt[i]
      BY <3>1, PairShown, Zenon
    <3> QED
      BY <3>8
  <2>4. ASSUME NEW k \in 1..m, i = b + k PROVE jt[i] = ItemOf(o[i + 1][1], o[i + 1][2], FALSE)
    <3>1. i + 1 = b + 1 + k
      BY <1>1, <2>4
    <3>2. o[i + 1] = Pair("function_call", st.calls[k].args) /\ jt[i] = ItemOf("function_call", st.calls[k].args, FALSE)
      BY <1>10, <1>11, <2>4, <3>1
    <3>8. ItemOf(o[i + 1][1], o[i + 1][2], FALSE) = jt[i]
      BY <3>2, PairShown, Zenon
    <3> QED
      BY <3>8
  <2>5. ASSUME NEW k \in 1..g, i = b + m + k PROVE jt[i] = ItemOf(o[i + 1][1], o[i + 1][2], FALSE)
    <3>1. i + 1 = b + 1 + m + k
      BY <1>1, <2>5
    <3>2. o[i + 1] = Pair("image_generation_call", st.images[k]) /\ jt[i] = ItemOf("image_generation_call", st.images[k], FALSE)
      BY <1>10, <1>11, <2>5, <3>1
    <3>8. ItemOf(o[i + 1][1], o[i + 1][2], FALSE) = jt[i]
      BY <3>2, PairShown, Zenon
    <3> QED
      BY <3>8
  <2> QED
    BY <2>1, <2>2, <2>3, <2>4, <2>5
<1>14. Items(o) = jt
  <2>1. Items(o) = [i \in 0..(n - 1) |-> ItemOf(o[i + 1][1], o[i + 1][2], FALSE)]
    BY <1>10, <1>12 DEF Items
  <2>2. DOMAIN jt = 0..(n - 1) /\ jt = [i \in 0..(n - 1) |-> jt[i]]
    BY <1>11 DEF ItemLists
  <2> QED
    BY <1>13, <2>1, <2>2
<1>15. AllClosed(jt, n)
  <2>1. \A k, t : ~ItemOf(k, t, FALSE).open
    BY DEF ItemOf
  <2> QED
    BY <1>13, <2>1, Zenon DEF AllClosed
<1> QED
  BY <1>2, <1>14, <1>15 DEF n, g

LEMMA FourParts ==
    ASSUME NEW c, NEW a, NEW d1, NEW b, NEW d2, NEW g, NEW d3, NEW h, NEW d4,
           Runs(c, a, d1), Runs(d1, b, d2), Runs(d2, g, d3), Runs(d3, h, d4)
    PROVE  Runs(c, a \o b \o g \o h, d4)
<1>1. Runs(c, a \o b, d2)
  BY RunsOn
<1>2. Runs(c, a \o b \o g, d3)
  BY <1>1, RunsOn
<1> QED
  BY <1>2, RunsOn

LEMMA ClosingFollows ==
    ASSUME NEW d, NEW st, Matches(d, st), st.phase = 4, NEW usage
    PROVE  Follows(d, Closing(st, usage)) /\ Closing(st, usage).st = InPhase(st, 5)
<1> DEFINE b == message_output_index(st)
           E1 == [k \in 1..Len(st.calls) |-> ItemDone(st.calls[k].index, "function_call", st.calls[k].args)]
           E2 == <<PartDone(b, st.message), ItemDone(b, "message", st.message)>>
           E3 == FlattenSeq([k \in 1..Len(st.images) |-> ImageEvents(st, k)])
           e == [type |-> "completed", output |-> Output(st), usage |-> usage]
           R == Closing(st, usage)
<1>1. R = Step(InPhase(st, 5), E1 \o E2 \o E3 \o <<e>>)
  BY DEF Closing, ImageEvents, InPhase, Completed
<1>2. st \in TrStates /\ Len(st.calls) \in Nat /\ Len(st.images) \in Nat /\ b \in {0, 1}
  BY StateTypes DEF Matches
<1>3. PICK it \in ItemLists(b + (1 + Len(st.calls))) :
        /\ d = View("open", it)
        /\ st.had_reasoning => it[0] = ItemOf("reasoning", st.reasoning, FALSE)
        /\ it[b] = ItemOf("message", st.message, TRUE)
        /\ CallsShown(st.calls, b, it)
  BY InMessage
<1>4. \A k \in 1..Len(st.calls) : st.calls[k].index = b + k
  BY <1>3 DEF CallsShown
<1>5. it \in CallsClosed(st, 0)
  <2>1. \A j \in (0 + 1)..Len(st.calls) : it[b + j] = ItemOf("function_call", st.calls[j].args, TRUE)
    <3> HIDE DEF b
    <3>1. SUFFICES ASSUME NEW j \in (0 + 1)..Len(st.calls)
                   PROVE  it[b + j] = ItemOf("function_call", st.calls[j].args, TRUE)
      OBVIOUS
    <3>2. j \in 1..Len(st.calls)
      BY <1>2
    <3> QED
      BY <1>3, <3>2, Zenon DEF CallsShown
  <2>2. 1..0 = {}
    OBVIOUS
  <2> QED
    BY <1>3, <2>1, <2>2, Zenon DEF CallsClosed, TopOf
<1>6. PICK jt \in CallsClosed(st, Len(st.calls)) : Runs(View("open", it), E1, View("open", jt))
  BY <1>2, <1>4, <1>5, CallsClose
<1>7. PICK kt \in ImagesGiven(st, 0) : Runs(View("open", jt), E2, View("open", kt))
  BY <1>2, <1>6, MessageCloses
<1>8. PICK lt \in ImagesGiven(st, Len(st.images)) : Runs(View("open", kt), E3, View("open", lt))
  BY <1>2, <1>7, AllImagesGiven
<1>9. Runs(View("open", lt), <<e>>, View("completed", lt))
  <2>1. Items(Output(st)) = lt /\ AllClosed(lt, TopOf(st) + Len(st.images))
    BY <1>2, <1>8, OutputIs
  <2>2. e.type = "completed" /\ e.output = Output(st)
    OBVIOUS
  <2>3. TopOf(st) + Len(st.images) \in Nat /\ lt \in ItemLists(TopOf(st) + Len(st.images))
    <3>1. TopOf(st) \in Nat
      BY <1>2 DEF TopOf
    <3>2. lt \in ItemLists(TopOf(st) + Len(st.images))
      BY <1>8, Zenon DEF ImagesGiven
    <3> QED
      BY <1>2, <3>1, <3>2
  <2> HIDE DEF e
  <2>4. Items(e.output) = lt
    BY <2>1, <2>2
  <2> QED
    BY <2>1, <2>2, <2>3, <2>4, ReadCompleted
<1> HIDE DEF E1, E2, E3, e
<1>10. Runs(d, E1 \o E2 \o E3 \o <<e>>, View("completed", lt))
  BY <1>3, <1>6, <1>7, <1>8, <1>9, FourParts
<1>11. Matches(View("completed", lt), InPhase(st, 5))
  <2>1. 5 \in 0..5 /\ Coherent(st)
    BY DEF Matches
  <2>2. /\ InPhase(st, 5) \in TrStates /\ InPhase(st, 5).phase = 5
    BY <1>2, <2>1, PhaseTypes
  <2>3. Coherent(InPhase(st, 5))
    BY <2>2 DEF Coherent
  <2> QED
    BY <2>2, <2>3 DEF Matches
<1>12. R.events = E1 \o E2 \o E3 \o <<e>> /\ R.st = InPhase(st, 5)
  BY <1>1 DEF Step
<1> QED
  BY <1>10, <1>11, <1>12, Zenon DEF Follows

(* Every way of ending the answer.                                         *)
LEMMA CompletionFollows ==
    ASSUME NEW d, NEW st, Matches(d, st), st.phase \in 1..4, NEW usage
    PROVE  /\ Follows(d, emit_completion_events(st, usage))
           /\ emit_completion_events(st, usage).st = InPhase(st, 5)
<1> DEFINE r1 == close_reasoning_item(st)
           r2 == start_message_item(r1.st)
           r3 == Closing(r2.st, usage)
           r == Step(r2.st, r1.events \o r2.events)
           R == emit_completion_events(st, usage)
<1>1. R = Step(r3.st, r.events \o r3.events)
  BY DEF emit_completion_events, Then, Step
<1>2. st \in TrStates /\ st.phase \in 0..5
  BY StateTypes DEF Matches
<1>3. Follows(d, r1) /\ r1.st = IF st.phase = 2 THEN InPhase(st, 3) ELSE st
  BY ReasoningCloses
<1>4. r1.st \in TrStates /\ r1.st.phase \in {1, 3, 4}
  BY <1>2, <1>3, PhaseTypes
<1> HIDE DEF r1
<1>5. \A e : Matches(e, r1.st) => Follows(e, r2) /\ r2.st = IF r1.st.phase < 4 THEN InPhase(r1.st, 4) ELSE r1.st
  BY <1>4, MessageStarts
<1>6. PICK e : Matches(e, r1.st)
  BY <1>3 DEF Follows
<1>7. r2.st = IF r1.st.phase < 4 THEN InPhase(r1.st, 4) ELSE r1.st
  BY <1>5, <1>6
<1>8. r2.st \in TrStates /\ r2.st.phase = 4
  BY <1>4, <1>7, PhaseTypes
<1>9. Follows(d, r)
  BY <1>3, <1>5, ThenFollows
<1> HIDE DEF r2
<1>10. \A f : Matches(f, r2.st) => Follows(f, r3) /\ r3.st = InPhase(r2.st, 5)
  BY <1>8, ClosingFollows
<1>11. r.st = r2.st
  BY DEF Step
<1>12. PICK f : Matches(f, r2.st)
  BY <1>9, <1>11, Zenon DEF Follows
<1>13. r3.st = InPhase(r2.st, 5)
  BY <1>10, <1>12
<1> HIDE DEF r, r3
<1>14. Follows(d, Step(r3.st, r.events \o r3.events))
  BY <1>9, <1>10, <1>11, ThenFollows
<1>15. InPhase(r2.st, 5) = InPhase(st, 5)
  BY <1>2, <1>3, <1>4, <1>7, PhaseTwice
<1>16. R.st = r3.st
  BY <1>1 DEF Step
<1> QED
  BY <1>1, <1>13, <1>14, <1>15, <1>16

Finished(st, x) == [st EXCEPT !.finish = x]

LEMMA FinishKept ==
    ASSUME NEW d, NEW st, Matches(d, st), NEW x \in Finishes
    PROVE  Matches(d, Finished(st, x)) /\ Finished(st, x).phase = st.phase
<1>1. st \in TrStates
  BY DEF Matches
<1> DEFINE s == Finished(st, x)
<1>2. /\ s \in TrStates /\ s.phase = st.phase /\ s.had_reasoning = st.had_reasoning
      /\ s.reasoning = st.reasoning /\ s.message = st.message /\ s.calls = st.calls
  BY <1>1 DEF Finished, TrStates
<1> HIDE DEF s
<1> QED
  BY <1>2, SameShown DEF s

LEMMA FinishEnds ==
    ASSUME NEW d, NEW st, Matches(d, st), NEW c, st.phase # 5 \/ c.finish = None, c.finish \in Finishes
    PROVE  /\ Follows(d, Finish(st, c))
           /\ Finish(st, c).st.phase = IF c.finish = None THEN st.phase ELSE 5
<1> DEFINE s == Finished(st, c.finish)
           r1 == ensure_initial_events(s)
           r2 == emit_completion_events(r1.st, c.usage)
           R == Finish(st, c)
<1>1. CASE c.finish = None
  <2>1. R = Step(st, <<>>)
    BY <1>1 DEF Finish
  <2>2. R.st = st
    BY <2>1 DEF Step
  <2> QED
    BY <1>1, <2>1, <2>2, Quiet
<1>2. CASE c.finish # None
  <2>1. R = Step(r2.st, r1.events \o r2.events)
    BY <1>2 DEF Finish, Then, Finished
  <2>2. Matches(d, s) /\ s.phase = st.phase
    BY FinishKept
  <2>3. s \in TrStates /\ s.phase \in 0..4
    <3>1. s \in TrStates /\ st.phase # 5
      BY <1>2, <2>2 DEF Matches
    <3>2. s.phase \in 0..5
      BY <3>1, StateTypes
    <3> QED
      BY <2>2, <3>1, <3>2
  <2> HIDE DEF s
  <2>4. Follows(d, r1) /\ r1.st = IF s.phase = 0 THEN InPhase(s, 1) ELSE s
    BY <2>2, Begins
  <2>5. r1.st \in TrStates /\ r1.st.phase \in 1..4
    BY <2>3, <2>4, PhaseTypes
  <2> HIDE DEF r1
  <2>6. \A e : Matches(e, r1.st) => Follows(e, r2) /\ r2.st = InPhase(r1.st, 5)
    BY <2>5, CompletionFollows
  <2>7. PICK e : Matches(e, r1.st)
    BY <2>4 DEF Follows
  <2>8. r2.st = InPhase(r1.st, 5)
    BY <2>6, <2>7
  <2>9. r2.st.phase = 5
    BY <2>5, <2>8, PhaseTypes
  <2> HIDE DEF r2
  <2>10. Follows(d, Step(r2.st, r1.events \o r2.events))
    BY <2>4, <2>6, ThenFollows
  <2>11. R.st = r2.st
    BY <2>1 DEF Step
  <2> QED
    BY <1>2, <2>1, <2>9, <2>10, <2>11
<1> QED
  BY <1>1, <1>2

LEMMA FinalizeEnds ==
    ASSUME NEW d, NEW st, Matches(d, st)
    PROVE  /\ Follows(d, finalize(st))
           /\ finalize(st).st.phase = IF st.phase = 0 THEN 0 ELSE 5
<1> DEFINE x == IF st.finish = None THEN "length" ELSE st.finish
           s == Finished(st, x)
           R == finalize(st)
<1>0. st \in TrStates /\ st.phase \in 0..5 /\ st.finish \in Finishes
  BY StateTypes DEF Matches
<1>1. CASE st.phase \in {0, 5}
  <2>1. R = Step(st, <<>>)
    BY <1>1 DEF finalize, NotStarted, Completed
  <2>2. R.st = st
    BY <2>1 DEF Step
  <2> QED
    BY <1>1, <2>1, <2>2, Quiet
<1>2. CASE st.phase \notin {0, 5}
  <2>1. R = emit_completion_events(s, FALSE)
    BY <1>2 DEF finalize, NotStarted, Completed, Finished
  <2>2. x \in Finishes
    BY <1>0 DEF Finishes
  <2> HIDE DEF x
  <2>3. Matches(d, s) /\ s.phase = st.phase /\ s.phase \in 1..4
    BY <1>0, <1>2, <2>2, FinishKept
  <2>4. s \in TrStates
    BY <2>3 DEF Matches
  <2> HIDE DEF s
  <2>5. Follows(d, R) /\ R.st = InPhase(s, 5)
    BY <2>1, <2>3, CompletionFollows
  <2>6. InPhase(s, 5).phase = 5
    BY <2>4, PhaseTypes
  <2> QED
    BY <1>2, <2>5, <2>6
<1> QED
  BY <1>1, <1>2

(* Chunks as a provider or a translator makes them.                        *)
Chunks ==
    [choices : BOOLEAN, role : BOOLEAN, reasoning : Seq(Atoms), text : Seq(Atoms), image : Seq(Atoms),
     tool : {None} \cup ToolEntries, finish : Finishes, usage : BOOLEAN]

(* A chunk that the transformer in state st can be given.                  *)
Timely(st, c) ==
    c.choices =>
      /\ st.phase # 5
      /\ c.reasoning # <<>> => st.phase <= 2
      /\ c.tool # None => IF c.tool.id THEN c.tool.index = Len(st.calls) ELSE c.tool.index < Len(st.calls)

LEMMA ChunkTypes ==
    ASSUME NEW c \in Chunks
    PROVE  /\ c.choices \in BOOLEAN /\ c.role \in BOOLEAN /\ c.reasoning \in Seq(Atoms) /\ c.text \in Seq(Atoms)
           /\ c.image \in Seq(Atoms) /\ c.finish \in Finishes /\ c.usage \in BOOLEAN
           /\ c.tool = None \/ c.tool \in ToolEntries
BY DEF Chunks

LEMMA NoneIsNoEntry == None \notin ToolEntries /\ None \notin Seq(Atoms)
BY StreamAssumption DEF ToolEntries

(* What a chunk has made of the answer.                                    *)
Advanced(d, st, c, r) ==
    /\ Follows(d, r)
    /\ ~c.choices => r.st = st
    /\ c.choices /\ c.finish = None =>
         /\ r.st.phase # 5
         /\ Len(r.st.calls) = Len(st.calls) + (IF c.tool # None /\ c.tool.id THEN 1 ELSE 0)
         /\ (st.phase <= 2 /\ c.text = <<>> /\ c.tool = None /\ (c.role => c.reasoning # <<>>)) => r.st.phase <= 2
    /\ c.choices /\ c.finish # None => r.st.phase = 5

LEMMA StatesMoved ==
    ASSUME NEW st \in TrStates
    PROVE  /\ \A f \in Seq(Atoms) : Reasoned(st, f).phase = 2 /\ Reasoned(st, f).calls = st.calls
           /\ \A t \in Seq(Atoms) : Texted(st, t).phase = CallEntered(st).phase /\ Texted(st, t).calls = st.calls
           /\ \A x : Imaged(st, x).phase = st.phase /\ Imaged(st, x).calls = st.calls
           /\ CallEntered(st) \in TrStates /\ CallEntered(st).phase = (IF st.phase < 4 THEN 4 ELSE st.phase)
           /\ CallEntered(st).calls = st.calls
<1>1. \A f \in Seq(Atoms) : Reasoned(st, f).phase = 2 /\ Reasoned(st, f).calls = st.calls
  BY DEF Reasoned, TrStates
<1>4. InPhase(st, 4) \in TrStates /\ InPhase(st, 4).phase = 4 /\ InPhase(st, 4).calls = st.calls
  <2>1. 4 \in 0..5
    OBVIOUS
  <2> QED
    BY <2>1, PhaseTypes
<1>5. st.phase \in 0..5
  BY StateTypes
<1>6. /\ CallEntered(st) \in TrStates /\ CallEntered(st).phase = (IF st.phase < 4 THEN 4 ELSE st.phase)
      /\ CallEntered(st).calls = st.calls
  BY <1>4, <1>5 DEF CallEntered
<1>7. \A t \in Seq(Atoms) : Texted(st, t).phase = CallEntered(st).phase /\ Texted(st, t).calls = st.calls
  BY <1>6 DEF TrStates, Texted
<1>8. \A x : Imaged(st, x).phase = st.phase /\ Imaged(st, x).calls = st.calls
  BY DEF TrStates, Imaged
<1> QED
  BY <1>1, <1>6, <1>7, <1>8

LEMMA MatchesType == ASSUME NEW d, NEW st, Matches(d, st) PROVE st \in TrStates /\ st.phase \in 0..5 /\ Len(st.calls) \in Nat
BY StateTypes DEF Matches

LEMMA TransformFollows ==
    ASSUME NEW d, NEW st, Matches(d, st), NEW c \in Chunks, Timely(st, c)
    PROVE  Advanced(d, st, c, transform_chunk(st, c))
<1> DEFINE R == transform_chunk(st, c)
<1>1. CASE ~c.choices
  <2>1. R = Step(st, <<>>)
    BY <1>1 DEF transform_chunk
  <2>2. R.st = st
    BY <2>1 DEF Step
  <2>3. Follows(d, R)
    BY <2>1, Quiet
  <2> QED
    BY <1>1, <2>2, <2>3, Zenon DEF Advanced
<1>2. CASE c.choices
  <2> DEFINE q1 == ReasoningDelta(st, c)
             q2 == RoleDelta(q1.st, c)
             q3 == ContentDelta(q2.st, c)
             q4 == Images(q3.st, c)
             q5 == ToolDelta(q4.st, c)
             q6 == Finish(q5.st, c)
             r2 == Step(q2.st, q1.events \o q2.events)
             r3 == Step(q3.st, r2.events \o q3.events)
             r4 == Step(q4.st, r3.events \o q4.events)
             r5 == Step(q5.st, r4.events \o q5.events)
             r6 == Step(q6.st, r5.events \o q6.events)
             m == Len(st.calls)
             adds == c.tool # None /\ c.tool.id
  <2>1. R = r6
    BY <1>2 DEF transform_chunk, Then, Step
  <2>2. /\ st \in TrStates /\ st.phase \in 0..4 /\ m \in Nat
        /\ c.reasoning # <<>> => st.phase <= 2
        /\ c.tool # None => IF c.tool.id THEN c.tool.index = m ELSE c.tool.index < m
    BY <1>2, MatchesType DEF Timely
  <2>3. Follows(d, q1) /\ q1.st = IF c.reasoning = <<>> THEN st ELSE Reasoned(st, c.reasoning)
    BY <2>2, ChunkTypes, ReasoningAdds
  <2>4. /\ q1.st.calls = st.calls /\ q1.st.phase \in 0..4 /\ (c.reasoning # <<>> => q1.st.phase = 2)
        /\ st.phase <= 2 => q1.st.phase <= 2
    BY <2>2, <2>3, ChunkTypes, StatesMoved
  <2> HIDE DEF q1
  <2>5. \A e : Matches(e, q1.st) =>
           Follows(e, q2) /\ q2.st = IF ~c.role \/ q1.st.phase >= 2 THEN q1.st ELSE InPhase(q1.st, 4)
    BY RoleStarts
  <2>6. q1.st \in TrStates /\ q2.st = IF ~c.role \/ q1.st.phase >= 2 THEN q1.st ELSE InPhase(q1.st, 4)
    BY <2>3, <2>5, MatchesType DEF Follows
  <2>7. /\ q2.st \in TrStates /\ q2.st.calls = st.calls /\ q2.st.phase \in 0..4
        /\ st.phase <= 2 /\ (c.role => c.reasoning # <<>>) => q2.st.phase <= 2
    <3>1. /\ InPhase(q1.st, 4) \in TrStates /\ InPhase(q1.st, 4).phase = 4 /\ InPhase(q1.st, 4).calls = q1.st.calls
      <4>1. 4 \in 0..5
        OBVIOUS
      <4> QED
        BY <2>6, <4>1, PhaseTypes
    <3>2. CASE ~c.role \/ q1.st.phase >= 2
      BY <2>4, <2>6, <3>2
    <3>3. CASE ~(~c.role \/ q1.st.phase >= 2)
      <4>1. q2.st = InPhase(q1.st, 4) /\ c.role /\ c.reasoning = <<>>
        BY <2>4, <2>6, <3>3
      <4> QED
        BY <2>4, <3>1, <4>1
    <3> QED
      BY <3>2, <3>3
  <2>8. Follows(d, r2) /\ r2.st = q2.st
    BY <2>3, <2>5, ThenFollows DEF Step
  <2> HIDE DEF q2, r2
  <2>9. \A e : Matches(e, q2.st) =>
           /\ Follows(e, q3)
           /\ q3.st = IF c.text = <<>> THEN q2.st ELSE Texted(q2.st, c.text)
    BY <2>7, ChunkTypes, ContentAdds
  <2>10. PICK e2 : Matches(e2, q2.st)
    BY <2>8 DEF Follows
  <2>11. q3.st = IF c.text = <<>> THEN q2.st ELSE Texted(q2.st, c.text)
    BY <2>9, <2>10
  <2>12. /\ q3.st.calls = st.calls /\ q3.st.phase \in 0..4
         /\ c.text = <<>> => q3.st.phase = q2.st.phase
    <3>1. CASE c.text = <<>>
      BY <2>7, <2>11, <3>1
    <3>2. CASE c.text # <<>>
      <4>1. CallEntered(q2.st) \in TrStates /\ CallEntered(q2.st).phase \in 0..4 /\ CallEntered(q2.st).calls = st.calls
        BY <2>7, StatesMoved
      <4>2. c.text \in Seq(Atoms)
        BY ChunkTypes
      <4>3. q3.st = Texted(q2.st, c.text)
        BY <2>11, <3>2
      <4>4. Texted(q2.st, c.text).phase = CallEntered(q2.st).phase /\ Texted(q2.st, c.text).calls = q2.st.calls
        BY <2>7, <4>2, StatesMoved
      <4> HIDE DEF q3
      <4> QED
        BY <2>7, <3>2, <4>1, <4>3, <4>4
    <3> QED
      BY <3>1, <3>2
  <2>13. Follows(d, r3) /\ r3.st = q3.st
    BY <2>8, <2>9, ThenFollows DEF Step
  <2> HIDE DEF q3, r3
  <2>14. \A e : Matches(e, q3.st) =>
           Follows(e, q4) /\ q4.st = IF c.image = <<>> THEN q3.st ELSE Imaged(q3.st, c.image)
    BY ChunkTypes, ImagesKept
  <2>15. PICK e3 : Matches(e3, q3.st)
    BY <2>13 DEF Follows
  <2>16. q4.st = IF c.image = <<>> THEN q3.st ELSE Imaged(q3.st, c.image)
    BY <2>14, <2>15
  <2>17. q4.st.calls = st.calls /\ q4.st.phase = q3.st.phase /\ q4.st.phase \in 0..4
    BY <2>12, <2>15, <2>16, MatchesType, StatesMoved
  <2>18. Follows(d, r4) /\ r4.st = q4.st
    BY <2>13, <2>14, ThenFollows DEF Step
  <2> HIDE DEF q4, r4
  <2>19. ASSUME NEW e, Matches(e, q4.st)
         PROVE  /\ Follows(e, q5) /\ q5.st.phase \in 0..4 /\ Len(q5.st.calls) = m + (IF adds THEN 1 ELSE 0)
                /\ c.tool = None => q5.st.phase = q4.st.phase
    <3>1. CASE c.tool = None
      <4>1. q5 = Step(q4.st, <<>>)
        BY <3>1 DEF ToolDelta
      <4>2. q5.st = q4.st
        BY <4>1 DEF Step
      <4>3. Follows(e, q5)
        BY <2>19, <4>1, Quiet
      <4> HIDE DEF q5
      <4> QED
        BY <2>2, <2>17, <3>1, <4>2, <4>3
    <3>2. CASE c.tool # None
      <4>1. c.tool \in ToolEntries
        BY <3>2, ChunkTypes
      <4>2. q4.st.phase # 5 /\ Len(q4.st.calls) = m
        BY <2>17
      <4>3. (c.tool.id => c.tool.index = m) /\ (~c.tool.id => c.tool.index < m)
        BY <2>2, <3>2
      <4> HIDE DEF m
      <4>4. /\ Follows(e, q5)
            /\ q5.st.phase = 4 /\ Len(q5.st.calls) = Len(q4.st.calls) + (IF c.tool.id THEN 1 ELSE 0)
        BY <2>19, <3>2, <4>1, <4>2, <4>3, ToolAdds
      <4> HIDE DEF q5
      <4> QED
        BY <3>2, <4>2, <4>4
    <3> QED
      BY <3>1, <3>2
  <2>20. PICK e4 : Matches(e4, q4.st)
    BY <2>18 DEF Follows
  <2>21. /\ q5.st.phase \in 0..4 /\ Len(q5.st.calls) = m + (IF adds THEN 1 ELSE 0)
         /\ c.tool = None => q5.st.phase = q4.st.phase
    BY <2>19, <2>20
  <2>22. Follows(d, r5) /\ r5.st = q5.st
    BY <2>18, <2>19, ThenFollows DEF Step
  <2> HIDE DEF q5, r5
  <2>23. \A e : Matches(e, q5.st) => Follows(e, q6) /\ q6.st.phase = IF c.finish = None THEN q5.st.phase ELSE 5
    BY <2>21, ChunkTypes, FinishEnds
  <2>24. PICK e5 : Matches(e5, q5.st)
    BY <2>22 DEF Follows
  <2>25. q6.st.phase = IF c.finish = None THEN q5.st.phase ELSE 5
    BY <2>23, <2>24
  <2>26. c.finish = None => q6.st = q5.st
    BY DEF Finish, Step
  <2>27. Follows(d, r6) /\ r6.st = q6.st
    BY <2>22, <2>23, ThenFollows DEF Step
  <2> HIDE DEF q6, r6, adds, m
  <2>28. (st.phase <= 2 /\ c.text = <<>> /\ c.tool = None /\ (c.role => c.reasoning # <<>>)) => q5.st.phase <= 2
    BY <2>7, <2>12, <2>17, <2>21
  <2>29. CASE c.finish = None
    <3>1. /\ r6.st.phase # 5 /\ Len(r6.st.calls) = m + (IF adds THEN 1 ELSE 0)
          /\ (st.phase <= 2 /\ c.text = <<>> /\ c.tool = None /\ (c.role => c.reasoning # <<>>)) => r6.st.phase <= 2
      BY <2>21, <2>26, <2>27, <2>28, <2>29
    <3> QED
      BY <1>2, <2>1, <2>27, <2>29, <3>1, Zenon DEF m, adds, Advanced
  <2>30. CASE c.finish # None
    <3>1. r6.st.phase = 5
      BY <2>25, <2>27, <2>30
    <3> QED
      BY <1>2, <2>1, <2>27, <2>30, <3>1, Zenon DEF Advanced
  <2> QED
    BY <2>29, <2>30
<1> QED
  BY <1>1, <1>2, ChunkTypes

(* The translators that are run over several inputs.                       *)
Does(w, s, x) ==
    CASE w = "chunk" -> transform_chunk(s, x)
      [] w = "openai" -> stream_kiro_to_openai(s, x)
      [] w = "anthropic" -> stream_kiro_to_anthropic(s, x)

Onto(w, r, x) == Step(Does(w, r.st, x).st, r.events \o Does(w, r.st, x).events)

Along(w, f, st, xs) ==
    f[0] = Step(st, <<>>) /\ \A i \in 1..Len(xs) : f[i] = Onto(w, f[i - 1], xs[i])

OneAfter(w, st, xs, n, f) ==
    f = [i \in 0..n |-> IF i = 0 THEN Step(st, <<>>) ELSE Onto(w, f[i - 1], xs[i])]

LEMMA OneByAnother ==
    ASSUME NEW w, NEW st, NEW xs, NEW n \in Nat
    PROVE  \E f : OneAfter(w, st, xs, n, f)
<1> DEFINE a == Step(st, <<>>)
           P == {m \in Nat : \E f : f = [i \in 0..m |-> IF i = 0 THEN a ELSE Onto(w, f[i - 1], xs[i])]}
<1> HIDE DEF a
<1>1. 0 \in P
  <2> DEFINE f == [i \in 0..0 |-> a]
  <2>1. f = [i \in 0..0 |-> IF i = 0 THEN a ELSE Onto(w, f[i - 1], xs[i])]
    <3>1. \A i \in 0..0 : i = 0
      OBVIOUS
    <3> QED
      BY <3>1
  <2> HIDE DEF f
  <2> QED
    BY <2>1
<1>2. ASSUME NEW m \in Nat, m \in P PROVE m + 1 \in P
  <2>1. PICK f : f = [i \in 0..m |-> IF i = 0 THEN a ELSE Onto(w, f[i - 1], xs[i])]
    BY <1>2
  <2> DEFINE z == Onto(w, f[m], xs[m + 1])
             g == [i \in 0..(m + 1) |-> IF i = m + 1 THEN z ELSE f[i]]
  <2>2. ASSUME NEW i \in 0..(m + 1) PROVE g[i] = IF i = 0 THEN a ELSE Onto(w, g[i - 1], xs[i])
    <3>1. CASE i = 0
      <4>1. g[0] = f[0] /\ f[0] = a
        BY <2>1
      <4> HIDE DEF g
      <4> QED
        BY <3>1, <4>1
    <3>2. CASE i = m + 1
      <4>1. g[i] = z /\ i - 1 = m /\ i # 0 /\ m \in 0..(m + 1) /\ m # m + 1
        BY <3>2
      <4>2. g[m] = f[m]
        BY <4>1
      <4> HIDE DEF g
      <4> QED
        BY <3>2, <4>1, <4>2
    <3>3. CASE i # 0 /\ i # m + 1
      <4>1. i \in 0..m /\ i - 1 \in 0..(m + 1) /\ i - 1 # m + 1
        BY <3>3
      <4>2. g[i] = f[i] /\ g[i - 1] = f[i - 1]
        BY <3>3, <4>1
      <4>3. f[i] = Onto(w, f[i - 1], xs[i])
        BY <2>1, <3>3, <4>1
      <4> HIDE DEF g
      <4> QED
        BY <3>3, <4>2, <4>3
    <3> QED
      BY <3>1, <3>2, <3>3
  <2>3. g = [i \in 0..(m + 1) |-> g[i]]
    OBVIOUS
  <2> HIDE DEF g
  <2>4. g = [i \in 0..(m + 1) |-> IF i = 0 THEN a ELSE Onto(w, g[i - 1], xs[i])]
    BY <2>2, <2>3
  <2>5. m + 1 \in Nat
    OBVIOUS
  <2> QED
    BY <2>4, <2>5
<1> HIDE DEF P
<1>3. n \in P
  BY <1>1, <1>2, Upwards
<1> QED
  BY <1>3 DEF P, a, OneAfter

LEMMA OneByOneThrough ==
    ASSUME NEW w, NEW st, NEW xs, Len(xs) \in Nat,
           NEW u, u = CHOOSE f : OneAfter(w, st, xs, Len(xs), f)
    PROVE  Along(w, u, st, xs)
<1>1. u = [i \in 0..Len(xs) |-> IF i = 0 THEN Step(st, <<>>) ELSE Onto(w, u[i - 1], xs[i])]
  <2>1. \E f : OneAfter(w, st, xs, Len(xs), f)
    BY OneByAnother
  <2>2. OneAfter(w, st, xs, Len(xs), u)
    BY <2>1, Zenon
  <2> QED
    BY <2>2 DEF OneAfter
<1> DEFINE n == Len(xs)
           a == Step(st, <<>>)
<1> HIDE DEF n, a
<1>2. 0 \in 0..n /\ \A i \in 1..n : i \in 0..n /\ i # 0
  BY DEF n
<1>3. u = [i \in 0..n |-> IF i = 0 THEN a ELSE Onto(w, u[i - 1], xs[i])]
  BY <1>1 DEF n, a
<1>4. u[0] = a
  BY <1>2, <1>3
<1>5. ASSUME NEW i \in 1..n PROVE u[i] = Onto(w, u[i - 1], xs[i])
  BY <1>2, <1>3
<1> QED
  BY <1>4, <1>5 DEF Along, n, a

LEMMA ThroughChunks ==
    ASSUME NEW st, NEW xs, Len(xs) \in Nat
    PROVE  \E u : Along("chunk", u, st, xs) /\ Through(transform_chunk, st, xs) = u[Len(xs)]
<1> DEFINE u == CHOOSE f : OneAfter("chunk", st, xs, Len(xs), f)
<1>1. Through(transform_chunk, st, xs) = u[Len(xs)]
  BY Zenon DEF Through, Then, Onto, Does, OneAfter
<1> HIDE DEF u
<1>2. Along("chunk", u, st, xs)
  BY OneByOneThrough, Zenon DEF u
<1> QED
  BY <1>1, <1>2

LEMMA ThroughOpenAI ==
    ASSUME NEW st, NEW xs, Len(xs) \in Nat
    PROVE  \E u : Along("openai", u, st, xs) /\ Through(stream_kiro_to_openai, st, xs) = u[Len(xs)]
<1> DEFINE u == CHOOSE f : OneAfter("openai", st, xs, Len(xs), f)
<1>1. Through(stream_kiro_to_openai, st, xs) = u[Len(xs)]
  BY DEF Through, Then, Onto, Does, OneAfter
<1> HIDE DEF u
<1>2. Along("openai", u, st, xs)
  BY OneByOneThrough, Zenon DEF u
<1> QED
  BY <1>1, <1>2

LEMMA ThroughAnthropic ==
    ASSUME NEW st, NEW xs, Len(xs) \in Nat
    PROVE  \E u : Along("anthropic", u, st, xs) /\ Through(stream_kiro_to_anthropic, st, xs) = u[Len(xs)]
<1> DEFINE u == CHOOSE f : OneAfter("anthropic", st, xs, Len(xs), f)
<1>1. Through(stream_kiro_to_anthropic, st, xs) = u[Len(xs)]
  BY DEF Through, Then, Onto, Does, OneAfter
<1> HIDE DEF u
<1>2. Along("anthropic", u, st, xs)
  BY OneByOneThrough, Zenon DEF u
<1> QED
  BY <1>1, <1>2

LEMMA StepIs == \A a, b : Step(a, b).st = a /\ Step(a, b).events = b
BY DEF Step

LEMMA OntoIs ==
    ASSUME NEW w, NEW r, NEW x
    PROVE  /\ Onto(w, r, x).st = Does(w, r.st, x).st
           /\ Onto(w, r, x).events = r.events \o Does(w, r.st, x).events
           /\ Does("chunk", r.st, x) = transform_chunk(r.st, x)
           /\ Does("openai", r.st, x) = stream_kiro_to_openai(r.st, x)
           /\ Does("anthropic", r.st, x) = stream_kiro_to_anthropic(r.st, x)
<1> DEFINE q == Does(w, r.st, x)
<1>1. /\ Does("chunk", r.st, x) = transform_chunk(r.st, x)
      /\ Does("openai", r.st, x) = stream_kiro_to_openai(r.st, x)
      /\ Does("anthropic", r.st, x) = stream_kiro_to_anthropic(r.st, x)
  BY DEF Does
<1> HIDE DEF q
<1>2. Onto(w, r, x) = Step(q.st, r.events \o q.events)
  BY DEF Onto, q
<1> QED
  BY <1>1, <1>2, StepIs DEF q

(* Several chunks; V[k] are the states the transformer can be in after k.  *)
LEMMA ChunksFollow ==
    ASSUME NEW d, NEW st, Matches(d, st), NEW cs \in Seq(Chunks), NEW V, st \in V[0],
           \A k \in 1..Len(cs) : \A s \in V[k - 1] :
             /\ s \in TrStates => Timely(s, cs[k])
             /\ \A e, r : Advanced(e, s, cs[k], r) => r.st \in V[k]
    PROVE  /\ Follows(d, Through(transform_chunk, st, cs))
           /\ Through(transform_chunk, st, cs).st \in V[Len(cs)]
<1> DEFINE n == Len(cs)
<1>1. n \in Nat
  OBVIOUS
<1>2. PICK u : Along("chunk", u, st, cs) /\ Through(transform_chunk, st, cs) = u[n]
  BY <1>1, ThroughChunks
<1> DEFINE P == {m \in Nat : m <= n => Follows(d, u[m]) /\ u[m].st \in V[m]}
<1>3. 0 \in P
  <2>1. u[0] = Step(st, <<>>)
    BY <1>2 DEF Along
  <2>2. Follows(d, u[0]) /\ u[0].st = st
    BY <2>1, Quiet DEF Step
  <2> QED
    BY <2>2
<1>4. ASSUME NEW m \in Nat, m \in P PROVE m + 1 \in P
  <2>1. SUFFICES ASSUME m + 1 <= n PROVE Follows(d, u[m + 1]) /\ u[m + 1].st \in V[m + 1]
    OBVIOUS
  <2>2. m + 1 \in 1..n /\ (m + 1) - 1 = m /\ Follows(d, u[m]) /\ u[m].st \in V[m]
    BY <1>1, <1>4, <2>1
  <2> DEFINE s == u[m].st
             c == cs[m + 1]
             q == transform_chunk(s, c)
  <2>3. u[m + 1] = Onto("chunk", u[m], c)
    BY <1>2, <2>2 DEF Along
  <2>4. u[m + 1] = Step(q.st, u[m].events \o q.events)
    <3>1. Does("chunk", s, c) = q
      BY OntoIs
    <3> QED
      BY <2>3, <3>1 DEF Onto
  <2>5. c \in Chunks
    BY <2>2
  <2>6. s \in TrStates => Timely(s, c)
    BY <2>2
  <2>7. \A e : Matches(e, s) => Advanced(e, s, c, q)
    BY <2>5, <2>6, TransformFollows, MatchesType
  <2>8. PICK e : Matches(e, s)
    BY <2>2 DEF Follows
  <2>9. q.st \in V[m + 1]
    BY <2>2, <2>7, <2>8
  <2> HIDE DEF q
  <2>10. \A x : Matches(x, u[m].st) => Follows(x, q)
    BY <2>7, Zenon DEF Advanced, s
  <2>11. Follows(d, Step(q.st, u[m].events \o q.events))
    BY <2>2, <2>10, ThenFollows
  <2>12. u[m + 1].st = q.st
    BY <2>4 DEF Step
  <2> QED
    BY <2>4, <2>9, <2>11, <2>12
<1> HIDE DEF P
<1>5. n \in P
  BY <1>1, <1>3, <1>4, Upwards
<1>6. n <= n
  BY <1>1
<1> HIDE DEF n
<1>7. Follows(d, u[n]) /\ u[n].st \in V[n]
  BY <1>5, <1>6 DEF P
<1> QED
  BY <1>2, <1>7 DEF n

(* What a provider has said.                                               *)
SrcStates ==
    [n : Nat, begun : BOOLEAN, late : BOOLEAN, calls : Nat, block : {None} \cup BlockKinds, blocks : Nat,
     finished : BOOLEAN, ended : BOOLEAN, sent : [Kinds -> Seq(Atoms)]]

Like(s, t) ==
    /\ s \in SrcStates /\ s.ended = t.ended /\ s.finished = t.finished /\ s.block = t.block
    /\ s.blocks = t.blocks /\ s.calls = t.calls /\ s.begun = t.begun /\ s.late = t.late

LEMMA SrcTypes ==
    ASSUME NEW s \in SrcStates
    PROVE  /\ s.n \in Nat /\ s.begun \in BOOLEAN /\ s.late \in BOOLEAN /\ s.calls \in Nat
           /\ s.block \in {None} \cup BlockKinds /\ s.blocks \in Nat /\ s.finished \in BOOLEAN
           /\ s.ended \in BOOLEAN
BY DEF SrcStates

LEMMA SaysIs ==
    ASSUME NEW s \in SrcStates, NEW item
    PROVE  Like(Says(s, item).src, s) /\ Says(s, item).item = item
<1> DEFINE t == [s EXCEPT !.n = @ + 1]
<1>1. Like(t, s)
  BY DEF SrcStates, Like
<1> HIDE DEF t
<1>2. Says(s, item) = [src |-> t, item |-> item]
  BY DEF Says, t
<1> QED
  BY <1>1, <1>2

LEMMA SaidIs ==
    ASSUME src \in SrcStates, NEW k \in Kinds, NEW x \in Seq(Atoms)
    PROVE  /\ Said(k, x) \in SrcStates /\ Said(k, x).ended = src.ended /\ Said(k, x).finished = src.finished
           /\ Said(k, x).block = src.block /\ Said(k, x).blocks = src.blocks /\ Said(k, x).calls = src.calls
           /\ Said(k, x).begun = (src.begun \/ k \in {"message", "function_call"})
           /\ Said(k, x).late = (src.late \/ (k = "reasoning" /\ src.begun))
<1> DEFINE t == [src.sent EXCEPT ![k] = @ \o x]
           b == src.begun \/ k \in {"message", "function_call"}
           l == src.late \/ (k = "reasoning" /\ src.begun)
<1>1. src.sent \in [Kinds -> Seq(Atoms)] /\ src.begun \in BOOLEAN /\ src.late \in BOOLEAN
  BY DEF SrcStates
<1>2. t \in [Kinds -> Seq(Atoms)] /\ b \in BOOLEAN /\ l \in BOOLEAN
  BY <1>1
<1>3. Said(k, x) = [src EXCEPT !.sent = t, !.begun = b, !.late = l]
  BY DEF Said
<1> HIDE DEF t, b, l
<1>4. [src EXCEPT !.sent = t, !.begun = b, !.late = l] \in SrcStates
  BY <1>2 DEF SrcStates
<1>5. PICK y : y = [src EXCEPT !.sent = t, !.begun = b, !.late = l]
  OBVIOUS
<1>6. /\ y.ended = src.ended /\ y.finished = src.finished /\ y.block = src.block /\ y.blocks = src.blocks
      /\ y.calls = src.calls /\ y.begun = b /\ y.late = l
  BY <1>5 DEF SrcStates
<1> QED
  BY <1>3, <1>4, <1>5, <1>6 DEF b, l

LEMMA StartMoved ==
    ASSUME NEW s \in SrcStates
    PROVE  LET t == [s EXCEPT !.begun = TRUE] IN
           /\ t \in SrcStates /\ t.begun /\ t.late = s.late /\ t.ended = s.ended /\ t.finished = s.finished
           /\ t.calls = s.calls /\ t.blocks = s.blocks /\ t.block = s.block
BY DEF SrcStates

LEMMA CallsMoved ==
    ASSUME NEW s \in SrcStates
    PROVE  LET t == [s EXCEPT !.calls = @ + 1] IN
           /\ t \in SrcStates /\ t.calls = s.calls + 1 /\ t.ended = s.ended /\ t.finished = s.finished
           /\ t.begun = s.begun /\ t.late = s.late
BY DEF SrcStates

LEMMA FinishedMoved ==
    ASSUME NEW s \in SrcStates
    PROVE  LET t == [s EXCEPT !.finished = TRUE] IN
           /\ t \in SrcStates /\ t.finished /\ t.ended = s.ended /\ t.calls = s.calls
           /\ t.blocks = s.blocks /\ t.block = s.block /\ t.begun = s.begun /\ t.late = s.late
BY DEF SrcStates

LEMMA SymbolsAre ==
    /\ "r" \in Atoms /\ "t" \in Atoms /\ "i" \in Atoms /\ "a" \in Atoms /\ "z" \in Atoms /\ "{}" \in Atoms
    /\ "o1" \in Atoms /\ "o2" \in Atoms /\ "c1" \in Atoms /\ "c2" \in Atoms /\ "x" \in Atoms
    /\ "y" \in Atoms /\ "_" \in Atoms /\ "message" \in Atoms /\ "function_call" \in Atoms
    /\ "e" \in Atoms /\ "reasoning" \in Atoms
BY DEF Atoms

LEMMA OneSymbol == \A S : \A x \in S : <<x>> \in Seq(S) /\ Len(<<x>>) = 1 /\ <<x>> # <<>>
<1> SUFFICES ASSUME NEW S, NEW x \in S PROVE <<x>> \in Seq(S) /\ Len(<<x>>) = 1 /\ <<x>> # <<>>
  OBVIOUS
<1>1. <<x>> \in Seq(S) /\ Len(<<x>>) = 1
  OBVIOUS
<1>2. Len(<<>>) = 0
  OBVIOUS
<1> QED
  BY <1>1, <1>2

LEMMA SomeText ==
    /\ <<>> \in Seq(Atoms) /\ <<"r">> \in Seq(Atoms) /\ <<"t">> \in Seq(Atoms)
    /\ <<"i">> \in Seq(Atoms) /\ <<"a">> \in Seq(Atoms)
    /\ <<"r">> # <<>> /\ <<"t">> # <<>> /\ <<"i">> # <<>> /\ <<"a">> # <<>>
<1>1. <<>> \in Seq(Atoms)
  OBVIOUS
<1> QED
  BY <1>1, SymbolsAre, OneSymbol, Zenon

LEMMA NoChunkIs ==
    /\ NoChunk \in Chunks /\ NoChunk.choices /\ ~NoChunk.role /\ NoChunk.reasoning = <<>> /\ NoChunk.text = <<>>
    /\ NoChunk.image = <<>> /\ NoChunk.tool = None /\ NoChunk.finish = None /\ ~NoChunk.usage
<1>1. None \in Finishes /\ <<>> \in Seq(Atoms)
  BY DEF Finishes
<1> QED
  BY <1>1 DEF NoChunk, Chunks

(* What an OpenAI provider's next chunk can be, and what it means.         *)
Next1(s, t, c) ==
    /\ t \in SrcStates /\ t.ended = s.ended /\ c \in Chunks
    /\ s.finished => ~c.choices /\ t.finished
    /\ ~s.finished =>
         /\ c.choices
         /\ c.tool # None => IF c.tool.id THEN c.tool.index = s.calls ELSE c.tool.index < s.calls
         /\ t.calls = s.calls + (IF c.tool # None /\ c.tool.id THEN 1 ELSE 0)
         /\ t.finished <=> c.finish # None
         /\ c.reasoning # <<>> /\ s.begun => t.late
         /\ c.finish # None => c.tool = None
         /\ ~t.begun =>
              /\ ~s.begun /\ c.text = <<>> /\ c.tool = None
              /\ c.role => c.reasoning # <<>>

LEMMA OpenAINext ==
    ASSUME src \in SrcStates, NEW m \in OpenAIItems
    PROVE  Next1(src, m.src, m.item)
<1> DEFINE Chunk(c) == \E s \in SrcStates : m = Says(s, c)
<1> USE SomeText, NoChunkIs
<1>0. src.finished \in BOOLEAN /\ src.begun \in BOOLEAN /\ src.late \in BOOLEAN /\ src.calls \in Nat
  BY SrcTypes
<1>1. CASE src.finished
  <2> DEFINE c == [NoChunk EXCEPT !.choices = FALSE, !.usage = TRUE]
  <2>1. m = Says(src, c)
    BY <1>1 DEF OpenAIItems
  <2>2. c \in Chunks /\ ~c.choices
    BY DEF Chunks
  <2> HIDE DEF c
  <2>3. Like(m.src, src) /\ m.item = c
    BY <2>1, SaysIs
  <2> QED
    BY <1>1, <2>2, <2>3 DEF Next1, Like
<1>2. CASE ~src.finished
  <2>1. CASE m = Says([src EXCEPT !.begun = TRUE], [NoChunk EXCEPT !.role = TRUE])
    <3> DEFINE c == [NoChunk EXCEPT !.role = TRUE]
               s == [src EXCEPT !.begun = TRUE]
    <3>1. c \in Chunks /\ c.choices /\ c.tool = None /\ c.finish = None /\ c.reasoning = <<>>
      BY DEF Chunks
    <3>2. s \in SrcStates /\ s.begun /\ s.ended = src.ended /\ s.finished = src.finished /\ s.calls = src.calls
      BY StartMoved
    <3> HIDE DEF c, s
    <3>3. Like(m.src, s) /\ m.item = c
      BY <2>1, <3>2, SaysIs DEF c, s
    <3> QED
      BY <1>0, <1>2, <3>1, <3>2, <3>3 DEF Next1, Like
  <2>2. ASSUME NEW first \in BOOLEAN,
               m = Says(Said("reasoning", <<"r">>), [NoChunk EXCEPT !.role = first, !.reasoning = <<"r">>])
        PROVE  Next1(src, m.src, m.item)
    <3> DEFINE c == [NoChunk EXCEPT !.role = first, !.reasoning = <<"r">>]
               s == Said("reasoning", <<"r">>)
    <3>1. c \in Chunks /\ c.choices /\ c.tool = None /\ c.finish = None /\ c.reasoning # <<>> /\ c.text = <<>>
      BY DEF Chunks
    <3>2. /\ s \in SrcStates /\ s.ended = src.ended /\ s.finished = src.finished /\ s.calls = src.calls
          /\ s.begun = src.begun /\ (src.begun => s.late)
      BY <1>0, SaidIs, KindsAre
    <3> HIDE DEF c, s
    <3>3. Like(m.src, s) /\ m.item = c
      BY <2>2, <3>2, SaysIs DEF c, s
    <3> QED
      BY <1>0, <1>2, <2>2, <3>1, <3>2, <3>3 DEF Next1, Like
  <2>3. CASE m = Says(Said("message", <<"t">>), [NoChunk EXCEPT !.text = <<"t">>])
    <3> DEFINE c == [NoChunk EXCEPT !.text = <<"t">>]
               s == Said("message", <<"t">>)
    <3>1. c \in Chunks /\ c.choices /\ c.tool = None /\ c.finish = None /\ c.reasoning = <<>>
      BY DEF Chunks
    <3>2. s \in SrcStates /\ s.begun /\ s.ended = src.ended /\ s.finished = src.finished /\ s.calls = src.calls
      BY SaidIs, KindsAre
    <3> HIDE DEF c, s
    <3>3. Like(m.src, s) /\ m.item = c
      BY <2>3, <3>2, SaysIs DEF c, s
    <3> QED
      BY <1>0, <1>2, <3>1, <3>2, <3>3 DEF Next1, Like
  <2>4. CASE m = Says(Said("image_generation_call", <<"i">>), [NoChunk EXCEPT !.image = <<"i">>])
    <3> DEFINE c == [NoChunk EXCEPT !.image = <<"i">>]
               s == Said("image_generation_call", <<"i">>)
    <3>1. c \in Chunks /\ c.choices /\ c.tool = None /\ c.finish = None /\ c.reasoning = <<>> /\ c.text = <<>> /\ ~c.role
      BY DEF Chunks
    <3>2. /\ s \in SrcStates /\ s.ended = src.ended /\ s.finished = src.finished /\ s.calls = src.calls
          /\ s.begun = src.begun
      BY <1>0, SaidIs, KindsAre
    <3> HIDE DEF c, s
    <3>3. Like(m.src, s) /\ m.item = c
      BY <2>4, <3>2, SaysIs DEF c, s
    <3> QED
      BY <1>0, <1>2, <3>1, <3>2, <3>3 DEF Next1, Like
  <2>5. ASSUME NEW args \in {<<>>, <<"a">>},
               m = Says([Said("function_call", args) EXCEPT !.calls = @ + 1],
                        [NoChunk EXCEPT !.tool = [index |-> src.calls, id |-> TRUE, args |-> args]])
        PROVE  Next1(src, m.src, m.item)
    <3> DEFINE t == [index |-> src.calls, id |-> TRUE, args |-> args]
               c == [NoChunk EXCEPT !.tool = t]
               u == Said("function_call", args)
               s == [u EXCEPT !.calls = @ + 1]
    <3>1. t \in ToolEntries /\ t.id /\ t.index = src.calls
      BY <1>0 DEF ToolEntries
    <3> HIDE DEF t
    <3>2. c \in Chunks /\ c.choices /\ c.tool = t /\ c.finish = None /\ c.reasoning = <<>>
      BY <3>1 DEF Chunks
    <3>3. args \in Seq(Atoms)
      OBVIOUS
    <3>4. u \in SrcStates /\ u.begun /\ u.ended = src.ended /\ u.finished = src.finished /\ u.calls = src.calls
      BY <3>3, SaidIs, KindsAre
    <3> HIDE DEF u
    <3>5. s \in SrcStates /\ s.begun /\ s.ended = src.ended /\ s.finished = src.finished /\ s.calls = src.calls + 1
      BY <3>4, CallsMoved
    <3> HIDE DEF c, s
    <3>6. Like(m.src, s) /\ m.item = c
      BY <2>5, <3>5, SaysIs DEF c, s, t, u
    <3>7. t # None
      BY <3>1, NoneIsNoEntry
    <3> QED
      BY <1>0, <1>2, <3>1, <3>2, <3>5, <3>6, <3>7 DEF Next1, Like
  <2>6. ASSUME NEW k \in 0..(src.calls - 1),
               m = Says(Said("function_call", <<"a">>),
                        [NoChunk EXCEPT !.tool = [index |-> k, id |-> FALSE, args |-> <<"a">>]])
        PROVE  Next1(src, m.src, m.item)
    <3> DEFINE t == [index |-> k, id |-> FALSE, args |-> <<"a">>]
               c == [NoChunk EXCEPT !.tool = t]
               s == Said("function_call", <<"a">>)
    <3>1. t \in ToolEntries /\ ~t.id /\ t.index = k /\ k < src.calls
      BY <1>0 DEF ToolEntries
    <3> HIDE DEF t
    <3>2. c \in Chunks /\ c.choices /\ c.tool = t /\ c.finish = None /\ c.reasoning = <<>>
      BY <3>1 DEF Chunks
    <3>4. s \in SrcStates /\ s.begun /\ s.ended = src.ended /\ s.finished = src.finished /\ s.calls = src.calls
      BY SaidIs, KindsAre
    <3> HIDE DEF c, s
    <3>6. Like(m.src, s) /\ m.item = c
      BY <2>6, <3>4, SaysIs DEF c, s, t
    <3>7. t # None
      BY <3>1, NoneIsNoEntry
    <3> QED
      BY <1>0, <1>2, <3>1, <3>2, <3>4, <3>6, <3>7 DEF Next1, Like
  <2>7. ASSUME NEW text \in {<<>>, <<"t">>},
               m = Says([Said("message", text) EXCEPT !.finished = TRUE],
                        [NoChunk EXCEPT !.text = text, !.finish = "stop"])
        PROVE  Next1(src, m.src, m.item)
    <3> DEFINE c == [NoChunk EXCEPT !.text = text, !.finish = "stop"]
               u == Said("message", text)
               s == [u EXCEPT !.finished = TRUE]
    <3>1. "stop" \in Finishes /\ "stop" # None /\ text \in Seq(Atoms)
      BY StreamAssumption DEF Finishes
    <3>2. c \in Chunks /\ c.choices /\ c.tool = None /\ c.finish # None /\ c.reasoning = <<>>
      BY <3>1 DEF Chunks
    <3>4. u \in SrcStates /\ u.begun /\ u.ended = src.ended /\ u.finished = src.finished /\ u.calls = src.calls
      BY <3>1, SaidIs, KindsAre
    <3> HIDE DEF u
    <3>5. s \in SrcStates /\ s.begun /\ s.ended = src.ended /\ s.finished /\ s.calls = src.calls
      BY <3>4, FinishedMoved
    <3> HIDE DEF c, s
    <3>6. Like(m.src, s) /\ m.item = c
      BY <2>7, <3>5, SaysIs DEF c, s, u
    <3> QED
      BY <1>0, <1>2, <3>2, <3>5, <3>6 DEF Next1, Like
  <2> QED
    BY <1>2, <2>1, <2>2, <2>3, <2>4, <2>5, <2>6, <2>7, Zenon DEF OpenAIItems
<1> QED
  BY <1>1, <1>2

LEMMA NoChunks ==
    ASSUME NEW d, NEW st, Matches(d, st)
    PROVE  Follows(d, Through(transform_chunk, st, <<>>)) /\ Through(transform_chunk, st, <<>>).st = st
<1> DEFINE xs == <<>>
<1>1. Len(xs) = 0 /\ 0 \in Nat
  OBVIOUS
<1> HIDE DEF xs
<1>2. PICK u : Along("chunk", u, st, xs) /\ Through(transform_chunk, st, xs) = u[0]
  BY <1>1, ThroughChunks
<1>3. u[0] = Step(st, <<>>)
  BY <1>2 DEF Along
<1>4. Follows(d, Step(st, <<>>)) /\ Step(st, <<>>).st = st
  BY Quiet, StepIs
<1> QED
  BY <1>2, <1>3, <1>4 DEF xs

LEMMA OneChunk ==
    ASSUME NEW d, NEW st, Matches(d, st), NEW c \in Chunks, Timely(st, c)
    PROVE  Advanced(d, st, c, Through(transform_chunk, st, <<c>>))
<1> DEFINE xs == <<c>>
           q == transform_chunk(st, c)
<1>1. Len(xs) = 1 /\ 1 \in Nat /\ xs[1] = c /\ 1 \in 1..1 /\ 1 - 1 = 0
  OBVIOUS
<1> HIDE DEF xs
<1>2. PICK u : Along("chunk", u, st, xs) /\ Through(transform_chunk, st, xs) = u[1]
  BY <1>1, ThroughChunks
<1>3. u[0] = Step(st, <<>>) /\ u[1] = Onto("chunk", u[0], c)
  BY <1>1, <1>2 DEF Along
<1>4. u[0].st = st /\ Does("chunk", u[0].st, c) = q
  <2>1. u[0].st = st
    BY <1>3, StepIs
  <2>2. Does("chunk", st, c) = q
    BY DEF Does
  <2> HIDE DEF q
  <2> QED
    BY <2>1, <2>2
<1>5. u[1] = Step(q.st, u[0].events \o q.events)
  BY <1>3, <1>4 DEF Onto
<1>6. Follows(d, u[0])
  BY <1>3, Quiet
<1>7. \A e : Matches(e, st) => Advanced(e, st, c, q)
  BY TransformFollows
<1> HIDE DEF q
<1>8. \A e : Matches(e, u[0].st) => Follows(e, q)
  BY <1>4, <1>7, Zenon DEF Advanced
<1>9. Follows(d, Step(q.st, u[0].events \o q.events))
  BY <1>6, <1>8, ThenFollows
<1>10. u[1].st = q.st
  BY <1>5, StepIs
<1>11. Advanced(d, st, c, q)
  BY <1>7
<1>12. Advanced(d, st, c, u[1])
  BY <1>5, <1>9, <1>10, <1>11, Zenon DEF Advanced
<1> QED
  BY <1>2, <1>12 DEF xs

(* The tool blocks an Anthropic provider has begun, and the calls made of  *)
(* them so far.                                                            *)
ToolBlocks == [index : Nat, started : BOOLEAN]

BlocksHeld(f, s, k) ==
    /\ k \in Nat
    /\ f \in [DOMAIN f -> ToolBlocks] /\ DOMAIN f \subseteq 0..s.blocks
    /\ s.block # "function_call" => DOMAIN f \subseteq 0..(s.blocks - 1) /\ Cardinality(DOMAIN f) = k
    /\ s.block = "function_call" =>
         /\ s.blocks \in DOMAIN f
         /\ s.calls = 0 => /\ f[s.blocks] = [index |-> k, started |-> FALSE]
                           /\ Cardinality(DOMAIN f) = k + 1
         /\ s.calls # 0 => /\ f[s.blocks].started /\ f[s.blocks].index < k
                           /\ Cardinality(DOMAIN f) = k

Grown(k, c) == k + (IF c.tool # None /\ c.tool.id THEN 1 ELSE 0)

Next2(s, t, f, e, k) ==
    /\ t \in SrcStates /\ t.ended = s.ended /\ t.n # 0 /\ t.begun
    /\ \/ t.late
       \/ e.events = <<>> /\ ~t.finished /\ BlocksHeld(e.st, t, k)
       \/ \E c \in Chunks :
            /\ e.events = <<c>> /\ c.choices /\ c.reasoning = <<>>
            /\ t.finished <=> c.finish # None
            /\ c.tool # None => IF c.tool.id THEN c.tool.index = k ELSE c.tool.index < k
            /\ ~t.finished => BlocksHeld(e.st, t, Grown(k, c))

LEMMA SaysCounts == ASSUME NEW s \in SrcStates, NEW item PROVE Says(s, item).src.n # 0
<1> DEFINE t == [s EXCEPT !.n = @ + 1]
<1>1. t.n # 0
  BY DEF SrcStates
<1> HIDE DEF t
<1>2. Says(s, item) = [src |-> t, item |-> item]
  BY DEF Says, t
<1> QED
  BY <1>1, <1>2

LEMMA BlocksLike ==
    ASSUME NEW f, NEW s, NEW t, NEW k, BlocksHeld(f, s, k), t.block = s.block, t.blocks = s.blocks, t.calls = s.calls
    PROVE  BlocksHeld(f, t, k)
BY Zenon DEF BlocksHeld

LEMMA NextIs ==
    ASSUME NEW n \in Nat, NEW D, D \subseteq 0..(n - 1)
    PROVE  /\ D \cup {n} \subseteq 0..n /\ n \notin D
           /\ IsFiniteSet(D) /\ Cardinality(D) \in Nat
           /\ Cardinality(D \cup {n}) = Cardinality(D) + 1
<1>1. IsFiniteSet(0..(n - 1))
  BY FS_Interval
<1>2. IsFiniteSet(D) /\ Cardinality(D) \in Nat
  BY <1>1, FS_Subset, FS_CardinalityType
<1>3. n \notin D
  OBVIOUS
<1>4. Cardinality(D \cup {n}) = Cardinality(D) + 1
  BY <1>2, <1>3, FS_AddElement
<1>5. D \cup {n} \subseteq 0..n
  OBVIOUS
<1> QED
  BY <1>2, <1>3, <1>4, <1>5

LEMMA BlocksGrow ==
    ASSUME NEW n \in Nat, NEW f, f \in [DOMAIN f -> ToolBlocks], DOMAIN f \subseteq 0..(n - 1), NEW x \in ToolBlocks
    PROVE  /\ DOMAIN Put(f, n, x) = DOMAIN f \cup {n} /\ Put(f, n, x) \in [DOMAIN Put(f, n, x) -> ToolBlocks]
           /\ DOMAIN f \cup {n} \subseteq 0..n /\ Put(f, n, x)[n] = x
           /\ Cardinality(DOMAIN f \cup {n}) = Cardinality(DOMAIN f) + 1
<1>1. /\ DOMAIN Put(f, n, x) = DOMAIN f \cup {n} /\ Put(f, n, x) \in [DOMAIN Put(f, n, x) -> ToolBlocks]
      /\ Put(f, n, x)[n] = x
  BY DEF Put
<1>2. PICK D : D = DOMAIN f
  OBVIOUS
<1>3. D \subseteq 0..(n - 1)
  BY <1>2
<1>4. D \cup {n} \subseteq 0..n /\ Cardinality(D \cup {n}) = Cardinality(D) + 1
  BY <1>3, NextIs, Zenon
<1> QED
  BY <1>1, <1>2, <1>4

LEMMA BlockMoved ==
    ASSUME NEW s \in SrcStates, NEW k \in BlockKinds
    PROVE  /\ LET t == [s EXCEPT !.block = k, !.calls = 0] IN
              /\ t \in SrcStates /\ t.block = k /\ t.calls = 0 /\ t.blocks = s.blocks /\ t.ended = s.ended
              /\ t.finished = s.finished /\ t.begun = s.begun /\ t.late = s.late
           /\ LET t == [s EXCEPT !.calls = 1] IN
              /\ t \in SrcStates /\ t.block = s.block /\ t.calls = 1 /\ t.blocks = s.blocks /\ t.ended = s.ended
              /\ t.finished = s.finished /\ t.begun = s.begun /\ t.late = s.late
           /\ LET t == [s EXCEPT !.block = None, !.blocks = @ + 1] IN
              /\ t \in SrcStates /\ t.block = None /\ t.blocks = s.blocks + 1 /\ t.ended = s.ended
              /\ t.finished = s.finished /\ t.calls = s.calls /\ t.begun = s.begun /\ t.late = s.late
<1>1. LET t == [s EXCEPT !.block = k, !.calls = 0] IN
              /\ t \in SrcStates /\ t.block = k /\ t.calls = 0 /\ t.blocks = s.blocks /\ t.ended = s.ended
              /\ t.finished = s.finished /\ t.begun = s.begun /\ t.late = s.late
  BY DEF SrcStates
<1>2. LET t == [s EXCEPT !.calls = 1] IN
              /\ t \in SrcStates /\ t.block = s.block /\ t.calls = 1 /\ t.blocks = s.blocks /\ t.ended = s.ended
              /\ t.finished = s.finished /\ t.begun = s.begun /\ t.late = s.late
  BY DEF SrcStates
<1>3. LET t == [s EXCEPT !.block = None, !.blocks = @ + 1] IN
              /\ t \in SrcStates /\ t.block = None /\ t.blocks = s.blocks + 1 /\ t.ended = s.ended
              /\ t.finished = s.finished /\ t.calls = s.calls /\ t.begun = s.begun /\ t.late = s.late
  <2> DEFINE t == [s EXCEPT !.block = None]
             m == s.blocks + 1
  <2>1. /\ t \in SrcStates /\ t.block = None /\ t.blocks = s.blocks /\ t.ended = s.ended
        /\ t.finished = s.finished /\ t.calls = s.calls /\ t.begun = s.begun /\ t.late = s.late
    BY DEF SrcStates
  <2>2. m \in Nat /\ [s EXCEPT !.block = None, !.blocks = @ + 1] = [t EXCEPT !.blocks = m]
    BY SrcTypes
  <2> HIDE DEF t, m
  <2>3. [t EXCEPT !.blocks = m] \in SrcStates
    BY <2>1, <2>2 DEF SrcStates
  <2>4. /\ [t EXCEPT !.blocks = m].block = t.block /\ [t EXCEPT !.blocks = m].blocks = m
        /\ [t EXCEPT !.blocks = m].ended = t.ended /\ [t EXCEPT !.blocks = m].finished = t.finished
        /\ [t EXCEPT !.blocks = m].calls = t.calls /\ [t EXCEPT !.blocks = m].begun = t.begun
        /\ [t EXCEPT !.blocks = m].late = t.late
    BY <2>1 DEF SrcStates
  <2> QED
    BY <2>1, <2>2, <2>3, <2>4 DEF m
<1> QED
  BY <1>1, <1>2, <1>3

LEMMA QuietNext ==
    ASSUME NEW f, NEW g, NEW k, NEW e, NEW t, NEW s \in SrcStates, Like(t, s), t.n # 0, s.begun,
           s.ended = src.ended, ~src.finished,
           s.finished = src.finished, e = Step(g, <<>>), BlocksHeld(g, s, k)
    PROVE  Next2(src, t, f, e, k)
<1>1. e.st = g /\ e.events = <<>>
  BY StepIs
<1>2. BlocksHeld(e.st, t, k)
  BY <1>1, BlocksLike DEF Like
<1>3. t \in SrcStates /\ t.ended = src.ended /\ ~t.finished /\ t.begun
  BY DEF Like
<1> QED
  BY <1>1, <1>2, <1>3, Zenon DEF Next2

LEMMA ChunkNext ==
    ASSUME NEW f, NEW g, NEW k, NEW e, NEW t, NEW s \in SrcStates, Like(t, s), t.n # 0, s.begun, s.ended = src.ended,
           NEW c \in Chunks, c.choices, c.reasoning = <<>>, s.finished <=> c.finish # None,
           c.tool # None => IF c.tool.id THEN c.tool.index = k ELSE c.tool.index < k,
           e = Step(g, <<c>>), ~s.finished => BlocksHeld(g, s, Grown(k, c))
    PROVE  Next2(src, t, f, e, k)
<1>1. e.st = g /\ e.events = <<c>>
  BY StepIs
<1>2. t \in SrcStates /\ t.ended = src.ended /\ (t.finished <=> c.finish # None) /\ t.begun
  BY Zenon DEF Like
<1>3. ~t.finished => BlocksHeld(e.st, t, Grown(k, c))
  BY <1>1, BlocksLike, Zenon DEF Like
<1> QED
  BY <1>1, <1>2, <1>3, Zenon DEF Next2

LEMMA AnthropicNext ==
    ASSUME src \in SrcStates, src.finished => src.n # 0, src.n # 0 => src.begun, NEW m \in AnthropicItems, NEW f, NEW k,
           ~src.finished => BlocksHeld(f, src, k)
    PROVE  Next2(src, m.src, f, translate_event(f, m.item), k)
<1>a. PICK x : x = m.item
  OBVIOUS
<1>b. PICK e : e = translate_event(f, x)
  OBVIOUS
<1>c. PICK G \in BOOLEAN : G <=> Next2(src, m.src, f, e, k)
  OBVIOUS
<1> USE SomeText, NoChunkIs
<1>0. /\ src.finished \in BOOLEAN /\ src.calls \in Nat /\ src.blocks \in Nat
      /\ src.block \in {None} \cup BlockKinds /\ None \notin BlockKinds
  BY SrcTypes, StreamAssumption DEF BlockKinds
<1>1. ~src.finished
  BY <1>0 DEF AnthropicItems
<1>2. BlocksHeld(f, src, k) /\ k \in Nat
  BY <1>1 DEF BlocksHeld
<1>3. ASSUME m = Says([src EXCEPT !.begun = TRUE], [type |-> "message_start", index |-> 0]) PROVE G
  <2> DEFINE s == [src EXCEPT !.begun = TRUE]
             c == [NoChunk EXCEPT !.role = TRUE]
             y == [type |-> "message_start", index |-> 0]
  <2>1. c \in Chunks /\ c.choices /\ c.tool = None /\ c.finish = None /\ c.reasoning = <<>>
    BY DEF Chunks
  <2>2. y.type = "message_start"
    OBVIOUS
  <2>7. /\ s \in SrcStates /\ s.begun /\ s.ended = src.ended /\ s.finished = src.finished /\ s.calls = src.calls
        /\ s.blocks = src.blocks /\ s.block = src.block
    BY StartMoved
  <2> HIDE DEF y, s
  <2>3. Like(m.src, s) /\ x = y /\ m.src.n # 0
    BY <1>a, <1>3, <2>7, SaysIs, SaysCounts DEF y, s
  <2>4. e = Step(f, <<c>>)
    BY <1>b, <2>2, <2>3 DEF translate_event
  <2> HIDE DEF c
  <2>5. Grown(k, c) = k
    BY <1>2, <2>1 DEF Grown
  <2>6. BlocksHeld(f, s, Grown(k, c)) /\ (s.finished <=> c.finish # None)
    BY <1>1, <1>2, <2>1, <2>5, <2>7, BlocksLike
  <2>8. Next2(src, m.src, f, e, k)
    BY <2>1, <2>3, <2>4, <2>6, <2>7, ChunkNext
  <2> QED
    BY <1>c, <2>8
<1>4. ASSUME NEW b \in BlockKinds, src.block = None, src.begun,
             m = Says([src EXCEPT !.block = b, !.calls = 0], [type |-> "block_start", index |-> src.blocks, kind |-> b])
      PROVE  G
  <2> DEFINE y == [type |-> "block_start", index |-> src.blocks, kind |-> b]
             s == [src EXCEPT !.block = b, !.calls = 0]
  <2>1. y.type = "block_start" /\ y.index = src.blocks /\ y.kind = b
    OBVIOUS
  <2>2. /\ s \in SrcStates /\ s.block = b /\ s.calls = 0 /\ s.blocks = src.blocks /\ s.ended = src.ended
        /\ s.finished = src.finished /\ s.begun
    BY <1>4, BlockMoved
  <2> HIDE DEF y, s
  <2>3. Like(m.src, s) /\ x = y /\ m.src.n # 0
    BY <1>a, <1>4, <2>2, SaysIs, SaysCounts DEF y, s
  <2>4. /\ DOMAIN f \subseteq 0..(src.blocks - 1) /\ Cardinality(DOMAIN f) = k
        /\ f \in [DOMAIN f -> ToolBlocks]
    BY <1>0, <1>2, <1>4 DEF BlocksHeld, BlockKinds
  <2>5. CASE b # "function_call"
    <3>1. e = Step(f, <<>>)
      BY <1>b, <2>1, <2>3, <2>5 DEF translate_event
    <3>2. DOMAIN f \subseteq 0..s.blocks /\ DOMAIN f \subseteq 0..(s.blocks - 1)
      BY <1>0, <2>2, <2>4
    <3>3. BlocksHeld(f, s, k)
      BY <1>2, <2>2, <2>4, <2>5, <3>2, Zenon DEF BlocksHeld
    <3> QED
      BY <1>1, <1>c, <2>2, <2>3, <3>1, <3>3, QuietNext
  <2>6. CASE b = "function_call"
    <3> DEFINE t == [index |-> Cardinality(DOMAIN f), started |-> FALSE]
               g == Put(f, src.blocks, t)
    <3>1. e = Step(g, <<>>)
      BY <1>b, <2>1, <2>3, <2>6 DEF translate_event
    <3>3. t \in ToolBlocks /\ t = [index |-> k, started |-> FALSE]
      BY <1>2, <2>4 DEF ToolBlocks
    <3> HIDE DEF t
    <3>4. /\ DOMAIN g = DOMAIN f \cup {src.blocks} /\ g \in [DOMAIN g -> ToolBlocks]
          /\ DOMAIN f \cup {src.blocks} \subseteq 0..src.blocks /\ g[src.blocks] = t
          /\ Cardinality(DOMAIN f \cup {src.blocks}) = k + 1
      <4>1. t \in ToolBlocks /\ f \in [DOMAIN f -> ToolBlocks] /\ src.blocks \in Nat /\ DOMAIN f \subseteq 0..(src.blocks - 1)
        BY <1>0, <2>4, <3>3
      <4>2. /\ DOMAIN g = DOMAIN f \cup {src.blocks} /\ g \in [DOMAIN g -> ToolBlocks]
            /\ DOMAIN f \cup {src.blocks} \subseteq 0..src.blocks /\ g[src.blocks] = t
            /\ Cardinality(DOMAIN f \cup {src.blocks}) = Cardinality(DOMAIN f) + 1
        BY <4>1, BlocksGrow
      <4> QED
        BY <2>4, <4>2
    <3> HIDE DEF g
    <3>5. BlocksHeld(g, s, k)
      <4>1. g \in [DOMAIN g -> ToolBlocks] /\ DOMAIN g \subseteq 0..s.blocks /\ s.blocks \in DOMAIN g
        BY <2>2, <3>4
      <4>2. g[s.blocks] = [index |-> k, started |-> FALSE] /\ Cardinality(DOMAIN g) = k + 1
        BY <2>2, <3>3, <3>4
      <4>3. s.block = "function_call" /\ s.calls = 0
        BY <2>2, <2>6
      <4> QED
        BY <1>2, <4>1, <4>2, <4>3, Zenon DEF BlocksHeld
    <3> QED
      BY <1>1, <1>c, <2>2, <2>3, <3>1, <3>5, QuietNext
  <2> QED
    BY <2>5, <2>6
<1>5. ASSUME src.begun, m = Says([src EXCEPT !.finished = TRUE], [type |-> "message_delta", index |-> 0]) PROVE G
  <2> DEFINE c == [NoChunk EXCEPT !.finish = "stop", !.usage = TRUE]
             y == [type |-> "message_delta", index |-> 0]
             s == [src EXCEPT !.finished = TRUE]
  <2>1. c \in Chunks /\ c.choices /\ c.tool = None /\ c.finish # None /\ c.reasoning = <<>>
    <3>1. "stop" \in Finishes /\ "stop" # None
      BY StreamAssumption DEF Finishes
    <3> QED
      BY <3>1 DEF Chunks
  <2>2. y.type = "message_delta" /\ s \in SrcStates /\ s.finished /\ s.ended = src.ended /\ s.begun
    BY <1>5, FinishedMoved
  <2> HIDE DEF y, s
  <2>3. Like(m.src, s) /\ x = y /\ m.src.n # 0
    BY <1>a, <1>5, <2>2, SaysIs, SaysCounts DEF y, s
  <2>4. e = Step(f, <<c>>)
    BY <1>b, <2>2, <2>3 DEF translate_event
  <2> HIDE DEF c
  <2>5. Next2(src, m.src, f, e, k)
    BY <2>1, <2>2, <2>3, <2>4, ChunkNext
  <2> QED
    BY <1>c, <2>5
<1>6. ASSUME src.block # None, src.begun,
           m = Says([Said(src.block, <<src.block>>) EXCEPT !.calls = 1],
                       [type |-> "delta", index |-> src.blocks, kind |-> src.block, text |-> <<src.block>>])
      PROVE G
  <2> DEFINE y == [type |-> "delta", index |-> src.blocks, kind |-> src.block, text |-> <<src.block>>]
             u == Said(src.block, <<src.block>>)
             s == [u EXCEPT !.calls = 1]
             z == <<src.block>>
  <2>1. y.type = "delta" /\ y.index = src.blocks /\ y.kind = src.block /\ y.text = z
    OBVIOUS
  <2>2. src.block \in {"message", "reasoning", "function_call"} /\ src.block \in Kinds /\ z \in Seq(Atoms)
    BY <1>0, <1>6, KindsAre, SymbolsAre, OneSymbol DEF BlockKinds
  <2>3. /\ u \in SrcStates /\ u.ended = src.ended /\ u.finished = src.finished /\ u.block = src.block /\ u.blocks = src.blocks
        /\ u.begun /\ (src.block = "reasoning" => u.late)
    BY <1>6, <2>2, SaidIs
  <2> HIDE DEF u, z
  <2>4. /\ s \in SrcStates /\ s.block = src.block /\ s.calls = 1 /\ s.blocks = src.blocks /\ s.ended = src.ended
        /\ s.finished = src.finished /\ s.begun /\ (src.block = "reasoning" => s.late)
    <3>1. "message" \in BlockKinds
      BY DEF BlockKinds
    <3>2. /\ s \in SrcStates /\ s.block = u.block /\ s.calls = 1 /\ s.blocks = u.blocks /\ s.ended = u.ended
          /\ s.finished = u.finished /\ s.begun = u.begun /\ s.late = u.late
      BY <2>3, <3>1, BlockMoved
    <3> HIDE DEF s
    <3> QED
      BY <2>3, <3>2
  <2> HIDE DEF y, s
  <2>5. Like(m.src, s) /\ x = y /\ m.src.n # 0
    BY <1>a, <1>6, <2>4, SaysIs, SaysCounts DEF y, s, u
  <2>6. CASE src.block = "message"
    <3> DEFINE c == [NoChunk EXCEPT !.text = z]
    <3>1. e = Step(f, <<c>>)
      BY <1>b, <2>1, <2>5, <2>6 DEF translate_event
    <3>2. c \in Chunks /\ c.choices /\ c.tool = None /\ c.finish = None /\ c.reasoning = <<>>
      BY <2>2 DEF Chunks
    <3> HIDE DEF c
    <3>3. Grown(k, c) = k
      BY <1>2, <3>2 DEF Grown
    <3>4. BlocksHeld(f, s, Grown(k, c)) /\ (s.finished <=> c.finish # None)
      BY <1>1, <1>2, <2>4, <2>6, <3>2, <3>3 DEF BlocksHeld
    <3>5. Next2(src, m.src, f, e, k)
      BY <2>4, <2>5, <3>1, <3>2, <3>4, ChunkNext
    <3> QED
      BY <1>c, <3>5
  <2>7. CASE src.block = "function_call"
    <3> DEFINE b == src.blocks
               t == [index |-> f[b].index, id |-> ~f[b].started, args |-> z]
               c == [NoChunk EXCEPT !.tool = t]
               g == [f EXCEPT ![b].started = TRUE]
    <3>0. b \in DOMAIN f /\ f \in [DOMAIN f -> ToolBlocks] /\ DOMAIN f \subseteq 0..b
      BY <1>2, <2>7 DEF BlocksHeld
    <3>1. e = Step(g, <<c>>)
      BY <1>b, <2>1, <2>5, <2>7, <3>0 DEF translate_event
    <3>2. f[b].index \in Nat /\ f[b].started \in BOOLEAN
      BY <3>0 DEF ToolBlocks
    <3>3. t \in ToolEntries /\ t.index = f[b].index /\ (t.id <=> ~f[b].started) /\ t # None
      <4>1. t \in ToolEntries /\ t.index = f[b].index /\ (t.id <=> ~f[b].started)
        BY <2>2, <3>2 DEF ToolEntries
      <4> QED
        BY <4>1, NoneIsNoEntry
    <3> HIDE DEF t
    <3>4. c \in Chunks /\ c.choices /\ c.tool = t /\ c.finish = None /\ c.reasoning = <<>>
      BY <3>3 DEF Chunks
    <3>6. /\ DOMAIN g = DOMAIN f /\ g \in [DOMAIN g -> ToolBlocks] /\ g[b].started /\ g[b].index = f[b].index
      BY <3>0, <3>2 DEF ToolBlocks
    <3> HIDE DEF c, g
    <3>7. /\ src.calls = 0 => f[b].index = k /\ ~f[b].started /\ Cardinality(DOMAIN f) = k + 1
          /\ src.calls # 0 => f[b].index < k /\ f[b].started /\ Cardinality(DOMAIN f) = k
      BY <1>2, <2>7 DEF BlocksHeld
    <3>8. IF t.id THEN t.index = k ELSE t.index < k
      BY <3>2, <3>3, <3>7
    <3>9. Grown(k, c) = (IF t.id THEN k + 1 ELSE k) /\ Grown(k, c) \in Nat
      BY <1>2, <3>3, <3>4 DEF Grown
    <3>10. g[b].index < Grown(k, c) /\ Cardinality(DOMAIN g) = Grown(k, c)
      BY <1>2, <3>2, <3>3, <3>6, <3>7, <3>9
    <3>11. BlocksHeld(g, s, Grown(k, c))
      <4>1. s.block = "function_call" /\ s.calls # 0 /\ s.blocks = b
        BY <2>4, <2>7
      <4> QED
        BY <3>0, <3>6, <3>9, <3>10, <4>1, Zenon DEF BlocksHeld
    <3>12. (c.tool # None => IF c.tool.id THEN c.tool.index = k ELSE c.tool.index < k) /\ (s.finished <=> c.finish # None)
      BY <1>1, <2>4, <3>4, <3>8
    <3>13. Next2(src, m.src, f, e, k)
      BY <2>4, <2>5, <3>1, <3>4, <3>11, <3>12, ChunkNext
    <3> QED
      BY <1>c, <3>13
  <2>8. CASE src.block = "reasoning"
    <3>1. m.src \in SrcStates /\ m.src.ended = src.ended /\ m.src.begun /\ m.src.late
      BY <2>4, <2>5, <2>8 DEF Like
    <3>2. Next2(src, m.src, f, e, k)
      BY <2>5, <3>1 DEF Next2
    <3> QED
      BY <1>c, <3>2
  <2> QED
    BY <2>2, <2>6, <2>7, <2>8
<1>7. ASSUME src.block # None, src.begun, src.calls > 0,
             m = Says([src EXCEPT !.block = None, !.blocks = @ + 1], [type |-> "block_stop", index |-> src.blocks])
      PROVE G
  <2> DEFINE y == [type |-> "block_stop", index |-> src.blocks]
             s == [src EXCEPT !.block = None, !.blocks = @ + 1]
  <2>1. y.type = "block_stop"
    OBVIOUS
  <2>2. /\ s \in SrcStates /\ s.block = None /\ s.blocks = src.blocks + 1 /\ s.ended = src.ended
        /\ s.finished = src.finished /\ s.begun
    <3>1. "message" \in BlockKinds
      BY DEF BlockKinds
    <3> QED
      BY <1>7, <3>1, BlockMoved
  <2> HIDE DEF y, s
  <2>3. Like(m.src, s) /\ x = y /\ m.src.n # 0
    BY <1>a, <1>7, <2>2, SaysIs, SaysCounts DEF y, s
  <2>4. e = Step(f, <<>>)
    BY <1>b, <2>1, <2>3 DEF translate_event
  <2>6. /\ f \in [DOMAIN f -> ToolBlocks] /\ DOMAIN f \subseteq 0..src.blocks /\ Cardinality(DOMAIN f) = k
    BY <1>0, <1>2, <1>7 DEF BlocksHeld
  <2>7. DOMAIN f \subseteq 0..s.blocks /\ DOMAIN f \subseteq 0..(s.blocks - 1) /\ s.block # "function_call"
    BY <1>0, <2>2, <2>6 DEF BlockKinds
  <2>8. BlocksHeld(f, s, k)
    BY <1>2, <2>6, <2>7, Zenon DEF BlocksHeld
  <2> QED
    BY <1>1, <1>c, <2>2, <2>3, <2>4, <2>8, QuietNext
<1>8. G
  <2>1. CASE src.n = 0
    BY <1>3, <2>1, Zenon DEF AnthropicItems
  <2>2. CASE src.n # 0 /\ src.block = None
    BY <1>1, <1>4, <1>5, <2>2, Zenon DEF AnthropicItems
  <2>3. CASE src.n # 0 /\ src.block # None
    <3>1. \/ m = Says([Said(src.block, <<src.block>>) EXCEPT !.calls = 1],
                      [type |-> "delta", index |-> src.blocks, kind |-> src.block, text |-> <<src.block>>])
          \/ /\ src.calls > 0
             /\ m = Says([src EXCEPT !.block = None, !.blocks = @ + 1], [type |-> "block_stop", index |-> src.blocks])
      BY <1>1, <2>3, Zenon DEF AnthropicItems
    <3> QED
      BY <1>6, <1>7, <2>3, <3>1, Zenon
  <2> QED
    BY <2>1, <2>2, <2>3
<1> QED
  BY <1>8, <1>a, <1>b, <1>c

(* What holds between the provider, the translators and the client d,      *)
(* on the routes from OpenAI and from Anthropic to the Responses API.      *)
FromOpenAIHeld(d, s, t) ==
    /\ Matches(d, t)
    /\ ~s.finished => /\ t.phase # 5 /\ Len(t.calls) = s.calls
                      /\ ~s.begun => t.phase <= 2

FromAnthropicHeld(d, s, f, t) ==
    /\ Matches(d, t)
    /\ s.finished => s.n # 0
    /\ s.n # 0 => s.begun
    /\ ~s.finished => t.phase # 5 /\ BlocksHeld(f, s, Len(t.calls))

LEMMA OpenAIKept ==
    ASSUME NEW d, NEW s, NEW t, NEW q, NEW c, FromOpenAIHeld(d, s, q), Next1(s, t, c), s \in SrcStates, ~t.late
    PROVE  LET r == transform_chunk(q, c) IN
           \E e : Runs(d, r.events, e) /\ FromOpenAIHeld(e, t, r.st)
<1>1. PICK r : r = transform_chunk(q, c)
  OBVIOUS
<1>2. /\ Matches(d, q) /\ c \in Chunks /\ q \in TrStates /\ q.phase \in 0..5 /\ Len(q.calls) \in Nat
      /\ t \in SrcStates
  BY MatchesType DEF FromOpenAIHeld, Next1
<1>3. /\ s.calls \in Nat /\ s.finished \in BOOLEAN /\ s.begun \in BOOLEAN
      /\ t.calls \in Nat /\ t.finished \in BOOLEAN /\ t.begun \in BOOLEAN
      /\ c.choices \in BOOLEAN /\ c.role \in BOOLEAN
  BY <1>2, SrcTypes, ChunkTypes
<1>4. CASE s.finished
  <2>1. ~c.choices /\ t.finished
    BY <1>4 DEF Next1
  <2>2. Advanced(d, q, c, r)
    BY <1>1, <1>2, <2>1, TransformFollows DEF Timely
  <2>3. Follows(d, r)
    BY <2>2 DEF Advanced
  <2>4. PICK e : Runs(d, r.events, e) /\ Matches(e, r.st)
    BY <2>3 DEF Follows
  <2>5. FromOpenAIHeld(e, t, r.st)
    BY <2>1, <2>4 DEF FromOpenAIHeld
  <2> QED
    BY <1>1, <2>4, <2>5
<1>5. CASE ~s.finished
  <2>1. /\ q.phase # 5 /\ Len(q.calls) = s.calls
        /\ ~s.begun => q.phase <= 2
    BY <1>5 DEF FromOpenAIHeld
  <2>2. /\ c.choices
        /\ c.tool # None => IF c.tool.id THEN c.tool.index = s.calls ELSE c.tool.index < s.calls
        /\ t.calls = s.calls + (IF c.tool # None /\ c.tool.id THEN 1 ELSE 0)
        /\ t.finished <=> c.finish # None
        /\ c.reasoning # <<>> => ~s.begun
        /\ ~t.begun =>
              /\ ~s.begun /\ c.text = <<>> /\ c.tool = None
              /\ c.role => c.reasoning # <<>>
    BY <1>5 DEF Next1
  <2>3. Timely(q, c)
    BY <2>1, <2>2 DEF Timely
  <2>4. Advanced(d, q, c, r)
    BY <1>1, <1>2, <2>3, TransformFollows
  <2>5. Follows(d, r)
    BY <2>4 DEF Advanced
  <2>6. PICK e : Runs(d, r.events, e) /\ Matches(e, r.st)
    BY <2>5 DEF Follows
  <2>7. CASE c.finish # None
    <3>1. FromOpenAIHeld(e, t, r.st)
      BY <2>2, <2>6, <2>7 DEF FromOpenAIHeld
    <3> QED
      BY <1>1, <2>6, <3>1
  <2>8. CASE c.finish = None
    <3>1. /\ r.st.phase # 5
          /\ Len(r.st.calls) = Len(q.calls) + (IF c.tool # None /\ c.tool.id THEN 1 ELSE 0)
          /\ (q.phase <= 2 /\ c.text = <<>> /\ c.tool = None /\ (c.role => c.reasoning # <<>>)) => r.st.phase <= 2
      BY <2>2, <2>4, <2>8 DEF Advanced
    <3>2. Len(r.st.calls) = t.calls
      BY <2>1, <2>2, <3>1
    <3>3. ~t.begun => r.st.phase <= 2
      BY <2>1, <2>2, <3>1
    <3>4. FromOpenAIHeld(e, t, r.st)
      BY <2>6, <3>1, <3>2, <3>3 DEF FromOpenAIHeld
    <3> QED
      BY <1>1, <2>6, <3>4
  <2> QED
    BY <2>7, <2>8
<1> QED
  BY <1>3, <1>4, <1>5

LEMMA AnthropicKept ==
    ASSUME NEW d, NEW s, NEW t, NEW q, NEW f, NEW e, FromAnthropicHeld(d, s, f, q), ~s.finished,
           Next2(s, t, f, e, Len(q.calls)), s \in SrcStates, ~t.late
    PROVE  LET r == Through(transform_chunk, q, e.events) IN
           \E g : Runs(d, r.events, g) /\ FromAnthropicHeld(g, t, e.st, r.st)
<1>1. PICK r : r = Through(transform_chunk, q, e.events)
  OBVIOUS
<1>2. Matches(d, q) /\ q.phase # 5 /\ BlocksHeld(f, s, Len(q.calls)) /\ Len(q.calls) \in Nat /\ t.n # 0 /\ t.begun
  BY DEF FromAnthropicHeld, BlocksHeld, Next2
<1>3. CASE e.events = <<>> /\ ~t.finished /\ BlocksHeld(e.st, t, Len(q.calls))
  <2>1. Follows(d, r) /\ r.st = q
    BY <1>1, <1>2, <1>3, NoChunks
  <2>2. PICK g : Runs(d, r.events, g) /\ Matches(g, r.st)
    BY <2>1 DEF Follows
  <2>3. FromAnthropicHeld(g, t, e.st, r.st)
    BY <1>2, <1>3, <2>1, <2>2 DEF FromAnthropicHeld
  <2> QED
    BY <1>1, <2>2, <2>3
<1>4. ASSUME NEW c \in Chunks, e.events = <<c>>, c.choices, c.reasoning = <<>>, t.finished <=> c.finish # None,
             c.tool # None => IF c.tool.id THEN c.tool.index = Len(q.calls) ELSE c.tool.index < Len(q.calls),
             ~t.finished => BlocksHeld(e.st, t, Grown(Len(q.calls), c))
      PROVE  \E g : Runs(d, r.events, g) /\ FromAnthropicHeld(g, t, e.st, r.st)
  <2>1. Timely(q, c)
    BY <1>2, <1>4 DEF Timely
  <2>2. Advanced(d, q, c, Through(transform_chunk, q, <<c>>))
    BY <1>2, <2>1, OneChunk
  <2>3. Advanced(d, q, c, r)
    BY <1>1, <1>4, <2>2
  <2>4. Follows(d, r)
    BY <2>3 DEF Advanced
  <2>5. PICK g : Runs(d, r.events, g) /\ Matches(g, r.st)
    BY <2>4 DEF Follows
  <2>6. ~t.finished => r.st.phase # 5 /\ BlocksHeld(e.st, t, Len(r.st.calls))
    <3>1. SUFFICES ASSUME ~t.finished PROVE r.st.phase # 5 /\ BlocksHeld(e.st, t, Len(r.st.calls))
      OBVIOUS
    <3>2. c.finish = None
      BY <1>4, <3>1
    <3>3. r.st.phase # 5 /\ Len(r.st.calls) = Grown(Len(q.calls), c)
      BY <1>2, <1>4, <2>3, <3>2 DEF Advanced, Grown
    <3> QED
      BY <1>4, <3>1, <3>3
  <2>7. FromAnthropicHeld(g, t, e.st, r.st)
    BY <1>2, <2>5, <2>6 DEF FromAnthropicHeld
  <2> QED
    BY <2>5, <2>7
<1>5. \/ e.events = <<>> /\ ~t.finished /\ BlocksHeld(e.st, t, Len(q.calls))
      \/ \E c \in Chunks :
            /\ e.events = <<c>> /\ c.choices /\ c.reasoning = <<>>
            /\ t.finished <=> c.finish # None
            /\ c.tool # None => IF c.tool.id THEN c.tool.index = Len(q.calls) ELSE c.tool.index < Len(q.calls)
            /\ ~t.finished => BlocksHeld(e.st, t, Grown(Len(q.calls), c))
  BY Zenon DEF Next2
<1>6. \E g : Runs(d, r.events, g) /\ FromAnthropicHeld(g, t, e.st, r.st)
  BY <1>1, <1>3, <1>4, <1>5, Zenon
<1> QED
  BY <1>1, <1>6

(* A client of the Messages API with n blocks, those of S open.            *)
OpenAt(n, S) == {it \in ItemLists(n) : \A i \in 0..(n - 1) : it[i].open <=> i \in S}

Leads(n, S, evs, m, T) ==
    \A it \in OpenAt(n, S) : \E jt \in OpenAt(m, T) : Runs(View("open", it), evs, View("open", jt))

LEMMA LeadsNowhere == ASSUME NEW n, NEW S PROVE Leads(n, S, <<>>, n, S)
BY NoEvents DEF Leads

LEMMA LeadsOn ==
    ASSUME NEW n, NEW S, NEW a, NEW m, NEW T, NEW b, NEW p, NEW U, Leads(n, S, a, m, T), Leads(m, T, b, p, U)
    PROVE  Leads(n, S, a \o b, p, U)
<1>1. SUFFICES ASSUME NEW it \in OpenAt(n, S)
               PROVE  \E kt \in OpenAt(p, U) : Runs(View("open", it), a \o b, View("open", kt))
  BY Zenon DEF Leads
<1>2. PICK jt \in OpenAt(m, T) : Runs(View("open", it), a, View("open", jt))
  BY Zenon DEF Leads
<1>3. PICK kt \in OpenAt(p, U) : Runs(View("open", jt), b, View("open", kt))
  BY Zenon DEF Leads
<1> QED
  BY <1>2, <1>3, RunsOn

LEMMA OpenAtIs ==
    ASSUME NEW n \in Nat, NEW S, NEW it \in OpenAt(n, S)
    PROVE  it \in ItemLists(n) /\ \A i \in 0..(n - 1) : it[i].open <=> i \in S
BY DEF OpenAt

LEMMA OpenIs == \A k, t, o : ItemOf(k, t, o).open = o
BY DEF ItemOf

LEMMA AddsAt ==
    ASSUME NEW n \in Nat, NEW S, NEW k \in Kinds
    PROVE  Leads(n, S, <<Added(n, k)>>, n + 1, S \cup {n})
<1>1. SUFFICES ASSUME NEW it \in OpenAt(n, S)
               PROVE  \E jt \in OpenAt(n + 1, S \cup {n}) : Runs(View("open", it), <<Added(n, k)>>, View("open", jt))
  BY Zenon DEF Leads
<1>2. it \in ItemLists(n) /\ \A i \in 0..(n - 1) : it[i].open <=> i \in S
  BY OpenAtIs
<1>3. PICK jt \in ItemLists(n + 1) :
          /\ Runs(View("open", it), <<Added(n, k)>>, View("open", jt))
          /\ jt[n] = ItemOf(k, <<>>, TRUE) /\ Same(it, jt, n, n)
  BY <1>2, ReadAdded
<1>4. \A i \in 0..((n + 1) - 1) : jt[i].open <=> i \in S \cup {n}
  <2>1. jt[n].open
    BY <1>3, OpenIs
  <2>2. \A i \in 0..(n - 1) : jt[i] = it[i]
    BY <1>3 DEF Same
  <2> QED
    BY <1>2, <2>1, <2>2
<1>5. jt \in OpenAt(n + 1, S \cup {n})
  BY <1>4, Zenon DEF OpenAt
<1> QED
  BY <1>3, <1>5

LEMMA GrowsAt ==
    ASSUME NEW n \in Nat, NEW S, NEW i \in 0..(n - 1), i \in S, NEW f \in Seq(Atoms)
    PROVE  Leads(n, S, <<Delta(i, f)>>, n, S)
<1>1. SUFFICES ASSUME NEW it \in OpenAt(n, S)
               PROVE  \E jt \in OpenAt(n, S) : Runs(View("open", it), <<Delta(i, f)>>, View("open", jt))
  BY Zenon DEF Leads
<1>2. it \in ItemLists(n) /\ \A j \in 0..(n - 1) : it[j].open <=> j \in S
  BY OpenAtIs
<1>3. it[i].open
  BY <1>2
<1>4. PICK jt \in ItemLists(n) :
          /\ Runs(View("open", it), <<Delta(i, f)>>, View("open", jt))
          /\ jt[i] = ItemOf(it[i].kind, it[i].text \o f, TRUE) /\ Same(it, jt, n, i)
  BY <1>2, <1>3, ReadDelta
<1>5. \A j \in 0..(n - 1) : jt[j].open <=> j \in S
  <2>1. jt[i].open
    BY <1>4, OpenIs
  <2>2. \A j \in 0..(n - 1) : j # i => jt[j] = it[j]
    BY <1>4 DEF Same
  <2> QED
    BY <1>2, <2>1, <2>2
<1>6. jt \in OpenAt(n, S)
  BY <1>5, Zenon DEF OpenAt
<1> QED
  BY <1>4, <1>6

LEMMA StopsAt ==
    ASSUME NEW n \in Nat, NEW S, NEW i \in 0..(n - 1), i \in S
    PROVE  Leads(n, S, <<Stop(i)>>, n, S \ {i})
<1>1. SUFFICES ASSUME NEW it \in OpenAt(n, S)
               PROVE  \E jt \in OpenAt(n, S \ {i}) : Runs(View("open", it), <<Stop(i)>>, View("open", jt))
  BY Zenon DEF Leads
<1>2. it \in ItemLists(n) /\ \A j \in 0..(n - 1) : it[j].open <=> j \in S
  BY OpenAtIs
<1>3. it[i].open
  BY <1>2
<1>4. PICK k \in {None, it[i].kind} : k = None
  OBVIOUS
<1>5. PICK jt \in ItemLists(n) :
          /\ Runs(View("open", it), <<ItemDone(i, k, None)>>, View("open", jt))
          /\ jt[i] = ItemOf(it[i].kind, IF None = None THEN it[i].text ELSE None, FALSE) /\ Same(it, jt, n, i)
  BY <1>2, <1>3, ReadDone
<1>6. \A j \in 0..(n - 1) : jt[j].open <=> j \in S \ {i}
  <2>1. ~jt[i].open
    BY <1>5, OpenIs
  <2>2. \A j \in 0..(n - 1) : j # i => jt[j] = it[j]
    BY <1>5 DEF Same
  <2> QED
    BY <1>2, <2>1, <2>2
<1>7. jt \in OpenAt(n, S \ {i})
  BY <1>6, Zenon DEF OpenAt
<1>8. Stop(i) = ItemDone(i, k, None)
  BY <1>4 DEF Stop
<1> QED
  BY <1>5, <1>7, <1>8

LEMMA EndsAt ==
    ASSUME NEW n \in Nat, NEW it \in OpenAt(n, {})
    PROVE  Runs(View("open", it), <<Event("message_delta"), Event("message_stop")>>, View("completed", it))
<1> DEFINE p == Event("message_delta")
           q == Event("message_stop")
<1>1. it \in ItemLists(n) /\ AllClosed(it, n)
  BY OpenAtIs DEF AllClosed
<1>2. Runs(View("open", it), <<q>>, View("completed", it))
  BY <1>1, ReadStop
<1>3. p.type = "message_delta"
  BY DEF Event
<1> HIDE DEF p, q
<1>4. Runs(View("open", it), <<p>>, View("open", it))
  BY <1>3, ReadOther
<1>5. Runs(View("open", it), <<p>> \o <<q>>, View("completed", it))
  BY <1>2, <1>4, RunsOn
<1> QED
  BY <1>5, TwoEvents DEF p, q
-----------------------------------------------------------------------------
(* All are closed, in any order.                                           *)
LEMMA OrdersAre ==
    ASSUME NEW n \in Nat, NEW S, S \subseteq 0..(n - 1), NEW order \in SetToSeqs(S)
    PROVE  /\ Len(order) \in Nat /\ DOMAIN order = 1..Len(order)
           /\ \A k \in 1..Len(order) : order[k] \in S
           /\ \A j, k \in 1..Len(order) : j # k => order[j] # order[k]
           /\ \A x \in S : \E k \in 1..Len(order) : order[k] = x
<1> DEFINE c == Cardinality(S)
           D == 1..c
<1>1. IsFiniteSet(S) /\ c \in Nat
  <2>1. IsFiniteSet(0..(n - 1))
    BY FS_Interval
  <2> QED
    BY <2>1, FS_Subset, FS_CardinalityType
<1>2. order \in [D -> S] /\ \A i, j \in D : i # j => order[i] # order[j]
  BY DEF SetToSeqs
<1>3. IsFiniteSet(D) /\ Cardinality(D) = c
  <2>1. IsFiniteSet(1..c) /\ Cardinality(1..c) = IF 1 > c THEN 0 ELSE c - 1 + 1
    BY <1>1, FS_Interval
  <2> QED
    BY <1>1, <2>1
<1>4. order \in Injection(D, S)
  BY <1>2 DEF Injection, IsInjective
<1> HIDE DEF D, c
<1>5. order \in Surjection(D, S)
  <2>1. Cardinality(D) = Cardinality(S)
    BY <1>3 DEF c
  <2> QED
    BY <1>1, <1>4, <2>1, FS_Injection
<1>6. \A x \in S : \E k \in D : order[k] = x
  BY <1>5 DEF Surjection
<1>7. order \in Seq(S) /\ Len(order) = c
  BY <1>1, <1>2 DEF D
<1> QED
  BY <1>1, <1>2, <1>6, <1>7 DEF D

LEMMA StopsAll ==
    ASSUME NEW n \in Nat, NEW S, S \subseteq 0..(n - 1), NEW order \in SetToSeqs(S)
    PROVE  Leads(n, S, [k \in 1..Len(order) |-> Stop(order[k])], n, {})
<1> DEFINE m == Len(order)
           F == [k \in 1..m |-> Stop(order[k])]
           T == {F[k] : k \in 1..m}
           R(k) == {x \in S : \A j \in 1..k : order[j] # x}
           V == [k \in 0..m |-> {View("open", jt) : jt \in OpenAt(n, R(k))}]
<1>1. /\ m \in Nat
      /\ \A k \in 1..m : order[k] \in S
      /\ \A j, k \in 1..m : j # k => order[j] # order[k]
      /\ \A x \in S : \E k \in 1..m : order[k] = x
  BY OrdersAre
<1>2. F \in Seq(T) /\ Len(F) = m
  BY <1>1, FunctionIsSeq
<1>3. SUFFICES ASSUME NEW it \in OpenAt(n, S)
               PROVE  \E jt \in OpenAt(n, {}) : Runs(View("open", it), F, View("open", jt))
  BY Zenon DEF Leads
<1>4. R(0) = S /\ R(m) = {}
  <2>1. \A j \in 1..0 : FALSE
    OBVIOUS
  <2>2. R(0) = S
    BY <2>1
  <2>3. ASSUME NEW x \in R(m) PROVE FALSE
    BY <1>1, <2>3, Zenon
  <2> QED
    BY <2>2, <2>3
<1>5. View("open", it) \in V[0]
  <2> HIDE DEF R
  <2>1. 0 \in 0..m
    BY <1>1
  <2> QED
    BY <1>4, <2>1
<1>6. ASSUME NEW k \in 1..m, NEW x \in V[k - 1] PROVE \E y \in V[k] : Runs(x, <<F[k]>>, y)
  <2>1. k - 1 \in 0..m /\ k \in 0..m
    BY <1>1
  <2>2. PICK jt \in OpenAt(n, R(k - 1)) : x = View("open", jt)
    BY <2>1
  <2>3. order[k] \in R(k - 1) /\ order[k] \in 0..(n - 1)
    <3>1. order[k] \in S
      BY <1>1
    <3>2. \A j \in 1..(k - 1) : j \in 1..m /\ j # k
      BY <1>1
    <3> QED
      BY <1>1, <3>1, <3>2
  <2>4. R(k) = R(k - 1) \ {order[k]}
    <3>1. \A j : j \in 1..k <=> j \in 1..(k - 1) \/ j = k
      BY <1>1
    <3> QED
      BY <3>1
  <2>5. F[k] = Stop(order[k])
    OBVIOUS
  <2> HIDE DEF R, F
  <2>6. Leads(n, R(k - 1), <<F[k]>>, n, R(k))
    BY <2>3, <2>4, <2>5, StopsAt
  <2>7. PICK kt \in OpenAt(n, R(k)) : Runs(View("open", jt), <<F[k]>>, View("open", kt))
    BY <2>6, Zenon DEF Leads
  <2>8. View("open", kt) \in V[k]
    BY <2>1
  <2> QED
    BY <2>2, <2>7, <2>8
<1> HIDE DEF F, T, V, m, R
<1>7. PICK y \in V[Len(F)] : Runs(View("open", it), F, y)
  BY <1>2, <1>5, <1>6, RunsThrough
<1>8. PICK jt \in OpenAt(n, R(m)) : y = View("open", jt)
  BY <1>1, <1>2 DEF V
<1> QED
  BY <1>4, <1>7, <1>8

(* OpenAIToAnthropicState: its tool blocks are open, and the text block    *)
(* if it says so.                                                          *)
Maps == UNION {[X -> Nat] : X \in SUBSET Nat}
BlockStates == [started : BOOLEAN, text_open : BOOLEAN, index : Nat, tools : Maps]

BlocksOk(st) == st \in BlockStates /\ Range(st.tools) \subseteq 0..(st.index - 1)
BlockCount(st) == st.index + (IF st.text_open THEN 1 ELSE 0)
OpenBlocks(st) == Range(st.tools) \cup (IF st.text_open THEN {st.index} ELSE {})

Moves(st, r) ==
    /\ BlocksOk(r.st) /\ r.st.started = st.started
    /\ Leads(BlockCount(st), OpenBlocks(st), r.events, BlockCount(r.st), OpenBlocks(r.st))

LEMMA MapPut ==
    ASSUME NEW f \in Maps, NEW x \in Nat, NEW v \in Nat
    PROVE  /\ x \notin DOMAIN f => Put(f, x, v) \in Maps /\ Range(Put(f, x, v)) = Range(f) \cup {v}
           /\ x \in DOMAIN f => f[x] \in Range(f)
<1>1. PICK X \in SUBSET Nat : f \in [X -> Nat]
  BY DEF Maps
<1>2. x \in DOMAIN f => f[x] \in Range(f)
  BY DEF Range
<1>3. ASSUME x \notin DOMAIN f PROVE Put(f, x, v) \in Maps /\ Range(Put(f, x, v)) = Range(f) \cup {v}
  <2>1. PICK g : g = Put(f, x, v)
    OBVIOUS
  <2>2. g = [y \in X \cup {x} |-> IF y = x THEN v ELSE f[y]]
    BY <1>1, <2>1 DEF Put
  <2>3. g \in [X \cup {x} -> Nat]
    BY <1>1, <2>2
  <2>4. g \in Maps
    BY <1>1, <2>3 DEF Maps
  <2>5. Range(g) = Range(f) \cup {v}
    <3>1. DOMAIN g = X \cup {x} /\ DOMAIN f = X /\ g[x] = v /\ \A y \in X : g[y] = f[y]
      BY <1>1, <1>3, <2>2
    <3> HIDE <2>2
    <3>2. Range(g) \subseteq Range(f) \cup {v}
      BY <3>1 DEF Range
    <3>3. Range(f) \cup {v} \subseteq Range(g)
      BY <3>1 DEF Range
    <3> QED
      BY <3>2, <3>3
  <2> QED
    BY <2>1, <2>4, <2>5
<1> QED
  BY <1>2, <1>3

LEMMA BlockTypes ==
    ASSUME NEW st \in BlockStates
    PROVE  /\ st.started \in BOOLEAN /\ st.text_open \in BOOLEAN /\ st.index \in Nat /\ st.tools \in Maps
           /\ BlockCount(st) \in Nat
<1>1. st.started \in BOOLEAN /\ st.text_open \in BOOLEAN /\ st.index \in Nat /\ st.tools \in Maps
  BY DEF BlockStates
<1> QED
  BY <1>1 DEF BlockCount

Begun(st) == [st EXCEPT !.started = TRUE]
TextBegun(st) == [st EXCEPT !.text_open = TRUE]
BlocksAt(st, n, f) == [st EXCEPT !.text_open = FALSE, !.index = n, !.tools = f]
ToolMoved(st, x, i) == BlocksAt(st, i + 1, Put(st.tools, x, i))

LEMMA BegunIs ==
    ASSUME NEW st \in BlockStates
    PROVE  /\ Begun(st) \in BlockStates /\ Begun(st).started /\ Begun(st).text_open = st.text_open
           /\ Begun(st).index = st.index /\ Begun(st).tools = st.tools
BY DEF BlockStates, Begun

LEMMA TextBegunIs ==
    ASSUME NEW st \in BlockStates
    PROVE  /\ TextBegun(st) \in BlockStates /\ TextBegun(st).text_open /\ TextBegun(st).started = st.started
           /\ TextBegun(st).index = st.index /\ TextBegun(st).tools = st.tools
BY DEF BlockStates, TextBegun

LEMMA BlocksMoved ==
    ASSUME NEW st \in BlockStates, NEW n \in Nat, NEW f \in Maps
    PROVE  LET g == BlocksAt(st, n, f) IN
           /\ g \in BlockStates /\ ~g.text_open /\ g.started = st.started /\ g.index = n /\ g.tools = f
BY DEF BlockStates, BlocksAt

LEMMA ToolMovedIs ==
    ASSUME NEW st \in BlockStates, NEW x \in Nat, NEW i \in Nat, x \notin DOMAIN st.tools
    PROVE  LET g == ToolMoved(st, x, i) IN
           /\ g \in BlockStates /\ ~g.text_open /\ g.started = st.started /\ g.index = i + 1
           /\ g.tools = Put(st.tools, x, i)
<1>1. PICK f : f = Put(st.tools, x, i)
  OBVIOUS
<1>2. PICK n : n = i + 1
  OBVIOUS
<1>3. f \in Maps /\ n \in Nat
  BY <1>1, <1>2, MapPut, BlockTypes
<1>4. ToolMoved(st, x, i) = BlocksAt(st, n, f)
  BY <1>1, <1>2 DEF ToolMoved
<1>5. PICK g : g = ToolMoved(st, x, i)
  OBVIOUS
<1>6. g \in BlockStates /\ ~g.text_open /\ g.started = st.started /\ g.index = n /\ g.tools = f
  BY <1>3, <1>4, <1>5, BlocksMoved
<1> QED
  BY <1>1, <1>2, <1>5, <1>6

LEMMA MovesNowhere == ASSUME NEW st, BlocksOk(st) PROVE Moves(st, Step(st, <<>>))
<1>1. Step(st, <<>>).st = st /\ Step(st, <<>>).events = <<>>
  BY StepIs
<1> QED
  BY <1>1, LeadsNowhere, Zenon DEF Moves

LEMMA MovesOn ==
    ASSUME NEW st, NEW r, NEW q, Moves(st, r), Moves(r.st, q)
    PROVE  Moves(st, Step(q.st, r.events \o q.events))
<1>1. PICK g : g = Step(q.st, r.events \o q.events)
  OBVIOUS
<1>2. g.st = q.st /\ g.events = r.events \o q.events
  BY <1>1, StepIs
<1>3. BlocksOk(g.st) /\ g.st.started = st.started
  BY <1>2 DEF Moves
<1>4. Leads(BlockCount(st), OpenBlocks(st), g.events, BlockCount(g.st), OpenBlocks(g.st))
  BY <1>2, LeadsOn DEF Moves
<1> QED
  BY <1>1, <1>3, <1>4, Zenon DEF Moves

LEMMA MovesIs ==
    ASSUME NEW st, NEW r, NEW g, NEW evs, r = Step(g, evs), BlocksOk(g), g.started = st.started,
           Leads(BlockCount(st), OpenBlocks(st), evs, BlockCount(g), OpenBlocks(g))
    PROVE  Moves(st, r)
<1>1. r.st = g /\ r.events = evs
  BY StepIs
<1> QED
  BY <1>1, Zenon DEF Moves

LEMMA TextMoves ==
    ASSUME NEW st, BlocksOk(st), NEW c, c.text \in Seq(Atoms)
    PROVE  Moves(st, TextToBlock(st, c)) /\ TextToBlock(st, c).st.tools = st.tools
<1>1. PICK r : r = TextToBlock(st, c)
  OBVIOUS
<1>2. /\ st \in BlockStates /\ st.text_open \in BOOLEAN /\ st.index \in Nat /\ Range(st.tools) \subseteq 0..(st.index - 1)
  BY BlockTypes DEF BlocksOk
<1>3. CASE c.text = <<>>
  <2>1. r = Step(st, <<>>)
    BY <1>1, <1>3 DEF TextToBlock
  <2>2. Moves(st, Step(st, <<>>)) /\ Step(st, <<>>).st = st
    BY MovesNowhere, StepIs
  <2> QED
    BY <1>1, <2>1, <2>2
<1>4. CASE c.text # <<>>
  <2>1. PICK g : g = TextBegun(st)
    OBVIOUS
  <2>2. PICK a : a = IF st.text_open THEN <<>> ELSE <<Added(st.index, "message")>>
    OBVIOUS
  <2>3. PICK b : b = <<Delta(st.index, c.text)>>
    OBVIOUS
  <2>4. r = Step(g, a \o b)
    BY <1>1, <1>4, <2>1, <2>2, <2>3 DEF TextToBlock, TextBegun
  <2>5. /\ g \in BlockStates /\ g.text_open /\ g.started = st.started /\ g.index = st.index /\ g.tools = st.tools
    BY <1>2, <2>1, TextBegunIs
  <2>6. BlocksOk(g)
    BY <1>2, <2>5 DEF BlocksOk
  <2>7. PICK n, S : n = st.index + 1 /\ S = Range(st.tools) \cup {st.index}
    OBVIOUS
  <2>8. BlockCount(g) = n /\ OpenBlocks(g) = S
    BY <2>5, <2>7 DEF BlockCount, OpenBlocks
  <2>9. Leads(BlockCount(st), OpenBlocks(st), a, n, S)
    <3>1. CASE st.text_open
      <4>1. BlockCount(st) = n /\ OpenBlocks(st) = S /\ a = <<>>
        BY <2>2, <2>7, <3>1 DEF BlockCount, OpenBlocks
      <4> QED
        BY <4>1, LeadsNowhere
    <3>2. CASE ~st.text_open
      <4>1. BlockCount(st) = st.index /\ OpenBlocks(st) = Range(st.tools) /\ a = <<Added(st.index, "message")>>
        BY <1>2, <2>2, <3>2 DEF BlockCount, OpenBlocks
      <4> QED
        BY <1>2, <2>7, <4>1, AddsAt, KindsAre
    <3> QED
      BY <1>2, <3>1, <3>2
  <2>10. Leads(n, S, b, n, S)
    <3>1. n \in Nat /\ st.index \in 0..(n - 1) /\ st.index \in S
      BY <1>2, <2>7
    <3> QED
      BY <2>3, <3>1, GrowsAt
  <2>11. Leads(BlockCount(st), OpenBlocks(st), a \o b, n, S)
    BY <2>9, <2>10, LeadsOn
  <2>12. Moves(st, r)
    BY <2>4, <2>5, <2>6, <2>8, <2>11, MovesIs
  <2>13. r.st = g
    BY <2>4, StepIs
  <2> QED
    BY <1>1, <2>5, <2>12, <2>13
<1> QED
  BY <1>3, <1>4

LEMMA ToolMoves ==
    ASSUME NEW st, BlocksOk(st), NEW c, c.tool # None, c.tool \in ToolEntries
    PROVE  Moves(st, ToolToBlock(st, c))
<1>1. PICK r : r = ToolToBlock(st, c)
  OBVIOUS
<1>2. /\ st \in BlockStates /\ st.text_open \in BOOLEAN /\ st.index \in Nat /\ Range(st.tools) \subseteq 0..(st.index - 1)
      /\ st.tools \in Maps
  BY BlockTypes DEF BlocksOk
<1>3. PICK x, w : x = c.tool.index /\ w = c.tool.args
  OBVIOUS
<1>4. x \in Nat /\ w \in Seq(Atoms)
  BY <1>3 DEF ToolEntries
<1>5. ASSUME NEW n \in Nat, NEW S, NEW i \in 0..(n - 1), i \in S
      PROVE  Leads(n, S, IF w = <<>> THEN <<>> ELSE <<Delta(i, w)>>, n, S)
  BY <1>4, <1>5, LeadsNowhere, GrowsAt
<1>6. CASE x \in DOMAIN st.tools
  <2>1. PICK i : i = st.tools[x]
    OBVIOUS
  <2>2. PICK b : b = IF w = <<>> THEN <<>> ELSE <<Delta(i, w)>>
    OBVIOUS
  <2>3. r = Step(st, <<>> \o b)
    BY <1>1, <1>3, <1>6, <2>1, <2>2 DEF ToolToBlock
  <2>4. i \in Range(st.tools)
    BY <1>2, <1>4, <1>6, <2>1, MapPut
  <2>5. PICK n, S : n = BlockCount(st) /\ S = OpenBlocks(st)
    OBVIOUS
  <2>6. n \in Nat /\ i \in 0..(n - 1) /\ i \in S
    BY <1>2, <2>4, <2>5 DEF BlockCount, OpenBlocks
  <2>7. Leads(n, S, b, n, S)
    BY <1>5, <2>2, <2>6
  <2>8. Leads(n, S, <<>> \o b, n, S)
    BY <2>7, LeadsNowhere, LeadsOn
  <2>9. Moves(st, r)
    BY <2>3, <2>5, <2>8, MovesIs
  <2> QED
    BY <1>1, <2>9
<1>7. CASE x \notin DOMAIN st.tools
  <2>1. PICK i : i = IF st.text_open THEN st.index + 1 ELSE st.index
    OBVIOUS
  <2>2. PICK a : a = IF st.text_open THEN <<Stop(st.index)>> ELSE <<>>
    OBVIOUS
  <2>3. PICK p : p = <<Added(i, "function_call")>>
    OBVIOUS
  <2>4. PICK b : b = IF w = <<>> THEN <<>> ELSE <<Delta(i, w)>>
    OBVIOUS
  <2>5. PICK g : g = ToolMoved(st, x, i)
    OBVIOUS
  <2>6. r = Step(g, (a \o p) \o b)
    BY <1>1, <1>3, <1>7, <2>1, <2>2, <2>3, <2>4, <2>5 DEF ToolToBlock, ToolMoved, BlocksAt
  <2>7. i \in Nat
    BY <1>2, <2>1
  <2>8. /\ g \in BlockStates /\ ~g.text_open /\ g.started = st.started /\ g.index = i + 1
        /\ g.tools = Put(st.tools, x, i)
    BY <1>2, <1>4, <1>7, <2>5, <2>7, ToolMovedIs
  <2>9. PICK T : T = Range(st.tools)
    OBVIOUS
  <2>10. Range(g.tools) = T \cup {i}
    BY <1>2, <1>4, <1>7, <2>7, <2>8, <2>9, MapPut
  <2>11. T \subseteq 0..(i - 1) /\ st.index \notin T
    BY <1>2, <2>1, <2>9
  <2>12. BlocksOk(g)
    BY <2>7, <2>8, <2>10, <2>11 DEF BlocksOk
  <2>13. BlockCount(g) = i + 1 /\ OpenBlocks(g) = T \cup {i}
    BY <2>7, <2>8, <2>10 DEF BlockCount, OpenBlocks
  <2>14. Leads(BlockCount(st), OpenBlocks(st), a, i, T)
    <3>1. CASE st.text_open
      <4>1. BlockCount(st) = i /\ OpenBlocks(st) = T \cup {st.index} /\ a = <<Stop(st.index)>>
        BY <2>1, <2>2, <2>9, <3>1 DEF BlockCount, OpenBlocks
      <4>2. st.index \in 0..(i - 1) /\ (T \cup {st.index}) \ {st.index} = T
        BY <1>2, <2>1, <2>11, <3>1
      <4> QED
        BY <2>7, <4>1, <4>2, StopsAt
    <3>2. CASE ~st.text_open
      <4>1. BlockCount(st) = i /\ OpenBlocks(st) = T /\ a = <<>>
        BY <1>2, <2>1, <2>2, <2>9, <3>2 DEF BlockCount, OpenBlocks
      <4> QED
        BY <4>1, LeadsNowhere
    <3> QED
      BY <1>2, <3>1, <3>2
  <2>15. Leads(i, T, p, i + 1, T \cup {i})
    BY <2>3, <2>7, AddsAt, KindsAre
  <2>16. Leads(i + 1, T \cup {i}, b, i + 1, T \cup {i})
    <3>1. i + 1 \in Nat /\ i \in 0..((i + 1) - 1) /\ i \in T \cup {i}
      BY <2>7
    <3> QED
      BY <1>5, <2>4, <3>1
  <2>17. Leads(BlockCount(st), OpenBlocks(st), a \o p, i + 1, T \cup {i})
    BY <2>14, <2>15, LeadsOn
  <2>18. Leads(BlockCount(st), OpenBlocks(st), (a \o p) \o b, i + 1, T \cup {i})
    BY <2>16, <2>17, LeadsOn
  <2>19. Moves(st, r)
    BY <2>6, <2>8, <2>12, <2>13, <2>18, MovesIs
  <2> QED
    BY <1>1, <2>19
<1> QED
  BY <1>6, <1>7

(* What holds on the route from OpenAI to the Messages API.                *)
FromOpenAIShown(d, s, t) ==
    /\ BlocksOk(t)
    /\ ~t.started => /\ ~s.finished /\ BlockCount(t) = 0 /\ OpenBlocks(t) = {}
                     /\ \E it \in OpenAt(0, {}) : d = View("none", it)
    /\ t.started /\ ~s.finished => \E it \in OpenAt(BlockCount(t), OpenBlocks(t)) : d = View("open", it)
    /\ s.finished => t.started /\ \E it : d = View("completed", it)

LEMMA BegunMoves ==
    ASSUME NEW st, BlocksOk(st)
    PROVE  /\ BlocksOk(Begun(st)) /\ Begun(st).started /\ Begun(st).tools = st.tools
           /\ BlockCount(Begun(st)) = BlockCount(st) /\ OpenBlocks(Begun(st)) = OpenBlocks(st)
<1>1. PICK g : g = Begun(st)
  OBVIOUS
<1>2. /\ g \in BlockStates /\ g.started /\ g.text_open = st.text_open
      /\ g.index = st.index /\ g.tools = st.tools
  BY <1>1, BegunIs DEF BlocksOk
<1>3. BlocksOk(g) /\ BlockCount(g) = BlockCount(st) /\ OpenBlocks(g) = OpenBlocks(st)
  BY <1>2, Zenon DEF BlocksOk, BlockCount, OpenBlocks
<1> QED
  BY <1>1, <1>2, <1>3

LEMMA AnswerStarts ==
    ASSUME NEW d, NEW s, NEW q, FromOpenAIShown(d, s, q), ~s.finished
    PROVE  \E it \in OpenAt(BlockCount(q), OpenBlocks(q)) :
             Runs(d, IF q.started THEN <<>> ELSE <<Event("message_start")>>, View("open", it))
<1>1. CASE q.started
  <2>1. PICK it \in OpenAt(BlockCount(q), OpenBlocks(q)) : d = View("open", it)
    BY <1>1 DEF FromOpenAIShown
  <2>2. Runs(d, <<>>, View("open", it))
    BY <2>1, NoEvents
  <2> QED
    BY <1>1, <2>2
<1>2. CASE ~q.started
  <2>1. BlockCount(q) = 0 /\ OpenBlocks(q) = {}
    BY <1>2 DEF FromOpenAIShown
  <2>2. PICK it \in OpenAt(0, {}) : d = View("none", it)
    BY <1>2 DEF FromOpenAIShown
  <2>3. PICK e : e = Event("message_start")
    OBVIOUS
  <2>4. e.type = "message_start" /\ it \in ItemLists(0)
    BY <2>3 DEF Event, OpenAt
  <2>5. Runs(View("none", it), <<e>>, View("open", it))
    BY <2>4, ReadStart
  <2> QED
    BY <1>2, <2>1, <2>2, <2>3, <2>5
<1> QED
  BY <1>1, <1>2

LEMMA FinishCloses ==
    ASSUME NEW st, BlocksOk(st), NEW c, c.finish # None, NEW order \in SetToSeqs(Range(st.tools)),
           NEW it \in OpenAt(BlockCount(st), OpenBlocks(st))
    PROVE  /\ FinishBlocks(st, c, order).st = st
           /\ \E jt : Runs(View("open", it), FinishBlocks(st, c, order).events, View("completed", jt))
<1>1. PICK z : z = FinishBlocks(st, c, order)
  OBVIOUS
<1>2. PICK a : a = IF st.text_open THEN <<Stop(st.index)>> ELSE <<>>
  OBVIOUS
<1>3. PICK b : b = [k \in 1..Len(order) |-> Stop(order[k])]
  OBVIOUS
<1>4. PICK p : p = <<Event("message_delta"), Event("message_stop")>>
  OBVIOUS
<1>5. z = Step(st, (a \o b) \o p)
  BY <1>1, <1>2, <1>3, <1>4 DEF FinishBlocks
<1>6. /\ st.text_open \in BOOLEAN /\ st.index \in Nat /\ Range(st.tools) \subseteq 0..(st.index - 1)
  BY BlockTypes DEF BlocksOk
<1>7. PICK n, S, T : n = BlockCount(st) /\ S = OpenBlocks(st) /\ T = Range(st.tools)
  OBVIOUS
<1>8. n \in Nat /\ T \subseteq 0..(n - 1)
  BY <1>6, <1>7 DEF BlockCount
<1>9. Leads(n, S, a, n, T)
  <2>1. CASE st.text_open
    <3>1. n = st.index + 1 /\ S = T \cup {st.index} /\ st.index \notin T
      BY <1>6, <1>7, <2>1 DEF BlockCount, OpenBlocks
    <3>2. st.index \in 0..(n - 1) /\ st.index \in S /\ S \ {st.index} = T
      BY <1>6, <3>1
    <3> QED
      BY <1>2, <1>8, <2>1, <3>2, StopsAt
  <2>2. CASE ~st.text_open
    <3>1. S = T /\ a = <<>>
      BY <1>2, <1>7, <2>2 DEF OpenBlocks
    <3> QED
      BY <3>1, LeadsNowhere
  <2> QED
    BY <1>6, <2>1, <2>2
<1>10. Leads(n, T, b, n, {})
  BY <1>3, <1>7, <1>8, StopsAll
<1>11. Leads(n, S, a \o b, n, {})
  BY <1>9, <1>10, LeadsOn
<1>12. PICK jt \in OpenAt(n, {}) : Runs(View("open", it), a \o b, View("open", jt))
  BY <1>7, <1>11, Zenon DEF Leads
<1>13. Runs(View("open", jt), p, View("completed", jt))
  BY <1>4, <1>8, EndsAt
<1>14. Runs(View("open", it), (a \o b) \o p, View("completed", jt))
  BY <1>12, <1>13, RunsOn
<1>15. z.st = st /\ z.events = (a \o b) \o p
  BY <1>5, StepIs
<1> QED
  BY <1>1, <1>14, <1>15

Stages(q, c, m, u, v) ==
    /\ m = MessageStart(q)
    /\ u = Step(TextToBlock(m.st, c).st, m.events \o TextToBlock(m.st, c).events)
    /\ v = Step(ToolToBlock(u.st, c).st, u.events \o ToolToBlock(u.st, c).events)

LEMMA TranslateIs ==
    ASSUME NEW q, NEW c, NEW order, c.choices, NEW m, NEW u, NEW v, Stages(q, c, m, u, v)
    PROVE  translate_chunk(q, c, order)
             = Step(FinishBlocks(v.st, c, order).st, v.events \o FinishBlocks(v.st, c, order).events)
BY Zenon DEF translate_chunk, Then, Stages

LEMMA BlocksKept ==
    ASSUME NEW d, NEW s, NEW t, NEW q, NEW c, FromOpenAIShown(d, s, q), Next1(s, t, c), s \in SrcStates,
           NEW order \in BlockOrders(q)
    PROVE  LET r == translate_chunk(q, c, order) IN
           \E e : Runs(d, r.events, e) /\ FromOpenAIShown(e, t, r.st)
<1>1. PICK r : r = translate_chunk(q, c, order)
  OBVIOUS
<1>2. PICK g : g = Begun(q)
  OBVIOUS
<1>3. PICK a : a = IF q.started THEN <<>> ELSE <<Event("message_start")>>
  OBVIOUS
<1>4. MessageStart(q) = Step(g, a)
  BY <1>2, <1>3 DEF MessageStart, Begun
<1>5. /\ BlocksOk(q) /\ BlocksOk(g) /\ g.started /\ g.tools = q.tools
      /\ BlockCount(g) = BlockCount(q) /\ OpenBlocks(g) = OpenBlocks(q)
  BY <1>2, BegunMoves DEF FromOpenAIShown
<1>6. t \in SrcStates /\ t.finished \in BOOLEAN /\ s.finished \in BOOLEAN /\ c \in Chunks
  BY SrcTypes DEF Next1
<1>7. Step(g, a).st = g /\ Step(g, a).events = a
  BY StepIs
<1>8. CASE s.finished
  <2>1. ~c.choices /\ t.finished
    BY <1>8 DEF Next1
  <2>2. q.started /\ \E it : d = View("completed", it)
    BY <1>8 DEF FromOpenAIShown
  <2>3. PICK b : b = IF c.usage THEN <<Event("message_delta")>> ELSE <<>>
    OBVIOUS
  <2>4. r = Step(g, a \o b)
    <3>1. r = Step(Step(MessageStart(q).st, b).st, MessageStart(q).events \o Step(MessageStart(q).st, b).events)
      BY <1>1, <2>1, <2>3, Zenon DEF translate_chunk, Then
    <3>2. r = Step(Step(g, b).st, a \o Step(g, b).events)
      BY <1>4, <1>7, <3>1
    <3> QED
      BY <3>2, StepIs
  <2>5. Runs(d, a, d)
    BY <1>3, <2>2, NoEvents
  <2>6. Runs(d, b, d)
    <3>1. PICK e : e = Event("message_delta")
      OBVIOUS
    <3>2. e.type = "message_delta"
      BY <3>1 DEF Event
    <3>3. Runs(d, <<e>>, d)
      BY <3>2, ReadOther
    <3>4. Runs(d, <<>>, d)
      BY NoEvents
    <3> QED
      BY <2>3, <3>1, <3>3, <3>4
  <2>7. r.st = g /\ r.events = a \o b
    BY <2>4, StepIs
  <2>8. Runs(d, r.events, d)
    BY <2>5, <2>6, <2>7, RunsOn
  <2>9. FromOpenAIShown(d, t, r.st)
    BY <1>5, <2>1, <2>2, <2>7, Zenon DEF FromOpenAIShown
  <2> QED
    BY <1>1, <2>8, <2>9
<1>9. CASE ~s.finished
  <2>1. /\ c.choices
        /\ t.finished <=> c.finish # None
        /\ c.finish # None => c.tool = None
    BY <1>9 DEF Next1
  <2>2. c.text \in Seq(Atoms) /\ (c.tool = None \/ c.tool \in ToolEntries)
    BY <1>6, ChunkTypes
  <2>3. PICK x : x = TextToBlock(g, c)
    OBVIOUS
  <2>4. PICK y : y = ToolToBlock(x.st, c)
    OBVIOUS
  <2>5. PICK z : z = FinishBlocks(y.st, c, order)
    OBVIOUS
  <2>6. r = Step(z.st, ((a \o x.events) \o y.events) \o z.events)
    <3>1. PICK m : m = MessageStart(q)
      OBVIOUS
    <3>2. m.st = g /\ m.events = a
      BY <1>4, <1>7, <3>1
    <3>3. PICK u : u = Step(TextToBlock(m.st, c).st, m.events \o TextToBlock(m.st, c).events)
      OBVIOUS
    <3>4. u.st = x.st /\ u.events = a \o x.events
      BY <2>3, <3>2, <3>3, StepIs
    <3>5. PICK v : v = Step(ToolToBlock(u.st, c).st, u.events \o ToolToBlock(u.st, c).events)
      OBVIOUS
    <3>6. v.st = y.st /\ v.events = (a \o x.events) \o y.events
      <4>1. ToolToBlock(u.st, c) = y
        BY <2>4, <3>4
      <4>2. v = Step(y.st, u.events \o y.events)
        BY <3>5, <4>1
      <4>3. v.st = y.st /\ v.events = u.events \o y.events
        BY <4>2, StepIs, Zenon
      <4> QED
        BY <3>4, <4>3
    <3>7. r = Step(FinishBlocks(v.st, c, order).st, v.events \o FinishBlocks(v.st, c, order).events)
      <4>1. translate_chunk(q, c, order)
              = Step(FinishBlocks(v.st, c, order).st, v.events \o FinishBlocks(v.st, c, order).events)
        <5>1. Stages(q, c, m, u, v)
          BY <3>1, <3>3, <3>5, Zenon DEF Stages
        <5> QED
          BY <2>1, <5>1, TranslateIs
      <4> QED
        BY <1>1, <4>1
    <3> QED
      BY <2>5, <3>6, <3>7
  <2>7. PICK it \in OpenAt(BlockCount(g), OpenBlocks(g)) : Runs(d, a, View("open", it))
    BY <1>3, <1>5, <1>9, AnswerStarts
  <2>8. Moves(g, x) /\ x.st.tools = q.tools
    BY <1>5, <2>2, <2>3, TextMoves
  <2>9. BlocksOk(x.st) /\ x.st.started
    BY <1>5, <2>8 DEF Moves
  <2>10. Moves(x.st, y) /\ (c.tool = None => y.st = x.st)
    <3>1. CASE c.tool = None
      <4>1. y = Step(x.st, <<>>)
        BY <2>4, <3>1 DEF ToolToBlock
      <4> QED
        BY <2>9, <4>1, MovesNowhere, StepIs
    <3>2. CASE c.tool # None
      BY <2>2, <2>4, <2>9, <3>2, ToolMoves
    <3> QED
      BY <3>1, <3>2
  <2>11. BlocksOk(y.st) /\ y.st.started
    BY <2>9, <2>10 DEF Moves
  <2>12. PICK jt \in OpenAt(BlockCount(x.st), OpenBlocks(x.st)) : Runs(View("open", it), x.events, View("open", jt))
    BY <2>8, Zenon DEF Moves, Leads
  <2>13. PICK kt \in OpenAt(BlockCount(y.st), OpenBlocks(y.st)) : Runs(View("open", jt), y.events, View("open", kt))
    BY <2>10, Zenon DEF Moves, Leads
  <2>14. Runs(d, a \o x.events, View("open", jt))
    BY <2>7, <2>12, RunsOn
  <2>15. Runs(d, (a \o x.events) \o y.events, View("open", kt))
    BY <2>13, <2>14, RunsOn
  <2>16. r.st = z.st /\ r.events = ((a \o x.events) \o y.events) \o z.events
    BY <2>6, StepIs
  <2>17. CASE c.finish = None
    <3>1. z = Step(y.st, <<>>)
      BY <2>5, <2>17 DEF FinishBlocks
    <3>2. z.st = y.st /\ z.events = <<>>
      BY <3>1, StepIs
    <3>3. Runs(d, r.events, View("open", kt))
      BY <2>15, <2>16, <3>2, NoEvents, RunsOn
    <3>4. FromOpenAIShown(View("open", kt), t, r.st)
      BY <2>1, <2>11, <2>16, <2>17, <3>2, Zenon DEF FromOpenAIShown
    <3> QED
      BY <1>1, <3>3, <3>4
  <2>18. CASE c.finish # None
    <3>1. y.st.tools = q.tools
      BY <2>1, <2>8, <2>10, <2>18
    <3>2. order \in SetToSeqs(Range(y.st.tools))
      BY <3>1 DEF BlockOrders
    <3>3. z.st = y.st /\ \E lt : Runs(View("open", kt), z.events, View("completed", lt))
      BY <2>5, <2>11, <2>18, <3>2, FinishCloses
    <3>4. PICK lt : Runs(View("open", kt), z.events, View("completed", lt))
      BY <3>3
    <3>5. Runs(d, r.events, View("completed", lt))
      BY <2>15, <2>16, <3>4, RunsOn
    <3>6. FromOpenAIShown(View("completed", lt), t, r.st)
      BY <2>1, <2>11, <2>16, <2>18, <3>3, Zenon DEF FromOpenAIShown
    <3> QED
      BY <1>1, <3>5, <3>6
  <2> QED
    BY <2>17, <2>18
<1> QED
  BY <1>6, <1>8, <1>9

(* What parse_kiro_stream_with_thinking holds, and what it says.           *)
KiroTools == [id : {"u1", "u2"}, name : {"f"}, input : Seq(Atoms)]
KiroCalls == [id : {"u1", "u2"}, name : {"f"}, input : Seq(Atoms), truncated : BOOLEAN]
KiroParsers == [state : {"PreContent", "InThinking", "Streaming"}, initial : Seq(Atoms), thinking : Seq(Atoms)]
KiroAccumulators == [current : {None} \cup KiroTools, finalized : BOOLEAN]
KiroStates == [tp : KiroParsers, acc : KiroAccumulators]

SomeTexts == Seq(Atoms) \ {<<>>}
ThinkEvents == [type : {"thinking"}, text : SomeTexts]
TextEvents == [type : {"content"}, text : SomeTexts]
CallEvents == [type : {"tool_use"}, tool : KiroCalls]
UsageEvents == [type : {"usage"}]

LEMMA MinIs ==
    ASSUME NEW S \in SUBSET Nat, S # {}
    PROVE  Min(S) \in S
<1>1. \E x \in S : \A y \in S : x <= y
  BY LeastOf
<1>2. Min(S) = CHOOSE x \in S : \A y \in S : x <= y
  BY Zenon DEF Min
<1> QED
  BY <1>1, <1>2, Zenon

LEMMA FromIs ==
    ASSUME NEW s \in Seq(Atoms), NEW i \in 1..(Len(s) + 1)
    PROVE  From(s, i) \in Seq(Atoms)
<1>1. Len(s) \in Nat /\ 1 <= i /\ i <= Len(s) + 1 /\ i \in Nat
  OBVIOUS
<1> QED
  BY <1>1, PartOf DEF From

LEMMA TrimIs ==
    ASSUME NEW s \in Seq(Atoms)
    PROVE  TrimStart(s) \in Seq(Atoms)
<1>1. PICK S : S = {i \in 1..Len(s) : s[i] # "_"}
  OBVIOUS
<1>2. TrimStart(s) = IF S = {} THEN <<>> ELSE From(s, Min(S))
  BY <1>1, Zenon DEF TrimStart
<1>3. CASE S = {}
  BY <1>2, <1>3, SomeText
<1>4. CASE S # {}
  <2>0. PICK n \in Nat : n = Len(s)
    OBVIOUS
  <2>1. S \subseteq 1..n
    BY <1>1, <2>0, Zenon
  <2>2. Min(S) \in S
    <3>1. S \in SUBSET Nat
      BY <2>1
    <3> QED
      BY <1>4, <3>1, MinIs
  <2>3. Min(S) \in 1..(Len(s) + 1)
    <3>1. Min(S) \in 1..n
      BY <2>1, <2>2
    <3> QED
      BY <2>0, <3>1
  <2> QED
    BY <1>2, <1>4, <2>3, FromIs
<1> QED
  BY <1>3, <1>4

LEMMA AtIs ==
    ASSUME NEW s \in Seq(Atoms)
    PROVE  /\ At(s, CloseTag) \in Nat
           /\ At(s, CloseTag) > 0 => At(s, CloseTag) + 2 \in 1..(Len(s) + 1)
<1>1. Len(CloseTag) = 2
  BY DEF CloseTag
<1>2. PICK S : S = {i \in 1..(Len(s) - Len(CloseTag) + 1) : SubSeq(s, i, i + Len(CloseTag) - 1) = CloseTag}
  OBVIOUS
<1>3. At(s, CloseTag) = IF S = {} THEN 0 ELSE Min(S)
  BY <1>2, Zenon DEF At
<1>4. CASE S = {}
  BY <1>3, <1>4
<1>5. CASE S # {}
  <2>1. S \subseteq 1..(Len(s) - Len(CloseTag) + 1)
    BY <1>2
  <2>2. S \subseteq 1..(Len(s) - 1)
    BY <1>1, <2>1
  <2>3. S \in SUBSET Nat
    BY <2>2
  <2>4. Min(S) \in S
    BY <1>5, <2>3, MinIs
  <2>5. Min(S) \in 1..(Len(s) - 1)
    BY <2>2, <2>4
  <2> QED
    BY <1>3, <1>5, <2>5
<1> QED
  BY <1>4, <1>5

(* feed, and what it makes of the parser.                                  *)
Fed(tp, r) ==
    /\ r.tp \in KiroParsers /\ r.thinking \in Seq(Atoms) /\ r.regular \in Seq(Atoms)
    /\ r.thinking # <<>> => tp.state # "Streaming"
    /\ r.regular # <<>> => r.tp.state = "Streaming"
    /\ r.tp.state # "Streaming" => tp.state # "Streaming"

LEMMA FedIs ==
    ASSUME NEW tp, NEW q, NEW a, NEW b, q \in KiroParsers, a \in Seq(Atoms), b \in Seq(Atoms),
           a # <<>> => tp.state # "Streaming", b # <<>> => q.state = "Streaming",
           q.state # "Streaming" => tp.state # "Streaming"
    PROVE  Fed(tp, Parsed(q, a, b))
<1>1. PICK r : r = Parsed(q, a, b)
  OBVIOUS
<1>2. r.tp = q /\ r.thinking = a /\ r.regular = b
  BY <1>1 DEF Parsed
<1>3. Fed(tp, r)
  BY <1>2, Zenon DEF Fed
<1> QED
  BY <1>1, <1>3

ParserAt(s, i, t) == [state |-> s, initial |-> i, thinking |-> t]

LEMMA ParserIs ==
    ASSUME NEW tp \in KiroParsers
    PROVE  /\ tp.state \in {"PreContent", "InThinking", "Streaming"}
           /\ tp.initial \in Seq(Atoms) /\ tp.thinking \in Seq(Atoms)
           /\ tp = ParserAt(tp.state, tp.initial, tp.thinking)
BY DEF KiroParsers, ParserAt

LEMMA ParserAtIs ==
    ASSUME NEW s \in {"PreContent", "InThinking", "Streaming"}, NEW i \in Seq(Atoms), NEW t \in Seq(Atoms)
    PROVE  ParserAt(s, i, t) \in KiroParsers /\ ParserAt(s, i, t).state = s
BY DEF KiroParsers, ParserAt

LEMMA ParserMoved ==
    ASSUME NEW tp \in KiroParsers, NEW s \in {"PreContent", "InThinking", "Streaming"}, NEW t \in Seq(Atoms)
    PROVE  /\ [tp EXCEPT !.state = s, !.thinking = t] \in KiroParsers
           /\ [tp EXCEPT !.state = s, !.thinking = t].state = s
           /\ [tp EXCEPT !.state = s, !.initial = t] \in KiroParsers
           /\ [tp EXCEPT !.state = s, !.initial = t].state = s
<1>1. /\ [tp EXCEPT !.state = s, !.thinking = t] \in KiroParsers
      /\ [tp EXCEPT !.state = s, !.thinking = t].state = s
  BY DEF KiroParsers
<1>2. /\ [tp EXCEPT !.state = s, !.initial = t] \in KiroParsers
      /\ [tp EXCEPT !.state = s, !.initial = t].state = s
  BY DEF KiroParsers
<1> QED
  BY <1>1, <1>2

LEMMA ParserGrown ==
    ASSUME NEW tp \in KiroParsers, NEW t \in Seq(Atoms)
    PROVE  /\ [tp EXCEPT !.thinking = t] \in KiroParsers /\ [tp EXCEPT !.thinking = t].state = tp.state
           /\ [tp EXCEPT !.initial = t] \in KiroParsers /\ [tp EXCEPT !.initial = t].state = tp.state
BY DEF KiroParsers

LEMMA BufferFed ==
    ASSUME NEW tp \in KiroParsers, tp.state = "InThinking"
    PROVE  Fed(tp, process_thinking_buffer(tp))
<1> DEFINE i == At(tp.thinking, CloseTag)
           n == Len(tp.thinking)
           th == tp.thinking
<1>1. tp.thinking \in Seq(Atoms) /\ n \in Nat /\ MaxTagLength = 4 /\ Len(CloseTag) = 2
  BY ParserIs DEF MaxTagLength, OpenTag, CloseTag
<1>2. /\ i \in Nat
      /\ i > 0 => i + 2 \in 1..(n + 1)
  BY <1>1, AtIs
<1> HIDE DEF i, n
<1>3. CASE i > 0
  <2>1. i - 1 \in Nat /\ 1 <= (i - 1) + 1 /\ i - 1 <= n
    BY <1>1, <1>2, <1>3
  <2>2. SubSeq(tp.thinking, 1, i - 1) \in Seq(Atoms)
    BY <1>1, <2>1, PartOf DEF n
  <2>3. TrimStart(From(tp.thinking, i + 2)) \in Seq(Atoms)
    BY <1>1, <1>2, <1>3, FromIs, TrimIs DEF n
  <2>4. PICK q : q = [tp EXCEPT !.state = "Streaming", !.thinking = <<>>]
    OBVIOUS
  <2>5. q \in KiroParsers /\ q.state = "Streaming"
    BY <2>4, ParserMoved, SomeText
  <2>6. process_thinking_buffer(tp) = Parsed(q, SubSeq(tp.thinking, 1, i - 1), TrimStart(From(tp.thinking, i + Len(CloseTag))))
    BY <1>3, <2>4 DEF process_thinking_buffer, i
  <2>7. tp.state # "Streaming"
    OBVIOUS
  <2> QED
    BY <1>1, <2>2, <2>3, <2>5, <2>6, <2>7, FedIs
<1>4. CASE ~(i > 0) /\ n - MaxTagLength > 0
  <2>1. PICK k : k = n - MaxTagLength
    OBVIOUS
  <2>2. k \in Nat /\ k + 1 \in 1..(n + 1) /\ 1 <= k + 1 /\ k <= n /\ k > 0
    BY <1>1, <1>4, <2>1
  <2>3. SubSeq(tp.thinking, 1, k) \in Seq(Atoms) /\ From(tp.thinking, k + 1) \in Seq(Atoms)
    BY <1>1, <2>2, PartOf, FromIs DEF n
  <2>4. PICK q : q = [tp EXCEPT !.thinking = From(th, k + 1)]
    OBVIOUS
  <2>5. q \in KiroParsers /\ q.state = tp.state
    <3>1. PICK y \in Seq(Atoms) : y = From(th, k + 1)
      BY <2>3
    <3> QED
      BY <2>4, <3>1, ParserGrown
  <2>6. process_thinking_buffer(tp) = Parsed(q, SubSeq(tp.thinking, 1, k), <<>>)
    BY <1>4, <2>1, <2>2, <2>4 DEF process_thinking_buffer, i, n
  <2>7. tp.state # "Streaming"
    OBVIOUS
  <2> QED
    BY <2>3, <2>5, <2>6, <2>7, SomeText, FedIs
<1>5. CASE ~(i > 0) /\ ~(n - MaxTagLength > 0)
  <2>1. process_thinking_buffer(tp) = Parsed(tp, <<>>, <<>>)
    BY <1>5 DEF process_thinking_buffer, i, n
  <2> QED
    BY <2>1, SomeText, FedIs
<1> QED
  BY <1>3, <1>4, <1>5

LEMMA FedOn ==
    ASSUME NEW tp, NEW q, NEW r, Fed(q, r), q.state # "Streaming", tp.state # "Streaming"
    PROVE  Fed(tp, r)
BY Zenon DEF Fed

LEMMA FeedFed ==
    ASSUME NEW tp \in KiroParsers, NEW t \in Seq(Atoms)
    PROVE  Fed(tp, feed(tp, t))
<1>1. CASE t = <<>>
  <2>1. feed(tp, t) = Parsed(tp, <<>>, <<>>)
    BY <1>1 DEF feed
  <2> QED
    BY <2>1, SomeText, FedIs
<1>2. CASE t # <<>> /\ tp.state = "PreContent"
  <2>1. feed(tp, t) = handle_pre_content(tp, t)
    BY <1>2 DEF feed
  <2>2. PICK b : b = tp.initial \o t
    OBVIOUS
  <2>3. b \in Seq(Atoms)
    BY <2>2, ParserIs, Prefixed
  <2>4. PICK x : x = TrimStart(b)
    OBVIOUS
  <2>5. x \in Seq(Atoms)
    BY <2>3, <2>4, TrimIs
  <2>6. tp.state # "Streaming"
    BY <1>2
  <2>7. CASE IsPrefix(OpenTag, x)
    <3>1. Len(OpenTag) = 2
      BY DEF OpenTag
    <3>2. Len(OpenTag) <= Len(x)
      BY <2>7, Zenon DEF IsPrefix
    <3>3. Len(OpenTag) + 1 \in 1..(Len(x) + 1)
      BY <2>5, <3>1, <3>2
    <3>4. PICK q : q = ParserAt("InThinking", <<>>, From(x, Len(OpenTag) + 1))
      OBVIOUS
    <3>5. q \in KiroParsers /\ q.state = "InThinking"
      BY <2>5, <3>3, <3>4, SomeText, FromIs, ParserAtIs
    <3>6. handle_pre_content(tp, t) = process_thinking_buffer(q)
      BY <2>2, <2>4, <2>7, <3>4, Zenon DEF handle_pre_content, ParserAt
    <3>7. Fed(q, process_thinking_buffer(q))
      BY <3>5, BufferFed
    <3>8. q.state # "Streaming"
      BY <3>5
    <3> QED
      BY <2>1, <2>6, <3>6, <3>7, <3>8, FedOn
  <2>8. CASE ~IsPrefix(OpenTag, x) /\ IsPrefix(x, OpenTag)
    <3>1. PICK q : q = [tp EXCEPT !.initial = b]
      OBVIOUS
    <3>2. q \in KiroParsers /\ q.state = tp.state
      BY <2>3, <3>1, ParserGrown
    <3>3. handle_pre_content(tp, t) = Parsed(q, <<>>, <<>>)
      BY <2>2, <2>4, <2>8, <3>1, Zenon DEF handle_pre_content
    <3> QED
      BY <2>1, <2>6, <3>2, <3>3, SomeText, FedIs
  <2>9. CASE ~IsPrefix(OpenTag, x) /\ ~IsPrefix(x, OpenTag)
    <3>1. PICK q : q = [tp EXCEPT !.state = "Streaming", !.initial = <<>>]
      OBVIOUS
    <3>2. q \in KiroParsers /\ q.state = "Streaming"
      BY <3>1, ParserMoved, SomeText
    <3>3. handle_pre_content(tp, t) = Parsed(q, <<>>, b)
      BY <2>2, <2>4, <2>9, <3>1, Zenon DEF handle_pre_content
    <3> QED
      BY <2>1, <2>3, <2>6, <3>2, <3>3, SomeText, FedIs
  <2> QED
    BY <2>7, <2>8, <2>9
<1>3. CASE t # <<>> /\ tp.state = "InThinking"
  <2>1. PICK w : w = tp.thinking \o t
    OBVIOUS
  <2>2. w \in Seq(Atoms)
    BY <2>1, ParserIs, Prefixed
  <2>3. PICK q : q = [tp EXCEPT !.thinking = w]
    OBVIOUS
  <2>4. q \in KiroParsers /\ q.state = "InThinking"
    BY <1>3, <2>2, <2>3, ParserGrown
  <2>5. feed(tp, t) = process_thinking_buffer(q)
    BY <1>3, <2>1, <2>3 DEF feed
  <2>6. Fed(q, process_thinking_buffer(q))
    BY <2>4, BufferFed
  <2>7. q.state # "Streaming" /\ tp.state # "Streaming"
    BY <1>3, <2>4
  <2> QED
    BY <2>5, <2>6, <2>7, FedOn
<1>4. CASE t # <<>> /\ tp.state = "Streaming"
  <2>1. feed(tp, t) = Parsed(tp, <<>>, t)
    BY <1>4 DEF feed
  <2> QED
    BY <1>4, <2>1, SomeText, FedIs
<1> QED
  BY <1>1, <1>2, <1>3, <1>4, ParserIs

(* The accumulator of tool events.                                         *)
Toolish(e) ==
    /\ e.input \in Seq(Atoms) /\ e.stop \in BOOLEAN
    /\ e.name # None => e.name = "f" /\ e.id \in {"u1", "u2"}

Accumulated(r) == r.st \in KiroAccumulators /\ (r.events = <<>> \/ \E t \in KiroCalls : r.events = <<t>>)

LEMMA AccumulatedIs ==
    ASSUME NEW st \in KiroAccumulators, NEW evs, evs = <<>> \/ \E t \in KiroCalls : evs = <<t>>
    PROVE  Accumulated(Step(st, evs))
<1>1. PICK r : r = Step(st, evs)
  OBVIOUS
<1>2. r.st = st /\ r.events = evs
  BY <1>1, StepIs
<1>3. Accumulated(r)
  BY <1>2, Zenon DEF Accumulated
<1> QED
  BY <1>1, <1>3

LEMMA CompleteIs ==
    ASSUME NEW t \in KiroTools
    PROVE  Complete(t) \in KiroCalls
<1>1. PICK p \in BOOLEAN : p <=> t.input # <<>> /\ Last(t.input) = "z"
  OBVIOUS
<1>2. PICK q \in BOOLEAN : q <=> ~p /\ diagnose_json_truncation(t.input)
  OBVIOUS
<1>3. PICK w : w = IF p THEN t.input ELSE <<"{}">>
  OBVIOUS
<1>4. t.id \in {"u1", "u2"} /\ t.name \in {"f"} /\ t.input \in Seq(Atoms)
  BY DEF KiroTools
<1>5. w \in Seq(Atoms)
  BY <1>3, <1>4, SymbolsAre, OneSymbol
<1>6. Complete(t) = [id |-> t.id, name |-> t.name, input |-> w, truncated |-> q]
  <2>1. PICK a \in BOOLEAN : a <=> diagnose_json_truncation(t.input)
    BY DEF diagnose_json_truncation
  <2> QED
    BY <1>1, <1>2, <1>3, Zenon DEF Complete
<1> QED
  BY <1>4, <1>5, <1>6 DEF KiroCalls

Current(acc, c) == [acc EXCEPT !.current = c]

LEMMA CurrentIs ==
    ASSUME NEW acc \in KiroAccumulators, NEW c \in {None} \cup KiroTools
    PROVE  /\ Current(acc, c) \in KiroAccumulators /\ Current(acc, c).current = c
           /\ acc.current \in {None} \cup KiroTools /\ acc.finalized \in BOOLEAN
BY DEF KiroAccumulators, Current

LEMMA CurrentFinal ==
    ASSUME NEW acc \in KiroAccumulators
    PROVE  Accumulated(finalize_current(acc))
<1>1. PICK evs : evs = IF acc.current = None THEN <<>> ELSE <<Complete(acc.current)>>
  OBVIOUS
<1>2. PICK g : g = Current(acc, None)
  OBVIOUS
<1>3. finalize_current(acc) = Step(g, evs)
  BY <1>1, <1>2 DEF finalize_current, Current
<1>4. g \in KiroAccumulators /\ acc.current \in {None} \cup KiroTools
  BY <1>2, CurrentIs
<1>5. evs = <<>> \/ \E t \in KiroCalls : evs = <<t>>
  <2>1. CASE acc.current = None
    BY <1>1, <2>1
  <2>2. CASE acc.current # None
    <3>1. acc.current \in KiroTools
      BY <1>4, <2>2
    <3>2. Complete(acc.current) \in KiroCalls
      BY <3>1, CompleteIs
    <3> QED
      BY <1>1, <2>2, <3>2
  <2> QED
    BY <2>1, <2>2
<1> QED
  BY <1>3, <1>4, <1>5, AccumulatedIs

ToolGrownBy(t, w) == [t EXCEPT !.input = @ \o w]

LEMMA EventProcessed ==
    ASSUME NEW acc \in KiroAccumulators, NEW e, Toolish(e)
    PROVE  Accumulated(process_event(acc, e))
<1>1. e.input \in Seq(Atoms) /\ e.stop \in BOOLEAN /\ acc.current \in {None} \cup KiroTools
  BY CurrentIs DEF Toolish
<1>2. PICK same \in BOOLEAN : same <=> acc.current # None /\ e.id # None /\ acc.current.id = e.id
  OBVIOUS
<1>3. PICK grown : grown = IF acc.current = None THEN acc ELSE [acc EXCEPT !.current.input = @ \o e.input]
  OBVIOUS
<1>4. PICK begun : begun = [acc EXCEPT !.current = [id |-> e.id, name |-> e.name, input |-> e.input]]
  OBVIOUS
<1>5. process_event(acc, e) =
        IF e.name # None /\ ~same
        THEN IF e.stop THEN finalize_current(begun)
             ELSE Step(begun, finalize_current(acc).events)
        ELSE IF e.stop THEN finalize_current(grown) ELSE Step(grown, <<>>)
  BY <1>2, <1>3, <1>4 DEF process_event
<1>6. grown \in KiroAccumulators
  <2>1. CASE acc.current = None
    BY <1>3, <2>1
  <2>2. CASE acc.current # None
    <3>1. PICK t : t = acc.current
      OBVIOUS
    <3>2. t \in KiroTools
      BY <1>1, <2>2, <3>1
    <3>3. t.input \o e.input \in Seq(Atoms)
      BY <1>1, <3>2, Prefixed DEF KiroTools
    <3>4. ToolGrownBy(t, e.input) \in KiroTools
      BY <3>2, <3>3 DEF KiroTools, ToolGrownBy
    <3>5. grown = Current(acc, ToolGrownBy(t, e.input))
      BY <1>3, <2>2, <3>1 DEF Current, ToolGrownBy
    <3> QED
      BY <3>4, <3>5, CurrentIs
  <2> QED
    BY <2>1, <2>2
<1>7. CASE e.name # None /\ ~same
  <2>1. [id |-> e.id, name |-> e.name, input |-> e.input] \in KiroTools
    BY <1>1, <1>7 DEF Toolish, KiroTools
  <2>2. PICK t \in KiroTools : t = [id |-> e.id, name |-> e.name, input |-> e.input]
    BY <2>1
  <2>3. begun = Current(acc, t)
    BY <1>4, <2>2 DEF Current
  <2>4. begun \in KiroAccumulators
    BY <2>3, CurrentIs
  <2>5. CASE e.stop
    BY <1>5, <1>7, <2>4, <2>5, CurrentFinal
  <2>6. CASE ~e.stop
    <3>1. PICK evs : evs = finalize_current(acc).events
      OBVIOUS
    <3>2. evs = <<>> \/ \E u \in KiroCalls : evs = <<u>>
      BY <3>1, CurrentFinal DEF Accumulated
    <3>3. process_event(acc, e) = Step(begun, evs)
      BY <1>5, <1>7, <2>6, <3>1
    <3> QED
      BY <2>4, <3>2, <3>3, AccumulatedIs
  <2> QED
    BY <1>1, <2>5, <2>6
<1>8. CASE ~(e.name # None /\ ~same)
  <2>1. CASE e.stop
    BY <1>5, <1>6, <1>8, <2>1, CurrentFinal
  <2>2. CASE ~e.stop
    <3>1. process_event(acc, e) = Step(grown, <<>>)
      BY <1>5, <1>8, <2>2
    <3> QED
      BY <1>6, <3>1, AccumulatedIs
  <2> QED
    BY <1>1, <2>1, <2>2
<1> QED
  BY <1>7, <1>8

LEMMA ToolFinal ==
    ASSUME NEW acc \in KiroAccumulators
    PROVE  Accumulated(finalize_tool(acc))
<1>1. PICK g : g = [acc EXCEPT !.finalized = TRUE]
  OBVIOUS
<1>2. g \in KiroAccumulators
  BY <1>1 DEF KiroAccumulators
<1>3. finalize_tool(acc) = IF acc.finalized THEN Step(acc, <<>>) ELSE finalize_current(g)
  BY <1>1 DEF finalize_tool
<1>4. acc.finalized \in BOOLEAN
  BY DEF KiroAccumulators
<1>5. Accumulated(finalize_current(g)) /\ Accumulated(Step(acc, <<>>))
  BY <1>2, CurrentFinal, AccumulatedIs
<1> QED
  BY <1>3, <1>4, <1>5

-----------------------------------------------------------------------------
(* What one object of the Kiro stream becomes.                             *)
KiroSays(k, r) ==
    /\ r.st \in KiroStates
    /\ r.st.tp.state # "Streaming" => k.tp.state # "Streaming"
    /\ \/ r.events = <<>>
       \/ \E e \in ThinkEvents : r.events = <<e>> /\ k.tp.state # "Streaming"
       \/ \E e \in TextEvents : r.events = <<e>> /\ r.st.tp.state = "Streaming"
       \/ \E e \in ThinkEvents, f \in TextEvents :
            r.events = <<e, f>> /\ k.tp.state # "Streaming" /\ r.st.tp.state = "Streaming"
       \/ \E e \in CallEvents \cup UsageEvents : r.events = <<e>>

KiroWith(k, tp, acc) == [tp |-> tp, acc |-> acc]

LEMMA KiroIs ==
    ASSUME NEW k \in KiroStates, NEW tp \in KiroParsers, NEW acc \in KiroAccumulators
    PROVE  /\ k.tp \in KiroParsers /\ k.acc \in KiroAccumulators
           /\ [k EXCEPT !.tp = tp] \in KiroStates /\ [k EXCEPT !.tp = tp].tp = tp
           /\ [k EXCEPT !.acc = acc] \in KiroStates /\ [k EXCEPT !.acc = acc].tp = k.tp
BY DEF KiroStates

LEMMA TextIs ==
    ASSUME NEW y \in {"thinking", "content"}, NEW t \in Seq(Atoms)
    PROVE  /\ t = <<>> => Text(y, t) = <<>>
           /\ t # <<>> => \E e \in [type : {y}, text : SomeTexts] : Text(y, t) = <<e>>
<1>1. CASE t = <<>>
  BY <1>1 DEF Text
<1>2. CASE t # <<>>
  <2>1. Text(y, t) = <<[type |-> y, text |-> t]>>
    BY <1>2 DEF Text
  <2>2. [type |-> y, text |-> t] \in [type : {y}, text : SomeTexts]
    BY <1>2 DEF SomeTexts
  <2> QED
    BY <1>2, <2>1, <2>2
<1> QED
  BY <1>1, <1>2

LEMMA EmptyIs == ASSUME NEW a PROVE <<>> \o <<a>> = <<a>> /\ <<a>> \o <<>> = <<a>> /\ <<>> \o <<>> = <<>>
<1>1. <<a>> \in Seq({a}) /\ <<>> \in Seq({a})
  OBVIOUS
<1> QED
  BY <1>1

LEMMA ContentParsed ==
    ASSUME NEW k \in KiroStates, NEW e, e.text \in Seq(Atoms)
    PROVE  KiroSays(k, ParseContent(k, e))
<1>1. PICK r : r = feed(k.tp, e.text)
  OBVIOUS
<1>2. k.tp \in KiroParsers
  BY DEF KiroStates
<1>3. Fed(k.tp, r)
  BY <1>1, <1>2, FeedFed
<1>4. PICK g : g = [k EXCEPT !.tp = r.tp]
  OBVIOUS
<1>5. r.tp \in KiroParsers /\ r.thinking \in Seq(Atoms) /\ r.regular \in Seq(Atoms)
  BY <1>3 DEF Fed
<1>6. g \in KiroStates /\ g.tp = r.tp
  BY <1>4, <1>5 DEF KiroStates
<1>7. PICK a : a = Text("thinking", r.thinking)
  OBVIOUS
<1>8. PICK b : b = Text("content", r.regular)
  OBVIOUS
<1>9. PICK q : q = ParseContent(k, e)
  OBVIOUS
<1>10. q = Step(g, a \o b)
  BY <1>1, <1>4, <1>7, <1>8, <1>9 DEF ParseContent
<1>11. q.st = g /\ q.events = a \o b
  BY <1>10, StepIs
<1>12. q.st \in KiroStates /\ (q.st.tp.state # "Streaming" => k.tp.state # "Streaming")
  BY <1>3, <1>6, <1>11 DEF Fed
<1>13. /\ r.thinking = <<>> => a = <<>>
       /\ r.thinking # <<>> => \E x \in ThinkEvents : a = <<x>> /\ k.tp.state # "Streaming"
  BY <1>3, <1>5, <1>7, TextIs DEF Fed, ThinkEvents
<1>14. /\ r.regular = <<>> => b = <<>>
       /\ r.regular # <<>> => \E x \in TextEvents : b = <<x>> /\ q.st.tp.state = "Streaming"
  BY <1>3, <1>5, <1>6, <1>8, <1>11, TextIs DEF Fed, TextEvents
<1>15. CASE r.thinking = <<>> /\ r.regular = <<>>
  <2>1. q.events = <<>>
    BY <1>11, <1>13, <1>14, <1>15, EmptyIs
  <2> QED
    BY <1>9, <1>12, <2>1, Zenon DEF KiroSays
<1>16. CASE r.thinking # <<>> /\ r.regular = <<>>
  <2>1. PICK x \in ThinkEvents : a = <<x>> /\ k.tp.state # "Streaming"
    BY <1>13, <1>16
  <2>2. q.events = <<x>>
    BY <1>11, <1>14, <1>16, <2>1, EmptyIs
  <2> QED
    BY <1>9, <1>12, <2>1, <2>2, Zenon DEF KiroSays
<1>17. CASE r.thinking = <<>> /\ r.regular # <<>>
  <2>1. PICK x \in TextEvents : b = <<x>> /\ q.st.tp.state = "Streaming"
    BY <1>14, <1>17
  <2>2. q.events = <<x>>
    BY <1>11, <1>13, <1>17, <2>1, EmptyIs
  <2> QED
    BY <1>9, <1>12, <2>1, <2>2, Zenon DEF KiroSays
<1>18. CASE r.thinking # <<>> /\ r.regular # <<>>
  <2>1. PICK x \in ThinkEvents : a = <<x>> /\ k.tp.state # "Streaming"
    BY <1>13, <1>18
  <2>2. PICK y \in TextEvents : b = <<y>> /\ q.st.tp.state = "Streaming"
    BY <1>14, <1>18
  <2>3. q.events = <<x, y>>
    BY <1>11, <2>1, <2>2, TwoEvents
  <2> QED
    BY <1>9, <1>12, <2>1, <2>2, <2>3, Zenon DEF KiroSays
<1> QED
  BY <1>15, <1>16, <1>17, <1>18

LEMMA CallsAre ==
    ASSUME NEW evs, evs = <<>> \/ \E t \in KiroCalls : evs = <<t>>
    PROVE  Calls(evs) = <<>> \/ \E e \in CallEvents : Calls(evs) = <<e>>
<1>1. CASE evs = <<>>
  <2>1. Len(evs) = 0
    BY <1>1
  <2>2. Calls(evs) = [k \in 1..0 |-> [type |-> "tool_use", tool |-> evs[k]]]
    BY <2>1 DEF Calls
  <2>3. [k \in 1..0 |-> [type |-> "tool_use", tool |-> evs[k]]] = <<>>
    OBVIOUS
  <2> QED
    BY <2>2, <2>3
<1>2. ASSUME NEW t \in KiroCalls, evs = <<t>> PROVE \E e \in CallEvents : Calls(evs) = <<e>>
  <2>1. PICK e : e = [type |-> "tool_use", tool |-> t]
    OBVIOUS
  <2>2. e \in CallEvents
    BY <2>1 DEF CallEvents
  <2>3. Len(evs) = 1 /\ evs[1] = t
    BY <1>2
  <2>4. Calls(evs) = [k \in 1..1 |-> [type |-> "tool_use", tool |-> evs[k]]]
    BY <2>3 DEF Calls
  <2>5. \A k \in 1..1 : [type |-> "tool_use", tool |-> evs[k]] = e
    BY <2>1, <2>3
  <2>6. Calls(evs) = [k \in 1..1 |-> e]
    BY <2>4, <2>5
  <2>7. [k \in 1..1 |-> e] = <<e>>
    OBVIOUS
  <2> QED
    BY <2>2, <2>6, <2>7
<1> QED
  BY <1>1, <1>2

LEMMA SeqsOf ==
    ASSUME NEW S, NEW a \in S, NEW b \in S
    PROVE  /\ <<a, b>> \in Seq(S)
           /\ \A c \in S : <<a, b, c>> \in Seq(S) /\ \A d, e \in S : <<a, b, c, d, e>> \in Seq(S)
OBVIOUS

LEMMA ContentsAre == \A t \in Contents : t \in Seq(Atoms)
<1>1. /\ <<"o1">> \in Seq(Atoms) /\ <<"o2", "x">> \in Seq(Atoms) /\ <<"x">> \in Seq(Atoms)
      /\ <<"_">> \in Seq(Atoms)
  BY SymbolsAre, OneSymbol, SeqsOf
<1>2. /\ <<"x", "y", "c1">> \in Seq(Atoms) /\ <<"c2", "_", "y">> \in Seq(Atoms)
      /\ <<"o1", "o2", "x", "y", "x">> \in Seq(Atoms)
  BY SymbolsAre, SeqsOf
<1> QED
  BY <1>1, <1>2, Zenon DEF Contents

LEMMA ToolEventIs ==
    ASSUME NEW name, NEW id, NEW input \in Seq(Atoms), NEW stop \in BOOLEAN,
           name # None => name = "f" /\ id \in {"u1", "u2"}
    PROVE  Toolish(ToolEvent(name, id, input, stop)) /\ ToolEvent(name, id, input, stop).type = "tool"
<1>1. PICK e : e = ToolEvent(name, id, input, stop)
  OBVIOUS
<1>2. e.type = "tool" /\ e.name = name /\ e.id = id /\ e.input = input /\ e.stop = stop
  BY <1>1 DEF ToolEvent
<1>3. Toolish(e)
  BY <1>2 DEF Toolish
<1> QED
  BY <1>1, <1>2, <1>3

LEMMA ToolEventsAre == \A e \in ToolEvents : Toolish(e) /\ e.type = "tool"
<1>1. <<"a">> \in Seq(Atoms) /\ <<"e">> \in Seq(Atoms) /\ <<"z">> \in Seq(Atoms) /\ <<>> \in Seq(Atoms)
  BY SymbolsAre, SomeText, OneSymbol
<1>3. Toolish(ToolEvent(None, None, <<>>, TRUE)) /\ ToolEvent(None, None, <<>>, TRUE).type = "tool"
  BY <1>1, ToolEventIs
<1>4. Toolish(ToolEvent("f", "u1", <<>>, TRUE)) /\ ToolEvent("f", "u1", <<>>, TRUE).type = "tool"
  BY <1>1, ToolEventIs
<1>5. PICK I : I = {<<"a">>, <<"e">>, <<"z">>}
  OBVIOUS
<1>6. ASSUME NEW e \in [type : {"tool"}, name : {"f"}, id : {"u1", "u2"}, input : I, stop : {FALSE}]
      PROVE  Toolish(e) /\ e.type = "tool"
  <2>1. \A i \in I : i \in Seq(Atoms)
    BY <1>1, <1>5
  <2> QED
    BY <2>1 DEF Toolish
<1> QED
  BY <1>3, <1>4, <1>5, <1>6 DEF ToolEvents

LEMMA KiroStep ==
    ASSUME NEW k \in KiroStates, NEW g, g \in KiroStates, g.tp = k.tp, NEW evs,
           evs = <<>> \/ \E e \in CallEvents \cup UsageEvents : evs = <<e>>
    PROVE  KiroSays(k, Step(g, evs))
<1>1. PICK r : r = Step(g, evs)
  OBVIOUS
<1>2. r.st = g /\ r.events = evs
  BY <1>1, StepIs
<1>3. r.st.tp.state # "Streaming" => k.tp.state # "Streaming"
  BY <1>2
<1>4. KiroSays(k, r)
  BY <1>2, <1>3, Zenon DEF KiroSays
<1> QED
  BY <1>1, <1>4

LEMMA ToolParsed ==
    ASSUME NEW k \in KiroStates, NEW r, Accumulated(r)
    PROVE  KiroSays(k, Step([k EXCEPT !.acc = r.st], Calls(r.events)))
<1>1. PICK acc : acc = r.st
  OBVIOUS
<1>2. PICK evs : evs = r.events
  OBVIOUS
<1>3. acc \in KiroAccumulators /\ (evs = <<>> \/ \E t \in KiroCalls : evs = <<t>>)
  BY <1>1, <1>2, Zenon DEF Accumulated
<1>4. Calls(evs) = <<>> \/ \E e \in CallEvents : Calls(evs) = <<e>>
  BY <1>3, CallsAre
<1>5. PICK w : w = Calls(evs)
  OBVIOUS
<1>6. w = <<>> \/ \E e \in CallEvents \cup UsageEvents : w = <<e>>
  BY <1>4, <1>5
<1>7. PICK g : g = [k EXCEPT !.acc = acc]
  OBVIOUS
<1>8. g \in KiroStates /\ g.tp = k.tp
  BY <1>3, <1>7, KiroIs DEF KiroStates
<1> QED
  BY <1>1, <1>2, <1>5, <1>6, <1>7, <1>8, KiroStep

(* What the Kiro provider says next, and what it becomes.                  *)
Next3(s, t, k, r) == t \in SrcStates /\ t.ended = s.ended /\ t.late = s.late /\ KiroSays(k, r)

LEMMA KiroNext ==
    ASSUME src \in SrcStates, kiro \in KiroStates, NEW m \in KiroItems
    PROVE  Next3(src, m.src, kiro, parse_kiro_event(kiro, m.item))
<1>1. ASSUME NEW s \in SrcStates, s.ended = src.ended, s.late = src.late, NEW e, m = Says(s, e),
             KiroSays(kiro, parse_kiro_event(kiro, e))
      PROVE  Next3(src, m.src, kiro, parse_kiro_event(kiro, m.item))
  <2>1. Like(m.src, s) /\ m.item = e
    BY <1>1, SaysIs
  <2>2. m.src \in SrcStates /\ m.src.ended = src.ended /\ m.src.late = src.late
    BY <1>1, <2>1 DEF Like
  <2>3. KiroSays(kiro, parse_kiro_event(kiro, m.item))
    BY <1>1, <2>1
  <2> QED
    BY <2>2, <2>3, Zenon DEF Next3
<1>2. ASSUME NEW t \in Contents, m = Says(Said("message", t), [type |-> "content", text |-> t])
      PROVE  Next3(src, m.src, kiro, parse_kiro_event(kiro, m.item))
  <2>1. PICK e : e = [type |-> "content", text |-> t]
    OBVIOUS
  <2>2. e.type = "content" /\ e.text = t /\ t \in Seq(Atoms)
    BY <2>1, ContentsAre
  <2>3. parse_kiro_event(kiro, e) = ParseContent(kiro, e)
    BY <2>2 DEF parse_kiro_event
  <2>4. KiroSays(kiro, parse_kiro_event(kiro, e))
    BY <2>2, <2>3, ContentParsed
  <2>5. /\ Said("message", t) \in SrcStates /\ Said("message", t).ended = src.ended
        /\ Said("message", t).late = src.late
    <3>1. "message" \in Kinds /\ src.late \in BOOLEAN
      BY SrcTypes DEF Kinds
    <3>2. /\ Said("message", t) \in SrcStates /\ Said("message", t).ended = src.ended
          /\ Said("message", t).late = (src.late \/ ("message" = "reasoning" /\ src.begun))
      BY <2>2, <3>1, SaidIs
    <3> QED
      BY <3>1, <3>2
  <2> QED
    BY <1>1, <1>2, <2>1, <2>4, <2>5
<1>3. ASSUME NEW e \in ToolEvents, m = Says([src EXCEPT !.calls = 1], e)
      PROVE  Next3(src, m.src, kiro, parse_kiro_event(kiro, m.item))
  <2>1. Toolish(e) /\ e.type = "tool"
    BY ToolEventsAre
  <2>2. kiro.acc \in KiroAccumulators
    BY DEF KiroStates
  <2>3. PICK r : r = process_event(kiro.acc, e)
    OBVIOUS
  <2>4. Accumulated(r)
    BY <2>1, <2>2, <2>3, EventProcessed
  <2>5. parse_kiro_event(kiro, e) = Step([kiro EXCEPT !.acc = r.st], Calls(r.events))
    BY <2>1, <2>3 DEF parse_kiro_event
  <2>6. KiroSays(kiro, parse_kiro_event(kiro, e))
    BY <2>4, <2>5, ToolParsed
  <2>7. PICK s : s = [src EXCEPT !.calls = 1]
    OBVIOUS
  <2>8. s \in SrcStates /\ s.ended = src.ended /\ s.late = src.late
    BY <2>7 DEF SrcStates
  <2> QED
    BY <1>1, <1>3, <2>6, <2>7, <2>8
<1>4. CASE m = Says([src EXCEPT !.finished = TRUE], [type |-> "usage"])
  <2>1. PICK e : e = [type |-> "usage"]
    OBVIOUS
  <2>2. e.type = "usage" /\ e \in UsageEvents
    BY <2>1 DEF UsageEvents
  <2>3. PICK evs : evs = <<e>>
    OBVIOUS
  <2>4. parse_kiro_event(kiro, e) = Step(kiro, evs)
    BY <2>1, <2>2, <2>3 DEF parse_kiro_event
  <2>5. KiroSays(kiro, parse_kiro_event(kiro, e))
    BY <2>2, <2>3, <2>4, KiroStep
  <2>6. PICK s : s = [src EXCEPT !.finished = TRUE]
    OBVIOUS
  <2>7. s \in SrcStates /\ s.ended = src.ended /\ s.late = src.late
    BY <2>6 DEF SrcStates
  <2> QED
    BY <1>1, <1>4, <2>1, <2>5, <2>6, <2>7
<1> QED
  BY <1>2, <1>3, <1>4 DEF KiroItems

LEMMA KiroLast ==
    ASSUME NEW k \in KiroStates
    PROVE  /\ KiroEnds(k).st \in KiroStates
           /\ KiroEnds(k).events = <<>> \/ \E e \in CallEvents : KiroEnds(k).events = <<e>>
<1>1. PICK r : r = finalize_tool(k.acc)
  OBVIOUS
<1>2. Accumulated(r)
  BY <1>1, ToolFinal DEF KiroStates
<1>3. PICK q : q = KiroEnds(k)
  OBVIOUS
<1>4. PICK evs : evs = r.events
  OBVIOUS
<1>5. PICK acc : acc = r.st
  OBVIOUS
<1>6. acc \in KiroAccumulators /\ (evs = <<>> \/ \E t \in KiroCalls : evs = <<t>>)
  BY <1>2, <1>4, <1>5, Zenon DEF Accumulated
<1>7. q = Step([k EXCEPT !.acc = acc], Calls(evs))
  BY <1>1, <1>3, <1>4, <1>5 DEF KiroEnds
<1>8. q.st = [k EXCEPT !.acc = acc] /\ q.events = Calls(evs)
  BY <1>7, StepIs
<1>9. [k EXCEPT !.acc = acc] \in KiroStates
  BY <1>6 DEF KiroStates
<1> QED
  BY <1>3, <1>6, <1>8, <1>9, CallsAre

(* What a formatter of Kiro events keeps.                                  *)
BlockLists == {<<>>, <<"message">>, <<"reasoning">>, <<"message", "reasoning">>, <<"reasoning", "message">>}
FormatStates ==
    [first : BOOLEAN, tools : Seq(KiroCalls), usage : BOOLEAN, text : Seq(Atoms), blocks : BlockLists]

KiroEvents == ThinkEvents \cup TextEvents \cup CallEvents \cup UsageEvents

LEMMA FormatIs ==
    ASSUME NEW f \in FormatStates
    PROVE  /\ f.first \in BOOLEAN /\ f.tools \in Seq(KiroCalls) /\ f.usage \in BOOLEAN /\ f.text \in Seq(Atoms)
           /\ f.blocks \in BlockLists
           /\ \A w \in Seq(KiroCalls) : [f EXCEPT !.tools = w] \in FormatStates /\ [f EXCEPT !.tools = w].blocks = f.blocks
           /\ \A w \in Seq(Atoms) : [f EXCEPT !.text = w] \in FormatStates /\ [f EXCEPT !.text = w].blocks = f.blocks
           /\ \A b \in BOOLEAN : [f EXCEPT !.usage = b] \in FormatStates /\ [f EXCEPT !.usage = b].blocks = f.blocks
           /\ \A b \in BOOLEAN : [f EXCEPT !.first = b] \in FormatStates
           /\ \A w \in BlockLists : [f EXCEPT !.blocks = w] \in FormatStates /\ [f EXCEPT !.blocks = w].blocks = w
<1>1. /\ f.first \in BOOLEAN /\ f.tools \in Seq(KiroCalls) /\ f.usage \in BOOLEAN /\ f.text \in Seq(Atoms)
      /\ f.blocks \in BlockLists
  BY DEF FormatStates
<1>2. \A w \in Seq(KiroCalls) : [f EXCEPT !.tools = w] \in FormatStates /\ [f EXCEPT !.tools = w].blocks = f.blocks
  BY DEF FormatStates
<1>3. \A w \in Seq(Atoms) : [f EXCEPT !.text = w] \in FormatStates /\ [f EXCEPT !.text = w].blocks = f.blocks
  BY DEF FormatStates
<1>4. \A b \in BOOLEAN : [f EXCEPT !.usage = b] \in FormatStates /\ [f EXCEPT !.usage = b].blocks = f.blocks
  BY DEF FormatStates
<1>5. \A b \in BOOLEAN : [f EXCEPT !.first = b] \in FormatStates
  BY DEF FormatStates
<1>6. \A w \in BlockLists : [f EXCEPT !.blocks = w] \in FormatStates /\ [f EXCEPT !.blocks = w].blocks = w
  BY DEF FormatStates
<1> QED
  BY <1>1, <1>2, <1>3, <1>4, <1>5, <1>6

LEMMA EventIs ==
    /\ \A e \in ThinkEvents : e.type = "thinking" /\ e.text \in Seq(Atoms) /\ e.text # <<>>
    /\ \A e \in TextEvents : e.type = "content" /\ e.text \in Seq(Atoms) /\ e.text # <<>>
    /\ \A e \in CallEvents : e.type = "tool_use" /\ e.tool \in KiroCalls
    /\ \A e \in UsageEvents : e.type = "usage"
<1>1. \A e \in ThinkEvents : e.type = "thinking" /\ e.text \in SomeTexts
  BY DEF ThinkEvents
<1>2. \A e \in TextEvents : e.type = "content" /\ e.text \in SomeTexts
  BY DEF TextEvents
<1>3. \A e \in CallEvents : e.type = "tool_use" /\ e.tool \in KiroCalls
  BY DEF CallEvents
<1>4. \A e \in UsageEvents : e.type = "usage"
  BY DEF UsageEvents
<1> QED
  BY <1>1, <1>2, <1>3, <1>4 DEF SomeTexts

LEMMA NotedIs ==
    ASSUME NEW f \in FormatStates, NEW e \in KiroEvents
    PROVE  Noted(f, e) \in FormatStates /\ Noted(f, e).blocks = f.blocks
<1>1. CASE e.type \in {"content", "thinking"} /\ e.text \in Seq(Atoms)
  <2>1. PICK w : w = f.text \o e.text
    OBVIOUS
  <2>2. w \in Seq(Atoms)
    BY <1>1, <2>1, FormatIs, Prefixed
  <2>3. Noted(f, e) = [f EXCEPT !.text = w]
    BY <1>1, <2>1 DEF Noted
  <2> QED
    BY <2>2, <2>3, FormatIs
<1>2. CASE e.type = "tool_use" /\ e.tool \in KiroCalls
  <2>1. PICK w : w = Append(f.tools, e.tool)
    OBVIOUS
  <2>2. w \in Seq(KiroCalls)
    BY <1>2, <2>1, FormatIs
  <2>3. Noted(f, e) = [f EXCEPT !.tools = w]
    BY <1>2, <2>1 DEF Noted
  <2> QED
    BY <2>2, <2>3, FormatIs
<1>3. CASE e.type = "usage"
  <2>1. Noted(f, e) = [f EXCEPT !.usage = TRUE]
    BY <1>3 DEF Noted
  <2> QED
    BY <2>1, FormatIs
<1> QED
  BY <1>1, <1>2, <1>3, EventIs DEF KiroEvents

-----------------------------------------------------------------------------
(* A translator run over none, one or two inputs.                          *)
LEMMA AlongNone ==
    ASSUME NEW w, NEW st, NEW u, Along(w, u, st, <<>>)
    PROVE  u[0] = Step(st, <<>>)
BY DEF Along

LEMMA AlongOne ==
    ASSUME NEW w, NEW st, NEW x, NEW u, Along(w, u, st, <<x>>), NEW q, q = Does(w, st, x), q.events = <<>> \o q.events
    PROVE  u[1].st = q.st /\ u[1].events = q.events
<1>1. PICK xs : xs = <<x>>
  OBVIOUS
<1>2. Len(xs) = 1 /\ xs[1] = x /\ 1 \in 1..1 /\ 1 - 1 = 0
  BY <1>1
<1>3. Along(w, u, st, xs)
  BY <1>1
<1>4. PICK a : a = u[0]
  OBVIOUS
<1>5. PICK b : b = u[1]
  OBVIOUS
<1>6. a = Step(st, <<>>) /\ b = Onto(w, a, x)
  BY <1>2, <1>3, <1>4, <1>5 DEF Along
<1>7. a.st = st /\ a.events = <<>>
  BY <1>6, StepIs
<1>8. b = Step(q.st, a.events \o q.events)
  BY <1>6, <1>7 DEF Onto
<1>9. b.st = q.st /\ b.events = a.events \o q.events
  BY <1>8, StepIs
<1> QED
  BY <1>5, <1>7, <1>9

Neutral(q) == q.events = <<>> \o q.events
Both(r, q, p) == r.st = p.st /\ r.events = q.events \o p.events

LEMMA AlongTwo ==
    ASSUME NEW w, NEW st, NEW x, NEW y, NEW u, Along(w, u, st, <<x, y>>),
           NEW q, q = Does(w, st, x), Neutral(q), NEW p, p = Does(w, q.st, y)
    PROVE  Both(u[2], q, p)
<1>1. PICK xs : xs = <<x, y>>
  OBVIOUS
<1>2. Len(xs) = 2 /\ xs[1] = x /\ xs[2] = y /\ 1 \in 1..2 /\ 1 - 1 = 0 /\ 2 \in 1..2 /\ 2 - 1 = 1
  BY <1>1
<1>3. Along(w, u, st, xs)
  BY <1>1
<1>4. PICK a : a = u[0]
  OBVIOUS
<1>5. PICK b : b = u[1]
  OBVIOUS
<1>6. PICK c : c = u[2]
  OBVIOUS
<1>7. a = Step(st, <<>>) /\ b = Onto(w, a, x) /\ c = Onto(w, b, y)
  BY <1>2, <1>3, <1>4, <1>5, <1>6 DEF Along
<1>8. a.st = st /\ a.events = <<>>
  BY <1>7, StepIs
<1>9. b = Step(q.st, a.events \o q.events)
  BY <1>7, <1>8 DEF Onto
<1>10. b.st = q.st /\ b.events = q.events
  BY <1>8, <1>9, StepIs DEF Neutral
<1>11. c = Step(p.st, b.events \o p.events)
  BY <1>7, <1>10 DEF Onto
<1>12. c.st = p.st /\ c.events = b.events \o p.events
  BY <1>11, StepIs
<1> QED
  BY <1>6, <1>10, <1>12 DEF Both

-----------------------------------------------------------------------------
(* Kiro events as chunks.                                                  *)
ThinkChunk(c) ==
    c \in Chunks /\ c.choices /\ c.tool = None /\ c.finish = None /\ c.text = <<>> /\ c.reasoning # <<>>
TextChunk(c) ==
    c \in Chunks /\ c.choices /\ c.tool = None /\ c.finish = None /\ c.reasoning = <<>>

ThinkMade(b, w) == [NoChunk EXCEPT !.role = b, !.reasoning = w]
TextMade(b, w) == [NoChunk EXCEPT !.role = b, !.text = w]

LEMMA ChunksMade ==
    ASSUME NEW b \in BOOLEAN, NEW w \in Seq(Atoms), w # <<>>
    PROVE  ThinkChunk(ThinkMade(b, w)) /\ TextChunk(TextMade(b, w))
<1>1. PICK c : c = ThinkMade(b, w)
  OBVIOUS
<1>2. c \in Chunks /\ c.choices /\ c.tool = None /\ c.finish = None /\ c.text = <<>> /\ c.reasoning = w
  BY <1>1, NoChunkIs DEF ThinkMade, Chunks
<1>3. PICK p : p = TextMade(b, w)
  OBVIOUS
<1>4. p \in Chunks /\ p.choices /\ p.tool = None /\ p.finish = None /\ p.reasoning = <<>>
  BY <1>3, NoChunkIs DEF TextMade, Chunks
<1> QED
  BY <1>1, <1>2, <1>3, <1>4 DEF ThinkChunk, TextChunk

ToOpenAI(f, e) ==
    /\ stream_kiro_to_openai(f, e).st \in FormatStates
    /\ e \in ThinkEvents => \E c : ThinkChunk(c) /\ stream_kiro_to_openai(f, e).events = <<c>>
    /\ e \in TextEvents => \E c : TextChunk(c) /\ stream_kiro_to_openai(f, e).events = <<c>>
    /\ e \in CallEvents \cup UsageEvents => stream_kiro_to_openai(f, e).events = <<>>

LEMMA OneToOpenAI ==
    ASSUME NEW f \in FormatStates, NEW e \in KiroEvents
    PROVE  ToOpenAI(f, e)
<1>1. PICK g : g = Noted(f, e)
  OBVIOUS
<1>2. g \in FormatStates
  BY <1>1, NotedIs
<1>3. PICK h : h = [g EXCEPT !.first = FALSE]
  OBVIOUS
<1>4. h \in FormatStates /\ f.first \in BOOLEAN
  BY <1>2, <1>3, FormatIs
<1>5. PICK q : q = stream_kiro_to_openai(f, e)
  OBVIOUS
<1>6. CASE e \in ThinkEvents
  <2>1. e.type = "thinking" /\ e.text \in Seq(Atoms) /\ e.text # <<>>
    BY <1>6, EventIs
  <2>2. PICK c : c = ThinkMade(f.first, e.text)
    OBVIOUS
  <2>3. q = Step(h, <<c>>)
    BY <1>1, <1>3, <1>5, <2>1, <2>2 DEF stream_kiro_to_openai, ThinkMade
  <2>4. ThinkChunk(c)
    BY <1>4, <2>1, <2>2, ChunksMade
  <2>5. q.st = h /\ q.events = <<c>>
    BY <2>3, StepIs
  <2>6. e \notin TextEvents /\ e \notin CallEvents \cup UsageEvents
    BY <2>1, EventIs
  <2> QED
    BY <1>4, <1>5, <2>4, <2>5, <2>6, Zenon DEF ToOpenAI
<1>7. CASE e \in TextEvents
  <2>1. e.type = "content" /\ e.text \in Seq(Atoms) /\ e.text # <<>>
    BY <1>7, EventIs
  <2>2. PICK c : c = TextMade(f.first, e.text)
    OBVIOUS
  <2>3. q = Step(h, <<c>>)
    BY <1>1, <1>3, <1>5, <2>1, <2>2 DEF stream_kiro_to_openai, TextMade
  <2>4. TextChunk(c)
    BY <1>4, <2>1, <2>2, ChunksMade
  <2>5. q.st = h /\ q.events = <<c>>
    BY <2>3, StepIs
  <2>6. e \notin ThinkEvents /\ e \notin CallEvents \cup UsageEvents
    BY <2>1, EventIs
  <2> QED
    BY <1>4, <1>5, <2>4, <2>5, <2>6, Zenon DEF ToOpenAI
<1>8. CASE e \in CallEvents \cup UsageEvents
  <2>1. e.type \in {"tool_use", "usage"}
    BY <1>8, EventIs
  <2>2. PICK n : n = <<>>
    OBVIOUS
  <2>3. q = Step(g, n)
    BY <1>1, <1>5, <2>1, <2>2 DEF stream_kiro_to_openai
  <2>4. q.st = g /\ q.events = n
    BY <2>3, StepIs
  <2>5. e \notin ThinkEvents /\ e \notin TextEvents
    BY <2>1, EventIs
  <2> QED
    BY <1>2, <1>5, <2>2, <2>4, <2>5, Zenon DEF ToOpenAI
<1> QED
  BY <1>6, <1>7, <1>8 DEF KiroEvents

(* What holds on the route from Kiro to the Responses API until the        *)
(* stream ends.                                                            *)
Free(q, m) == q.phase # 5 /\ Len(q.calls) = 0 /\ (m => q.phase <= 2)

Thinks(k) == k.tp.state # "Streaming"

KiroHeld(d, k, f, t) == Matches(d, t) /\ Free(t, Thinks(k)) /\ f \in FormatStates

LEMMA ThinkAdvances ==
    ASSUME NEW q \in TrStates, NEW c, ThinkChunk(c), Free(q, TRUE)
    PROVE  /\ Timely(q, c)
           /\ \A e, r : Advanced(e, q, c, r) => Free(r.st, TRUE)
<1>1. q.phase \in 0..5 /\ Len(q.calls) = 0 /\ q.phase <= 2 /\ q.phase # 5
  BY StateTypes DEF Free
<1>2. c.choices /\ c.tool = None /\ c.finish = None /\ c.text = <<>> /\ c.reasoning # <<>>
  BY DEF ThinkChunk
<1>3. Timely(q, c)
  BY <1>1, <1>2 DEF Timely
<1>4. ASSUME NEW e, NEW r, Advanced(e, q, c, r) PROVE Free(r.st, TRUE)
  <2>1. r.st.phase # 5 /\ Len(r.st.calls) = Len(q.calls) + 0 /\ r.st.phase <= 2
    BY <1>1, <1>2, <1>4 DEF Advanced
  <2> QED
    BY <1>1, <2>1 DEF Free
<1> QED
  BY <1>3, <1>4

LEMMA TextAdvances ==
    ASSUME NEW q \in TrStates, NEW c, TextChunk(c), NEW m, Free(q, m)
    PROVE  /\ Timely(q, c)
           /\ \A e, r : Advanced(e, q, c, r) => Free(r.st, FALSE)
<1>1. q.phase \in 0..5 /\ Len(q.calls) = 0 /\ q.phase # 5
  BY StateTypes DEF Free
<1>2. c.choices /\ c.tool = None /\ c.finish = None /\ c.reasoning = <<>>
  BY DEF TextChunk
<1>3. Timely(q, c)
  BY <1>1, <1>2 DEF Timely
<1>4. ASSUME NEW e, NEW r, Advanced(e, q, c, r) PROVE Free(r.st, FALSE)
  <2>1. r.st.phase # 5 /\ Len(r.st.calls) = Len(q.calls) + 0
    BY <1>1, <1>2, <1>4 DEF Advanced
  <2> QED
    BY <1>1, <2>1 DEF Free
<1> QED
  BY <1>3, <1>4

Moved(d, q, m, cs) ==
    LET r == Through(transform_chunk, q, cs) IN Follows(d, r) /\ Free(r.st, m)

LEMMA MovedNot ==
    ASSUME NEW d, NEW q, Matches(d, q), NEW m, Free(q, m)
    PROVE  Moved(d, q, m, <<>>)
<1>1. PICK r : r = Through(transform_chunk, q, <<>>)
  OBVIOUS
<1>2. Follows(d, r) /\ r.st = q
  BY <1>1, NoChunks
<1> QED
  BY <1>1, <1>2 DEF Moved

LEMMA MovedOnce ==
    ASSUME NEW d, NEW q, Matches(d, q), NEW c, NEW m, NEW k,
           \/ ThinkChunk(c) /\ Free(q, TRUE) /\ m = TRUE
           \/ TextChunk(c) /\ Free(q, k) /\ m = FALSE
    PROVE  Moved(d, q, m, <<c>>)
<1>1. PICK r : r = Through(transform_chunk, q, <<c>>)
  OBVIOUS
<1>2. q \in TrStates /\ c \in Chunks
  BY MatchesType DEF ThinkChunk, TextChunk
<1>3. Timely(q, c) /\ \A e, p : Advanced(e, q, c, p) => Free(p.st, m)
  BY <1>2, ThinkAdvances, TextAdvances
<1>4. Advanced(d, q, c, r)
  BY <1>1, <1>2, <1>3, OneChunk
<1>5. Follows(d, r) /\ Free(r.st, m)
  BY <1>3, <1>4 DEF Advanced
<1> QED
  BY <1>1, <1>5 DEF Moved

LEMMA AdvancedTypes ==
    ASSUME NEW d, NEW q, NEW c, NEW r, Advanced(d, q, c, r)
    PROVE  r.st \in TrStates
<1>1. PICK e : Matches(e, r.st)
  BY DEF Advanced, Follows
<1> QED
  BY <1>1, MatchesType

LEMMA MovedTwice ==
    ASSUME NEW d, NEW q, Matches(d, q), NEW c, ThinkChunk(c), NEW p, TextChunk(p), Free(q, TRUE)
    PROVE  Moved(d, q, FALSE, <<c, p>>)
<1>1. PICK cs : cs = <<c, p>>
  OBVIOUS
<1>2. c \in Chunks /\ p \in Chunks /\ q \in TrStates
  BY MatchesType DEF ThinkChunk, TextChunk
<1>3. cs \in Seq(Chunks) /\ Len(cs) = 2 /\ cs[1] = c /\ cs[2] = p
  BY <1>1, <1>2
<1>4. PICK r : r = Through(transform_chunk, q, cs)
  OBVIOUS
<1>a. PICK A : A = {x \in TrStates : Free(x, TRUE)}
  OBVIOUS
<1>b. PICK B : B = {x \in TrStates : Free(x, FALSE)}
  OBVIOUS
<1>5. PICK V : V = [k \in 0..2 |-> IF k = 2 THEN B ELSE A]
  OBVIOUS
<1>c. V[0] = A /\ V[1] = A /\ V[2] = B
  BY <1>5
<1>6. /\ V[0] = {x \in TrStates : Free(x, TRUE)} /\ V[1] = {x \in TrStates : Free(x, TRUE)}
      /\ V[2] = {x \in TrStates : Free(x, FALSE)}
  BY <1>a, <1>b, <1>c
<1>7. \A s \in V[0] : /\ s \in TrStates => Timely(s, c)
                      /\ \A e, x : Advanced(e, s, c, x) => x.st \in V[1]
  BY <1>6, ThinkAdvances, AdvancedTypes
<1>8. \A s \in V[1] : /\ s \in TrStates => Timely(s, p)
                      /\ \A e, x : Advanced(e, s, p, x) => x.st \in V[2]
  BY <1>6, TextAdvances, AdvancedTypes
<1>9. \A k \in 1..Len(cs) : \A s \in V[k - 1] :
         /\ s \in TrStates => Timely(s, cs[k])
         /\ \A e, x : Advanced(e, s, cs[k], x) => x.st \in V[k]
  <2>1. ASSUME NEW k \in 1..Len(cs), NEW s \in V[k - 1]
        PROVE  /\ s \in TrStates => Timely(s, cs[k])
               /\ \A e, x : Advanced(e, s, cs[k], x) => x.st \in V[k]
    <3>1. k = 1 \/ k = 2
      BY <1>3
    <3>2. CASE k = 1
      <4>1. k - 1 = 0
        BY <3>2
      <4>2. s \in V[0] /\ cs[k] = c /\ V[k] = V[1]
        BY <1>3, <3>2, <4>1
      <4> QED
        BY <1>7, <4>2
    <3>3. CASE k = 2
      <4>1. k - 1 = 1
        BY <3>3
      <4>2. s \in V[1] /\ cs[k] = p /\ V[k] = V[2]
        BY <1>3, <3>3, <4>1
      <4> QED
        BY <1>8, <4>2
    <3> QED
      BY <3>1, <3>2, <3>3
  <2> QED
    BY <2>1
<1>10. q \in V[0]
  BY <1>2, <1>6
<1>11. Follows(d, r) /\ r.st \in V[Len(cs)]
  BY <1>3, <1>4, <1>9, <1>10, ChunksFollow
<1>12. Free(r.st, FALSE)
  BY <1>3, <1>6, <1>11
<1> QED
  BY <1>1, <1>4, <1>11, <1>12 DEF Moved

-----------------------------------------------------------------------------
(* The chunks made of the events of one item.                              *)
ChunksOf(f, evs) == Through(stream_kiro_to_openai, f, evs)

LEMMA OpenAINone ==
    ASSUME NEW f
    PROVE  ChunksOf(f, <<>>).st = f /\ ChunksOf(f, <<>>).events = <<>>
<1>1. PICK xs : xs = <<>>
  OBVIOUS
<1>2. Len(xs) = 0 /\ 0 \in Nat
  BY <1>1
<1>3. PICK u : Along("openai", u, f, xs) /\ Through(stream_kiro_to_openai, f, xs) = u[0]
  BY <1>2, ThroughOpenAI
<1>4. u[0] = Step(f, <<>>)
  BY <1>3 DEF Along
<1>5. u[0].st = f /\ u[0].events = <<>>
  BY <1>4, StepIs
<1> QED
  BY <1>1, <1>3, <1>5 DEF ChunksOf

LEMMA OpenAIOne ==
    ASSUME NEW f, NEW e, NEW q, q = stream_kiro_to_openai(f, e), q.events = <<>> \o q.events
    PROVE  ChunksOf(f, <<e>>).st = q.st /\ ChunksOf(f, <<e>>).events = q.events
<1>1. PICK xs : xs = <<e>>
  OBVIOUS
<1>2. Len(xs) = 1 /\ 1 \in Nat
  BY <1>1
<1>3. PICK u : Along("openai", u, f, xs) /\ Through(stream_kiro_to_openai, f, xs) = u[1]
  BY <1>2, ThroughOpenAI
<1>4. q = Does("openai", f, e)
  BY DEF Does
<1>5. u[1].st = q.st /\ u[1].events = q.events
  BY <1>1, <1>3, <1>4, AlongOne
<1> QED
  BY <1>1, <1>3, <1>5 DEF ChunksOf

LEMMA OpenAITwo ==
    ASSUME NEW f, NEW e, NEW g, NEW q, q = stream_kiro_to_openai(f, e), Neutral(q),
           NEW p, p = stream_kiro_to_openai(q.st, g)
    PROVE  Both(ChunksOf(f, <<e, g>>), q, p)
<1>1. PICK xs : xs = <<e, g>>
  OBVIOUS
<1>2. Len(xs) = 2 /\ 2 \in Nat
  BY <1>1
<1>3. PICK u : Along("openai", u, f, xs) /\ Through(stream_kiro_to_openai, f, xs) = u[2]
  BY <1>2, ThroughOpenAI
<1>4. q = Does("openai", f, e) /\ p = Does("openai", q.st, g)
  BY DEF Does
<1>5. Along("openai", u, f, <<e, g>>)
  BY <1>1, <1>3
<1>6. Both(u[2], q, p)
  BY <1>4, <1>5, AlongTwo, Zenon
<1>7. u[2] = ChunksOf(f, <<e, g>>)
  BY <1>1, <1>3 DEF ChunksOf
<1> QED
  BY <1>6, <1>7

(* What they are, whatever the events.                                     *)
ChunksAre(k, r, f, g) ==
    /\ g.st \in FormatStates
    /\ \/ g.events = <<>> /\ (Thinks(r.st) => Thinks(k))
       \/ \E c : ThinkChunk(c) /\ g.events = <<c>> /\ Thinks(k)
       \/ \E c : TextChunk(c) /\ g.events = <<c>> /\ ~Thinks(r.st)
       \/ \E c, p : ThinkChunk(c) /\ TextChunk(p) /\ g.events = <<c, p>> /\ Thinks(k) /\ ~Thinks(r.st)

LEMMA KiroChunks ==
    ASSUME NEW k, NEW r, KiroSays(k, r), NEW f \in FormatStates
    PROVE  ChunksAre(k, r, f, ChunksOf(f, r.events))
<1>1. PICK g : g = ChunksOf(f, r.events)
  OBVIOUS
<1>2. Thinks(r.st) => Thinks(k)
  BY DEF KiroSays, Thinks
<1>3. CASE r.events = <<>>
  <2>1. g.st = f /\ g.events = <<>>
    BY <1>1, <1>3, OpenAINone
  <2> QED
    BY <1>1, <1>2, <2>1 DEF ChunksAre
<1>4. ASSUME NEW e \in KiroEvents, r.events = <<e>> PROVE g.st = stream_kiro_to_openai(f, e).st /\ g.events = stream_kiro_to_openai(f, e).events
  <2>1. PICK q : q = stream_kiro_to_openai(f, e)
    OBVIOUS
  <2>2. ToOpenAI(f, e)
    BY OneToOpenAI
  <2>3. q.events = <<>> \/ \E c : q.events = <<c>>
    BY <2>1, <2>2 DEF ToOpenAI, KiroEvents
  <2>4. q.events = <<>> \o q.events
    BY <2>3, EmptyIs
  <2> QED
    BY <1>1, <1>4, <2>1, <2>4, OpenAIOne
<1>5. ASSUME NEW e \in ThinkEvents, r.events = <<e>>, Thinks(k) PROVE ChunksAre(k, r, f, g)
  <2>1. e \in KiroEvents
    BY DEF KiroEvents
  <2>2. ToOpenAI(f, e)
    BY <2>1, OneToOpenAI
  <2>3. PICK c : ThinkChunk(c) /\ stream_kiro_to_openai(f, e).events = <<c>>
    BY <2>2 DEF ToOpenAI
  <2>4. g.st \in FormatStates /\ g.events = <<c>>
    BY <1>4, <1>5, <2>1, <2>2, <2>3 DEF ToOpenAI
  <2> QED
    BY <1>5, <2>3, <2>4, Zenon DEF ChunksAre
<1>6. ASSUME NEW e \in TextEvents, r.events = <<e>>, ~Thinks(r.st) PROVE ChunksAre(k, r, f, g)
  <2>1. e \in KiroEvents
    BY DEF KiroEvents
  <2>2. ToOpenAI(f, e)
    BY <2>1, OneToOpenAI
  <2>3. PICK c : TextChunk(c) /\ stream_kiro_to_openai(f, e).events = <<c>>
    BY <2>2 DEF ToOpenAI
  <2>4. g.st \in FormatStates /\ g.events = <<c>>
    BY <1>4, <1>6, <2>1, <2>2, <2>3 DEF ToOpenAI
  <2> QED
    BY <1>6, <2>3, <2>4, Zenon DEF ChunksAre
<1>7. ASSUME NEW e \in CallEvents \cup UsageEvents, r.events = <<e>> PROVE ChunksAre(k, r, f, g)
  <2>1. e \in KiroEvents
    BY DEF KiroEvents
  <2>2. ToOpenAI(f, e)
    BY <2>1, OneToOpenAI
  <2>3. g.st \in FormatStates /\ g.events = <<>>
    BY <1>4, <1>7, <2>1, <2>2 DEF ToOpenAI
  <2> QED
    BY <1>2, <2>3, Zenon DEF ChunksAre
<1>8. ASSUME NEW e \in ThinkEvents, NEW x \in TextEvents, r.events = <<e, x>>, Thinks(k), ~Thinks(r.st)
      PROVE  ChunksAre(k, r, f, g)
  <2>1. e \in KiroEvents /\ x \in KiroEvents
    BY DEF KiroEvents
  <2>2. PICK q : q = stream_kiro_to_openai(f, e)
    OBVIOUS
  <2>3. ToOpenAI(f, e)
    BY <2>1, OneToOpenAI
  <2>4. q.st \in FormatStates /\ \E c : ThinkChunk(c) /\ q.events = <<c>>
    BY <2>2, <2>3 DEF ToOpenAI
  <2>5. PICK c : ThinkChunk(c) /\ q.events = <<c>>
    BY <2>4
  <2>6. PICK y : y = stream_kiro_to_openai(q.st, x)
    OBVIOUS
  <2>7. ToOpenAI(q.st, x)
    BY <2>1, <2>4, OneToOpenAI
  <2>8. y.st \in FormatStates /\ \E p : TextChunk(p) /\ y.events = <<p>>
    BY <2>6, <2>7 DEF ToOpenAI
  <2>9. PICK p : TextChunk(p) /\ y.events = <<p>>
    BY <2>8
  <2>10. Neutral(q)
    BY <2>5, EmptyIs DEF Neutral
  <2>a. Both(ChunksOf(f, <<e, x>>), q, y)
    BY <2>2, <2>6, <2>10, OpenAITwo, Zenon
  <2>11. g.st = y.st /\ g.events = q.events \o y.events
    BY <1>1, <1>8, <2>a DEF Both
  <2>12. g.events = <<c, p>>
    BY <2>5, <2>9, <2>11, TwoEvents
  <2> QED
    BY <1>8, <2>5, <2>8, <2>9, <2>11, <2>12, Zenon DEF ChunksAre
<1> QED
  BY <1>1, <1>3, <1>5, <1>6, <1>7, <1>8 DEF KiroSays, Thinks

-----------------------------------------------------------------------------
(* Sequences made piece by piece.                                          *)
JoinUpto(n, B, f) == f = [i \in 0..n |-> IF i = 0 THEN <<>> ELSE f[i - 1] \o B[i]]

LEMMA JoinsUp ==
    ASSUME NEW T, NEW n \in Nat, NEW B, \A i \in 1..n : B[i] \in Seq(T)
    PROVE  \E f : JoinUpto(n, B, f)
<1>1. PICK S : S = Seq(T)
  OBVIOUS
<1>2. PICK step : step = [i \in 1..n |-> [s \in S |-> s \o B[i]]]
  OBVIOUS
<1>3. PICK first : first = <<>>
  OBVIOUS
<1>4. first \in S
  <2>1. <<>> \in Seq(T)
    OBVIOUS
  <2> QED
    BY <1>1, <1>3, <2>1
<1>5. \A i \in 1..n : \A s \in S : s \o B[i] \in S
  <2>1. ASSUME NEW i \in 1..n, NEW s \in Seq(T) PROVE s \o B[i] \in Seq(T)
    <3>1. B[i] \in Seq(T)
      OBVIOUS
    <3> QED
      BY <3>1, JoinIs
  <2> QED
    BY <1>1, <2>1
<1>6. step \in Steps(S, n)
  BY <1>2, <1>5 DEF Steps
<1>7. PICK f : Visits(f, S, first, step, n)
  BY <1>4, <1>6, Iterates
<1>8. f \in [0..n -> S] /\ f[0] = first /\ \A i \in 1..n : f[i] = step[i][f[i - 1]]
  BY <1>7 DEF Visits
<1>9. \A i \in 1..n : f[i] = f[i - 1] \o B[i]
  <2>1. ASSUME NEW i \in 1..n PROVE f[i] = f[i - 1] \o B[i]
    <3>1. i - 1 \in 0..n
      OBVIOUS
    <3>2. f[i - 1] \in S
      BY <1>8, <3>1
    <3>3. step[i] = [s \in S |-> s \o B[i]]
      BY <1>2
    <3>4. step[i][f[i - 1]] = f[i - 1] \o B[i]
      BY <3>2, <3>3
    <3> QED
      BY <1>8, <3>4
  <2> QED
    BY <2>1
<1>10. f = [i \in 0..n |-> f[i]]
  BY <1>8
<1>11. \A i \in 0..n : f[i] = IF i = 0 THEN <<>> ELSE f[i - 1] \o B[i]
  <2>1. \A i \in 0..n : i # 0 => i \in 1..n
    OBVIOUS
  <2> QED
    BY <1>3, <1>8, <1>9, <2>1
<1>12. f = [i \in 0..n |-> IF i = 0 THEN <<>> ELSE f[i - 1] \o B[i]]
  BY <1>10, <1>11
<1> QED
  BY <1>12 DEF JoinUpto

LEMMA JoinedIs ==
    ASSUME NEW T, NEW n \in Nat, NEW B, \A i \in 1..n : B[i] \in Seq(T), NEW f, JoinUpto(n, B, f)
    PROVE  f[n] \in Seq(T)
<1>1. PICK P : P = {m \in Nat : m <= n => f[m] \in Seq(T)}
  OBVIOUS
<1>2. f = [i \in 0..n |-> IF i = 0 THEN <<>> ELSE f[i - 1] \o B[i]]
  BY DEF JoinUpto
<1>3. f[0] = <<>>
  <2>1. 0 \in 0..n
    OBVIOUS
  <2> QED
    BY <1>2, <2>1
<1>4. \A i \in 1..n : f[i] = f[i - 1] \o B[i]
  <2>1. \A i \in 1..n : i \in 0..n /\ i # 0
    OBVIOUS
  <2> QED
    BY <1>2, <2>1
<1>5. 0 \in P
  <2>1. <<>> \in Seq(T)
    OBVIOUS
  <2> QED
    BY <1>1, <1>3, <2>1
<1>6. ASSUME NEW m \in Nat, m \in P PROVE m + 1 \in P
  <2>1. SUFFICES ASSUME m + 1 <= n PROVE f[m + 1] \in Seq(T)
    BY <1>1
  <2>2. m + 1 \in 1..n /\ (m + 1) - 1 = m /\ m <= n
    BY <2>1
  <2>3. f[m] \in Seq(T) /\ B[m + 1] \in Seq(T) /\ f[m + 1] = f[m] \o B[m + 1]
    BY <1>1, <1>4, <1>6, <2>2
  <2> QED
    BY <2>3, JoinIs
<1>7. n \in P
  BY <1>5, <1>6, Upwards
<1> QED
  BY <1>1, <1>7

-----------------------------------------------------------------------------
(* The calls without duplicates are calls.                                 *)
WithoutUpto(tools, f) ==
    f = [i \in 0..Len(tools) |->
           IF i = 0 THEN <<>>
           ELSE f[i - 1] \o (IF tools[i].id = None THEN <<tools[i]>> ELSE <<>>)]

LEMMA WithoutIs ==
    ASSUME NEW T, NEW tools \in Seq(T)
    PROVE  WithoutId(tools) \in Seq(T)
<1>1. PICK n \in Nat : n = Len(tools)
  OBVIOUS
<1>2. PICK B : B = [i \in 1..n |-> IF tools[i].id = None THEN <<tools[i]>> ELSE <<>>]
  OBVIOUS
<1>3. \A i \in 1..n : B[i] = IF tools[i].id = None THEN <<tools[i]>> ELSE <<>>
  BY <1>2
<1>4. \A i \in 1..n : B[i] \in Seq(T)
  <2>1. ASSUME NEW i \in 1..n PROVE B[i] \in Seq(T)
    <3>1. tools[i] \in T
      BY <1>1
    <3>2. <<tools[i]>> \in Seq(T) /\ <<>> \in Seq(T)
      BY <3>1
    <3> QED
      BY <1>3, <3>2
  <2> QED
    BY <2>1
<1>5. ASSUME NEW f PROVE WithoutUpto(tools, f) <=> JoinUpto(n, B, f)
  <2>1. [i \in 0..n |-> IF i = 0 THEN <<>>
                        ELSE f[i - 1] \o (IF tools[i].id = None THEN <<tools[i]>> ELSE <<>>)]
          = [i \in 0..n |-> IF i = 0 THEN <<>> ELSE f[i - 1] \o B[i]]
    <3>1. \A i \in 0..n : i # 0 => B[i] = IF tools[i].id = None THEN <<tools[i]>> ELSE <<>>
      BY <1>3
    <3> QED
      BY <3>1
  <2> QED
    BY <1>1, <2>1 DEF WithoutUpto, JoinUpto
<1>6. PICK g : g = CHOOSE f : WithoutUpto(tools, f)
  OBVIOUS
<1>7. \E f : WithoutUpto(tools, f)
  <2>1. PICK f : JoinUpto(n, B, f)
    BY <1>4, JoinsUp
  <2> QED
    BY <1>5, <2>1
<1>8. WithoutUpto(tools, g)
  BY <1>6, <1>7, Zenon
<1>9. WithoutId(tools) = g[Len(tools)]
  BY <1>6, Zenon DEF WithoutId, WithoutUpto
<1>10. g[n] \in Seq(T)
  BY <1>4, <1>5, <1>8, JoinedIs
<1> QED
  BY <1>1, <1>9, <1>10

(* The best call of an id is one of them and has that id.                  *)
BestFrom(tools, id, i, old) ==
    IF tools[i].id = id /\ (old = None \/ Better(tools[i], old)) THEN tools[i] ELSE old

BestUpto(tools, id, f) ==
    f = [i \in 0..Len(tools) |-> IF i = 0 THEN None ELSE BestFrom(tools, id, i, f[i - 1])]

LEMMA BestUptoIs ==
    ASSUME NEW T, NEW tools \in Seq(T), NEW id
    PROVE  \E f : BestUpto(tools, id, f)
<1>1. PICK n \in Nat : n = Len(tools)
  OBVIOUS
<1>2. PICK S : S = {None} \cup T
  OBVIOUS
<1>3. \A i \in 1..n : \A s \in S : BestFrom(tools, id, i, s) \in S
  <2>1. \A i \in 1..n : tools[i] \in S
    BY <1>1, <1>2
  <2> QED
    BY <2>1 DEF BestFrom
<1>4. PICK step : step = [i \in 1..n |-> [s \in S |-> BestFrom(tools, id, i, s)]]
  OBVIOUS
<1>5. step \in Steps(S, n)
  BY <1>3, <1>4 DEF Steps
<1>6. PICK f : Visits(f, S, None, step, n)
  BY <1>2, <1>5, Iterates
<1>7. f \in [0..n -> S] /\ f[0] = None /\ \A i \in 1..n : f[i] = step[i][f[i - 1]]
  BY <1>6 DEF Visits
<1>8. \A i \in 1..n : f[i] = BestFrom(tools, id, i, f[i - 1])
  <2>1. ASSUME NEW i \in 1..n PROVE f[i] = BestFrom(tools, id, i, f[i - 1])
    <3>1. i - 1 \in 0..n
      OBVIOUS
    <3>2. f[i - 1] \in S
      BY <1>7, <3>1
    <3>3. step[i] = [s \in S |-> BestFrom(tools, id, i, s)]
      BY <1>4
    <3> QED
      BY <1>7, <3>2, <3>3
  <2> QED
    BY <2>1
<1>9. \A i \in 0..n : f[i] = IF i = 0 THEN None ELSE BestFrom(tools, id, i, f[i - 1])
  <2>1. \A i \in 0..n : i # 0 => i \in 1..n
    OBVIOUS
  <2> QED
    BY <1>7, <1>8, <2>1
<1>10. f = [i \in 0..n |-> IF i = 0 THEN None ELSE BestFrom(tools, id, i, f[i - 1])]
  BY <1>7, <1>9
<1> QED
  BY <1>1, <1>10 DEF BestUpto

LEMMA BestHas ==
    ASSUME NEW T, NEW tools \in Seq(T), NEW id, \E i \in 1..Len(tools) : tools[i].id = id
    PROVE  BestOf(tools, id) \in T /\ BestOf(tools, id).id = id
<1>1. PICK n \in Nat : n = Len(tools)
  OBVIOUS
<1>2. PICK g : g = CHOOSE f : BestUpto(tools, id, f)
  OBVIOUS
<1>3. BestUpto(tools, id, g)
  BY <1>2, BestUptoIs, Zenon
<1>4. BestOf(tools, id) = g[Len(tools)]
  BY <1>2, Zenon DEF BestOf, BestUpto, BestFrom
<1>5. g = [i \in 0..n |-> IF i = 0 THEN None ELSE BestFrom(tools, id, i, g[i - 1])]
  BY <1>1, <1>3 DEF BestUpto
<1>6. g[0] = None
  <2>1. 0 \in 0..n
    OBVIOUS
  <2> QED
    BY <1>5, <2>1
<1>7. \A i \in 1..n : g[i] = BestFrom(tools, id, i, g[i - 1])
  <2>1. \A i \in 1..n : i \in 0..n /\ i # 0
    OBVIOUS
  <2> QED
    BY <1>5, <2>1
<1>8. PICK mine : mine = {t \in T : t.id = id}
  OBVIOUS
<1>9. PICK P : P = {m \in Nat : m <= n =>
                      /\ g[m] \in {None} \cup mine
                      /\ (\E i \in 1..m : tools[i].id = id) => g[m] \in mine}
  OBVIOUS
<1>10. 0 \in P
  <2>1. \A i \in 1..0 : FALSE
    OBVIOUS
  <2> QED
    BY <1>6, <1>9, <2>1
<1>11. ASSUME NEW m \in Nat, m \in P PROVE m + 1 \in P
  <2>1. SUFFICES ASSUME m + 1 <= n
                 PROVE  /\ g[m + 1] \in {None} \cup mine
                        /\ (\E i \in 1..(m + 1) : tools[i].id = id) => g[m + 1] \in mine
    BY <1>9
  <2>2. m + 1 \in 1..n /\ (m + 1) - 1 = m /\ m <= n
    BY <2>1
  <2>3. tools[m + 1].id = id => tools[m + 1] \in mine
    BY <1>1, <1>8, <2>2
  <2>4. /\ g[m] \in {None} \cup mine
        /\ (\E i \in 1..m : tools[i].id = id) => g[m] \in mine
    BY <1>9, <1>11, <2>2
  <2>5. g[m + 1] = BestFrom(tools, id, m + 1, g[m])
    BY <1>7, <2>2
  <2>6. (\E i \in 1..(m + 1) : tools[i].id = id) => (\E i \in 1..m : tools[i].id = id) \/ tools[m + 1].id = id
    <3>1. \A i \in 1..(m + 1) : i \in 1..m \/ i = m + 1
      OBVIOUS
    <3> QED
      BY <3>1
  <2> QED
    BY <2>3, <2>4, <2>5, <2>6 DEF BestFrom
<1>12. n \in P
  BY <1>10, <1>11, Upwards
<1>13. g[n] \in mine
  BY <1>1, <1>9, <1>12
<1> QED
  BY <1>1, <1>4, <1>8, <1>13

KeptUpto(all, f) ==
    f = [i \in 0..Len(all) |->
           IF i = 0 THEN <<>>
           ELSE f[i - 1] \o (IF \E k \in 1..(i - 1) : all[k].name = all[i].name /\ all[k].input = all[i].input
                             THEN <<>> ELSE <<all[i]>>)]

LEMMA KeptIs ==
    ASSUME NEW T, NEW all \in Seq(T), NEW g, g = CHOOSE f : KeptUpto(all, f)
    PROVE  g[Len(all)] \in Seq(T)
<1> DEFINE Twin(i) == \E k \in 1..(i - 1) : all[k].name = all[i].name /\ all[k].input = all[i].input
<1>1. PICK n \in Nat : n = Len(all)
  OBVIOUS
<1>2. PICK B : B = [i \in 1..n |-> IF Twin(i) THEN <<>> ELSE <<all[i]>>]
  OBVIOUS
<1>3. \A f : KeptUpto(all, f) <=>
               f = [i \in 0..n |-> IF i = 0 THEN <<>> ELSE f[i - 1] \o (IF Twin(i) THEN <<>> ELSE <<all[i]>>)]
  BY <1>1 DEF KeptUpto
<1> HIDE DEF Twin
<1>4. \A i \in 1..n : B[i] = IF Twin(i) THEN <<>> ELSE <<all[i]>>
  BY <1>2
<1>5. \A i \in 1..n : B[i] \in Seq(T)
  <2>1. ASSUME NEW i \in 1..n PROVE B[i] \in Seq(T)
    <3>1. all[i] \in T
      BY <1>1
    <3>2. <<all[i]>> \in Seq(T) /\ <<>> \in Seq(T)
      BY <3>1
    <3> QED
      BY <1>4, <3>2
  <2> QED
    BY <2>1
<1>6. ASSUME NEW f PROVE KeptUpto(all, f) <=> JoinUpto(n, B, f)
  <2>1. [i \in 0..n |-> IF i = 0 THEN <<>> ELSE f[i - 1] \o (IF Twin(i) THEN <<>> ELSE <<all[i]>>)]
          = [i \in 0..n |-> IF i = 0 THEN <<>> ELSE f[i - 1] \o B[i]]
    <3>1. \A i \in 0..n : i # 0 => B[i] = IF Twin(i) THEN <<>> ELSE <<all[i]>>
      BY <1>4
    <3> QED
      BY <3>1
  <2> QED
    BY <1>3, <2>1 DEF JoinUpto
<1>7. \E f : KeptUpto(all, f)
  <2>1. PICK f : JoinUpto(n, B, f)
    BY <1>5, JoinsUp
  <2> QED
    BY <1>6, <2>1
<1>8. KeptUpto(all, g)
  BY <1>7, Zenon
<1>9. g[n] \in Seq(T)
  BY <1>5, <1>6, <1>8, JoinedIs
<1> QED
  BY <1>1, <1>9

LEMMA DeduplicatedAre ==
    ASSUME NEW T, NEW tools \in Seq(T), NEW ids \in IdOrders(tools)
    PROVE  deduplicate_tool_calls(tools, ids) \in Seq(T)
<1>1. PICK n \in Nat : n = Len(tools)
  OBVIOUS
<1>2. PICK S : S = {t.id : t \in Range(tools)} \ {None}
  OBVIOUS
<1>3. ids \in SetToSeqs(S)
  BY <1>2 DEF IdOrders
<1>4. \A x \in S : \E i \in 1..n : tools[i].id = x
  <2>1. \A t \in Range(tools) : \E i \in 1..n : tools[i] = t
    BY <1>1 DEF Range
  <2> QED
    BY <1>2, <2>1
<1>5. PICK m : m = Cardinality(S)
  OBVIOUS
<1>6. m \in Nat
  <2>1. IsFiniteSet(1..n)
    BY FS_Interval
  <2>a. PICK F : F = [i \in 1..n |-> tools[i].id]
    OBVIOUS
  <2>b. PICK D : D = {F[i] : i \in 1..n}
    OBVIOUS
  <2>2. S \subseteq D
    <3>1. \A i \in 1..n : F[i] = tools[i].id
      BY <2>a
    <3> QED
      BY <1>4, <2>b, <3>1
  <2>3. IsFiniteSet(D)
    <3>1. F \in Surjection(1..n, D)
      BY <2>a, <2>b DEF Surjection
    <3> QED
      BY <2>1, <3>1, FS_Surjection
  <2> QED
    BY <1>5, <2>2, <2>3, FS_Subset, FS_CardinalityType
<1>7. ids \in [1..m -> S]
  BY <1>3, <1>5 DEF SetToSeqs
<1>8. Len(ids) = m /\ \A k \in 1..m : ids[k] \in S
  BY <1>6, <1>7
<1>9. PICK A : A = [k \in 1..Len(ids) |-> BestOf(tools, ids[k])]
  OBVIOUS
<1>10. A \in Seq(T)
  <2>1. \A k \in 1..m : BestOf(tools, ids[k]) \in T
    BY <1>1, <1>4, <1>8, BestHas
  <2>2. A \in [1..m -> T]
    BY <1>8, <1>9, <2>1
  <2> QED
    BY <1>6, <2>2
<1>11. PICK all : all = A \o WithoutId(tools)
  OBVIOUS
<1>12. all \in Seq(T)
  BY <1>10, <1>11, WithoutIs, JoinIs
<1>13. PICK g : g = CHOOSE f : KeptUpto(all, f)
  OBVIOUS
<1>14. deduplicate_tool_calls(tools, ids) = g[Len(all)]
  <2>1. deduplicate_tool_calls(tools, ids) =
          (CHOOSE f : KeptUpto([k \in 1..Len(ids) |-> BestOf(tools, ids[k])] \o WithoutId(tools), f))
             [Len([k \in 1..Len(ids) |-> BestOf(tools, ids[k])] \o WithoutId(tools))]
    BY Zenon DEF deduplicate_tool_calls, KeptUpto
  <2> QED
    BY <1>9, <1>11, <1>13, <2>1
<1>15. g[Len(all)] \in Seq(T)
  BY <1>12, <1>13, KeptIs
<1> QED
  BY <1>14, <1>15

LEMMA KiroKept ==
    ASSUME NEW d, NEW k, NEW r, NEW f, NEW t, KiroHeld(d, k, f, t), KiroSays(k, r)
    PROVE  LET g == ChunksOf(f, r.events)
               h == Through(transform_chunk, t, g.events)
           IN \E e : Runs(d, h.events, e) /\ KiroHeld(e, r.st, g.st, h.st)
<1>1. PICK g : g = ChunksOf(f, r.events)
  OBVIOUS
<1>2. PICK h : h = Through(transform_chunk, t, g.events)
  OBVIOUS
<1>3. Matches(d, t) /\ Free(t, Thinks(k)) /\ f \in FormatStates
  BY DEF KiroHeld
<1>4. ChunksAre(k, r, f, g)
  BY <1>1, <1>3, KiroChunks
<1>5. Moved(d, t, Thinks(r.st), g.events)
  <2>1. CASE g.events = <<>> /\ (Thinks(r.st) => Thinks(k))
    <3>1. Free(t, Thinks(r.st))
      BY <1>3, <2>1 DEF Free
    <3>2. Moved(d, t, Thinks(r.st), <<>>)
      BY <1>3, <3>1, MovedNot
    <3> QED
      BY <2>1, <3>2
  <2>2. ASSUME NEW c, ThinkChunk(c), g.events = <<c>>, Thinks(k) PROVE Moved(d, t, Thinks(r.st), g.events)
    <3>1. Free(t, TRUE)
      BY <1>3, <2>2 DEF Free
    <3>2. Moved(d, t, TRUE, <<c>>)
      BY <1>3, <2>2, <3>1, MovedOnce
    <3> QED
      BY <2>2, <3>2 DEF Moved, Free
  <2>3. ASSUME NEW c, TextChunk(c), g.events = <<c>>, ~Thinks(r.st) PROVE Moved(d, t, Thinks(r.st), g.events)
    <3>1. Moved(d, t, FALSE, <<c>>)
      BY <1>3, <2>3, MovedOnce
    <3> QED
      BY <2>3, <3>1 DEF Moved, Free
  <2>4. ASSUME NEW c, NEW p, ThinkChunk(c), TextChunk(p), g.events = <<c, p>>, Thinks(k), ~Thinks(r.st)
        PROVE  Moved(d, t, Thinks(r.st), g.events)
    <3>1. Free(t, TRUE)
      BY <1>3, <2>4 DEF Free
    <3>2. Moved(d, t, FALSE, <<c, p>>)
      BY <1>3, <2>4, <3>1, MovedTwice
    <3> QED
      BY <2>4, <3>2 DEF Moved, Free
  <2> QED
    BY <1>4, <2>1, <2>2, <2>3, <2>4 DEF ChunksAre
<1>6. Follows(d, h) /\ Free(h.st, Thinks(r.st))
  BY <1>2, <1>5 DEF Moved
<1>7. PICK e : Runs(d, h.events, e) /\ Matches(e, h.st)
  BY <1>6 DEF Follows
<1>8. KiroHeld(e, r.st, g.st, h.st)
  BY <1>4, <1>6, <1>7 DEF KiroHeld, ChunksAre
<1> QED
  BY <1>1, <1>2, <1>7, <1>8

-----------------------------------------------------------------------------
(* The last chunks: every call, whole, then the finish.                    *)
CallMade(i, w) == [NoChunk EXCEPT !.tool = [index |-> i, id |-> TRUE, args |-> w]]
LastMade(x, u) == [NoChunk EXCEPT !.finish = x, !.usage = u]

LEMMA CallMadeIs ==
    ASSUME NEW i \in Nat, NEW w \in Seq(Atoms)
    PROVE  /\ CallMade(i, w) \in Chunks /\ CallMade(i, w).choices /\ CallMade(i, w).reasoning = <<>>
           /\ CallMade(i, w).tool # None /\ CallMade(i, w).tool.id /\ CallMade(i, w).tool.index = i
           /\ CallMade(i, w).finish = None
<1>1. PICK x : x = [index |-> i, id |-> TRUE, args |-> w]
  OBVIOUS
<1>2. x \in ToolEntries /\ x.id /\ x.index = i
  BY <1>1 DEF ToolEntries
<1>3. x # None
  BY <1>2, NoneIsNoEntry
<1>4. PICK c : c = CallMade(i, w)
  OBVIOUS
<1>5. c = [NoChunk EXCEPT !.tool = x]
  BY <1>1, <1>4 DEF CallMade
<1>6. c \in Chunks /\ c.choices /\ c.reasoning = <<>> /\ c.tool = x /\ c.finish = None
  BY <1>2, <1>5, NoChunkIs DEF Chunks
<1> QED
  BY <1>2, <1>3, <1>4, <1>6

LEMMA LastMadeIs ==
    ASSUME NEW x \in {"stop", "tool_calls"}, NEW u \in BOOLEAN
    PROVE  /\ LastMade(x, u) \in Chunks /\ LastMade(x, u).choices /\ LastMade(x, u).reasoning = <<>>
           /\ LastMade(x, u).tool = None /\ LastMade(x, u).finish # None
<1>1. x # None /\ x \in Finishes
  BY StreamAssumption DEF Finishes
<1>2. PICK c : c = LastMade(x, u)
  OBVIOUS
<1>3. c \in Chunks /\ c.choices /\ c.reasoning = <<>> /\ c.tool = None /\ c.finish = x
  BY <1>1, <1>2, NoChunkIs DEF LastMade, Chunks
<1> QED
  BY <1>1, <1>2, <1>3

LEMMA CallAdvances ==
    ASSUME NEW i \in Nat, NEW w \in Seq(Atoms), NEW q \in TrStates, q.phase # 5, Len(q.calls) = i
    PROVE  /\ Timely(q, CallMade(i, w))
           /\ \A e, r : Advanced(e, q, CallMade(i, w), r) =>
                 r.st \in TrStates /\ r.st.phase # 5 /\ Len(r.st.calls) = i + 1
<1>1. PICK c : c = CallMade(i, w)
  OBVIOUS
<1>2. c.choices /\ c.reasoning = <<>> /\ c.tool # None /\ c.tool.id /\ c.tool.index = i /\ c.finish = None
  BY <1>1, CallMadeIs
<1>3. Timely(q, c)
  BY <1>2 DEF Timely
<1>4. ASSUME NEW e, NEW r, Advanced(e, q, c, r)
      PROVE  r.st \in TrStates /\ r.st.phase # 5 /\ Len(r.st.calls) = i + 1
  <2>1. r.st.phase # 5 /\ Len(r.st.calls) = Len(q.calls) + 1
    BY <1>2, <1>4 DEF Advanced
  <2> QED
    BY <1>4, <2>1, AdvancedTypes
<1> QED
  BY <1>1, <1>3, <1>4

LEMMA LastAdvances ==
    ASSUME NEW x \in {"stop", "tool_calls"}, NEW u \in BOOLEAN, NEW q \in TrStates, q.phase # 5
    PROVE  Timely(q, LastMade(x, u))
<1>1. PICK c : c = LastMade(x, u)
  OBVIOUS
<1>2. c.reasoning = <<>> /\ c.tool = None
  BY <1>1, LastMadeIs
<1>3. Timely(q, c)
  BY <1>2 DEF Timely
<1> QED
  BY <1>1, <1>3

LEMMA FinalIs ==
    ASSUME NEW f \in FormatStates, NEW calls \in Seq(KiroCalls)
    PROVE  \E x \in {"stop", "tool_calls"} :
             /\ FinalChunks(f, calls) \in Seq(Chunks) /\ Len(FinalChunks(f, calls)) = Len(calls) + 1
             /\ \A k \in 1..Len(calls) : FinalChunks(f, calls)[k] = CallMade(k - 1, calls[k].input)
             /\ FinalChunks(f, calls)[Len(calls) + 1] = LastMade(x, f.usage)
<1>1. PICK n \in Nat : n = Len(calls)
  OBVIOUS
<1>2. PICK x : x = IF calls # <<>> THEN "tool_calls" ELSE "stop"
  OBVIOUS
<1>3. x \in {"stop", "tool_calls"} /\ f.usage \in BOOLEAN
  BY <1>2, FormatIs
<1>4. PICK z : z = LastMade(x, f.usage)
  OBVIOUS
<1>5. z \in Chunks
  BY <1>3, <1>4, LastMadeIs
<1>6. PICK A : A = [k \in 1..n |-> CallMade(k - 1, calls[k].input)]
  OBVIOUS
<1>7. \A k \in 1..n : CallMade(k - 1, calls[k].input) \in Chunks
  <2>1. ASSUME NEW k \in 1..n PROVE CallMade(k - 1, calls[k].input) \in Chunks
    <3>1. calls[k] \in KiroCalls /\ k - 1 \in Nat
      BY <1>1
    <3>2. calls[k].input \in Seq(Atoms)
      BY <3>1 DEF KiroCalls
    <3> QED
      BY <3>1, <3>2, CallMadeIs
  <2> QED
    BY <2>1
<1>8. A \in Seq(Chunks) /\ Len(A) = n /\ \A k \in 1..n : A[k] = CallMade(k - 1, calls[k].input)
  <2>1. A \in [1..n -> Chunks]
    BY <1>6, <1>7
  <2> QED
    BY <1>6, <2>1
<1>9. PICK L : L = <<z>>
  OBVIOUS
<1>10. L \in Seq(Chunks) /\ Len(L) = 1 /\ L[1] = z
  BY <1>5, <1>9, OneIs
<1>11. FinalChunks(f, calls) = A \o L
  BY <1>1, <1>2, <1>4, <1>6, <1>9 DEF FinalChunks, CallMade, LastMade
<1>12. PICK cs : cs = A \o L
  OBVIOUS
<1>13. /\ cs \in Seq(Chunks) /\ Len(cs) = n + 1
       /\ \A i \in 1..n : cs[i] = A[i]
       /\ cs[n + 1] = z
  <2>1. /\ cs \in Seq(Chunks) /\ Len(cs) = Len(A) + Len(L)
        /\ \A i \in 1..Len(A) : cs[i] = A[i]
        /\ \A i \in (Len(A) + 1)..(Len(A) + Len(L)) : cs[i] = L[i - Len(A)]
    BY <1>8, <1>10, <1>12, JoinIs
  <2>2. n + 1 \in (n + 1)..(n + 1) /\ (n + 1) - n = 1
    OBVIOUS
  <2>3. cs[n + 1] = L[1]
    BY <1>8, <1>10, <2>1, <2>2
  <2> QED
    BY <1>8, <1>10, <2>1, <2>3
<1>14. \A k \in 1..n : cs[k] = CallMade(k - 1, calls[k].input)
  BY <1>8, <1>13
<1> QED
  BY <1>1, <1>3, <1>4, <1>11, <1>12, <1>13, <1>14

LEMMA FinalFollows ==
    ASSUME NEW d, NEW q, Matches(d, q), Free(q, FALSE), NEW f \in FormatStates, NEW calls \in Seq(KiroCalls)
    PROVE  Follows(d, Through(transform_chunk, q, FinalChunks(f, calls)))
<1>1. PICK n \in Nat : n = Len(calls)
  OBVIOUS
<1>2. PICK cs : cs = FinalChunks(f, calls)
  OBVIOUS
<1>3. PICK x \in {"stop", "tool_calls"} :
         /\ cs \in Seq(Chunks) /\ Len(cs) = n + 1
         /\ \A k \in 1..n : cs[k] = CallMade(k - 1, calls[k].input)
         /\ cs[n + 1] = LastMade(x, f.usage)
  BY <1>1, <1>2, FinalIs
<1>4. PICK V : V = [k \in 0..(n + 1) |-> {s \in TrStates : k = n + 1 \/ (s.phase # 5 /\ Len(s.calls) = k)}]
  OBVIOUS
<1>5. /\ \A k \in 0..n : V[k] = {s \in TrStates : s.phase # 5 /\ Len(s.calls) = k}
      /\ V[n + 1] = TrStates
  <2>1. \A k \in 0..n : k \in 0..(n + 1) /\ k # n + 1
    OBVIOUS
  <2>2. n + 1 \in 0..(n + 1)
    OBVIOUS
  <2> QED
    BY <1>4, <2>1, <2>2
<1>6. q \in V[0]
  <2>1. q \in TrStates
    BY MatchesType
  <2>2. 0 \in 0..n
    OBVIOUS
  <2> QED
    BY <1>5, <2>1, <2>2 DEF Free
<1>7. \A k \in 1..Len(cs) : \A s \in V[k - 1] :
         /\ s \in TrStates => Timely(s, cs[k])
         /\ \A e, r : Advanced(e, s, cs[k], r) => r.st \in V[k]
  <2>1. ASSUME NEW k \in 1..(n + 1), NEW s \in V[k - 1]
        PROVE  Timely(s, cs[k]) /\ \A e, r : Advanced(e, s, cs[k], r) => r.st \in V[k]
    <3>1. k - 1 \in 0..n /\ k - 1 \in Nat
      OBVIOUS
    <3>2. s \in TrStates /\ s.phase # 5 /\ Len(s.calls) = k - 1
      BY <1>5, <3>1
    <3>3. CASE k = n + 1
      <4>1. cs[k] = LastMade(x, f.usage) /\ f.usage \in BOOLEAN
        BY <1>3, <3>3, FormatIs
      <4>2. Timely(s, cs[k])
        BY <3>2, <4>1, LastAdvances
      <4>3. V[k] = TrStates
        BY <1>5, <3>3
      <4> QED
        BY <4>2, <4>3, AdvancedTypes
    <3>4. CASE k # n + 1
      <4>1. k \in 1..n /\ k \in 0..n /\ (k - 1) + 1 = k
        BY <3>4
      <4>2. calls[k].input \in Seq(Atoms)
        <5>1. calls[k] \in KiroCalls
          BY <1>1, <4>1
        <5> QED
          BY <5>1 DEF KiroCalls
      <4>3. cs[k] = CallMade(k - 1, calls[k].input)
        BY <1>3, <4>1
      <4>4. /\ Timely(s, cs[k])
            /\ \A e, r : Advanced(e, s, cs[k], r) =>
                  r.st \in TrStates /\ r.st.phase # 5 /\ Len(r.st.calls) = (k - 1) + 1
        BY <3>1, <3>2, <4>2, <4>3, CallAdvances
      <4>5. V[k] = {y \in TrStates : y.phase # 5 /\ Len(y.calls) = k}
        BY <1>5, <4>1
      <4> QED
        BY <4>1, <4>4, <4>5
    <3> QED
      BY <3>3, <3>4
  <2> QED
    BY <1>3, <2>1
<1>8. Follows(d, Through(transform_chunk, q, cs))
  BY <1>3, <1>6, <1>7, ChunksFollow
<1> QED
  BY <1>2, <1>8

(* Blocks of thinking and of text, and their indexes.                      *)
BlockNames == {"message", "reasoning"}

LEMMA ListsAre ==
    ASSUME NEW b \in BlockLists
    PROVE  /\ b \in Seq(BlockNames) /\ Len(b) \in 0..2
           /\ \A i, j \in 1..Len(b) : b[i] = b[j] => i = j
           /\ \A k \in BlockNames : (\A j \in 1..Len(b) : b[j] # k) => Append(b, k) \in BlockLists
<1> DEFINE m == "message"
           r == "reasoning"
<1>1. CASE b = <<>>
  <2>1. b \in Seq(BlockNames) /\ Len(b) = 0
    BY <1>1
  <2>2. Append(<<>>, m) = <<m>> /\ Append(<<>>, r) = <<r>>
    OBVIOUS
  <2>3. \A k \in BlockNames : Append(b, k) \in BlockLists
    BY <1>1, <2>2 DEF BlockNames, BlockLists
  <2> QED
    BY <2>1, <2>3
<1>2. ASSUME NEW x \in BlockNames, NEW y \in BlockNames, x # y, <<x>> \in BlockLists, <<x, y>> \in BlockLists, b = <<x>>
      PROVE  /\ b \in Seq(BlockNames) /\ Len(b) \in 0..2
             /\ \A i, j \in 1..Len(b) : b[i] = b[j] => i = j
             /\ \A k \in BlockNames : (\A j \in 1..Len(b) : b[j] # k) => Append(b, k) \in BlockLists
  <2>1. b \in Seq(BlockNames) /\ Len(b) = 1 /\ b[1] = x
    BY <1>2
  <2>2. Append(<<x>>, y) = <<x, y>>
    <3>1. PICK u : u = <<x>>
      OBVIOUS
    <3>2. u \in Seq(BlockNames)
      BY <1>2, <2>1, <3>1
    <3>3. Append(u, y) = u \o <<y>>
      BY <3>2, AppendIsConcat
    <3> QED
      BY <3>1, <3>3, TwoEvents
  <2>3. \A k \in BlockNames : k = x \/ k = y
    BY <1>2 DEF BlockNames
  <2>4. ASSUME NEW k \in BlockNames, \A j \in 1..Len(b) : b[j] # k PROVE Append(b, k) \in BlockLists
    <3>1. k = y
      BY <2>1, <2>3, <2>4
    <3>2. Append(b, k) = <<x, y>>
      BY <1>2, <2>2, <3>1
    <3> QED
      BY <1>2, <3>2
  <2> QED
    BY <2>1, <2>4
<1>3. ASSUME NEW x \in BlockNames, NEW y \in BlockNames, x # y, b = <<x, y>>
      PROVE  /\ b \in Seq(BlockNames) /\ Len(b) \in 0..2
             /\ \A i, j \in 1..Len(b) : b[i] = b[j] => i = j
             /\ \A k \in BlockNames : (\A j \in 1..Len(b) : b[j] # k) => Append(b, k) \in BlockLists
  <2>1. b \in Seq(BlockNames) /\ Len(b) = 2 /\ b[1] = x /\ b[2] = y
    BY <1>3
  <2>2. \A k \in BlockNames : k = x \/ k = y
    BY <1>3 DEF BlockNames
  <2> QED
    BY <1>3, <2>1, <2>2
<1>4. /\ <<m>> \in BlockLists /\ <<r>> \in BlockLists /\ <<m, r>> \in BlockLists /\ <<r, m>> \in BlockLists
      /\ m \in BlockNames /\ r \in BlockNames /\ m # r
  BY DEF BlockLists, BlockNames
<1> QED
  BY <1>1, <1>2, <1>3, <1>4 DEF BlockLists

Spot(b, k) == SelectInSeq(b, LAMBDA x : x = k)

LEMMA SpotIs ==
    ASSUME NEW T, NEW b \in Seq(T), NEW k
    PROVE  /\ Spot(b, k) \in 0..Len(b)
           /\ Spot(b, k) = 0 => \A j \in 1..Len(b) : b[j] # k
           /\ Spot(b, k) # 0 => b[Spot(b, k)] = k
<1>1. PICK n \in Nat : n = Len(b)
  OBVIOUS
<1>2. PICK I : I = {i \in 1..Len(b) : b[i] = k}
  OBVIOUS
<1>3. Spot(b, k) = IF I # {} THEN Min(I) ELSE 0
  BY <1>2, Zenon DEF Spot, SelectInSeq
<1>4. CASE I = {}
  BY <1>2, <1>3, <1>4
<1>5. CASE I # {}
  <2>1. I \in SUBSET Nat
    BY <1>2
  <2>2. Min(I) \in I
    BY <1>5, <2>1, MinIs
  <2>3. Min(I) \in 1..Len(b) /\ b[Min(I)] = k
    BY <1>2, <2>2
  <2> QED
    BY <1>3, <1>5, <2>3
<1> QED
  BY <1>4, <1>5

LEMMA PlaceIs ==
    ASSUME NEW f \in FormatStates, NEW k \in BlockNames
    PROVE  /\ BlockIndex(f, k) \in Int
           /\ BlockIndex(f, k) < 0 => \A j \in 1..Len(f.blocks) : f.blocks[j] # k
           /\ ~(BlockIndex(f, k) < 0) => BlockIndex(f, k) \in 0..(Len(f.blocks) - 1) /\ f.blocks[BlockIndex(f, k) + 1] = k
<1>1. PICK b : b = f.blocks
  OBVIOUS
<1>2. b \in BlockLists /\ b \in Seq(BlockNames)
  BY <1>1, FormatIs, ListsAre
<1>3. PICK i : i = Spot(b, k)
  OBVIOUS
<1>4. BlockIndex(f, k) = i - 1
  BY <1>1, <1>3, Zenon DEF BlockIndex, Spot
<1>5. /\ i \in 0..Len(b)
      /\ i = 0 => \A j \in 1..Len(b) : b[j] # k
      /\ i # 0 => b[i] = k
  BY <1>2, <1>3, SpotIs
<1>6. i - 1 < 0 <=> i = 0
  BY <1>5
<1>7. i # 0 => i - 1 \in 0..(Len(b) - 1) /\ (i - 1) + 1 = i
  BY <1>2, <1>5
<1> QED
  BY <1>1, <1>4, <1>5, <1>6, <1>7

LEMMA PlaceOf ==
    ASSUME NEW f \in FormatStates, NEW k \in BlockNames, NEW j \in 1..Len(f.blocks), f.blocks[j] = k
    PROVE  BlockIndex(f, k) = j - 1
<1>1. Len(f.blocks) \in Nat
  BY FormatIs, ListsAre
<1>2. ~(BlockIndex(f, k) < 0)
  BY PlaceIs
<1>3. BlockIndex(f, k) \in 0..(Len(f.blocks) - 1) /\ f.blocks[BlockIndex(f, k) + 1] = k
  BY <1>2, PlaceIs
<1>4. BlockIndex(f, k) + 1 \in 1..Len(f.blocks)
  BY <1>1, <1>3
<1>5. BlockIndex(f, k) + 1 = j
  BY <1>3, <1>4, FormatIs, ListsAre
<1> QED
  BY <1>3, <1>5

-----------------------------------------------------------------------------
(* A client of the Messages API follows the formatter: its blocks are      *)
(* those the formatter has begun, all open.                                *)
Count(f) == Len(f.blocks)
LeadsF(f, evs, g) == Leads(Count(f), 0..(Count(f) - 1), evs, Count(g), 0..(Count(g) - 1))

LEMMA BlockGrows ==
    ASSUME NEW f \in FormatStates, NEW k \in BlockNames, NEW w \in Seq(Atoms), ~(BlockIndex(f, k) < 0)
    PROVE  LeadsF(f, <<Delta(BlockIndex(f, k), w)>>, f)
<1>1. PICK i : i = BlockIndex(f, k)
  OBVIOUS
<1>2. PICK n : n = Count(f)
  OBVIOUS
<1>3. n \in Nat /\ i \in 0..(n - 1)
  BY <1>1, <1>2, PlaceIs, FormatIs, ListsAre DEF Count
<1>4. PICK S : S = 0..(n - 1)
  OBVIOUS
<1>5. Leads(n, S, <<Delta(i, w)>>, n, S)
  BY <1>3, <1>4, GrowsAt
<1> QED
  BY <1>1, <1>2, <1>4, <1>5 DEF LeadsF

WithBlock(g, k) == [g EXCEPT !.blocks = Append(@, k)]

LEMMA BlockBegins ==
    ASSUME NEW f \in FormatStates, NEW k \in BlockNames, BlockIndex(f, k) < 0
    PROVE  /\ WithBlock(f, k) \in FormatStates
           /\ BlockIndex(WithBlock(f, k), k) = Count(f)
           /\ LeadsF(f, <<Added(Count(f), k)>>, WithBlock(f, k))
<1>1. PICK b : b = f.blocks
  OBVIOUS
<1>2. b \in BlockLists /\ b \in Seq(BlockNames)
  BY <1>1, FormatIs, ListsAre
<1>3. PICK n \in Nat : n = Len(b)
  BY <1>2
<1>4. \A j \in 1..Len(b) : b[j] # k
  BY <1>1, PlaceIs
<1>5. PICK w : w = Append(b, k)
  OBVIOUS
<1>6. w \in BlockLists
  BY <1>2, <1>4, <1>5, ListsAre
<1>7. Len(w) = n + 1 /\ w[n + 1] = k
  BY <1>2, <1>3, <1>5
<1>8. PICK g : g = WithBlock(f, k)
  OBVIOUS
<1>9. g = [f EXCEPT !.blocks = w]
  BY <1>1, <1>5, <1>8 DEF WithBlock
<1>10. g \in FormatStates /\ g.blocks = w
  BY <1>6, <1>9, FormatIs
<1>11. BlockIndex(g, k) = n
  <2>1. n + 1 \in 1..Len(g.blocks) /\ g.blocks[n + 1] = k /\ (n + 1) - 1 = n
    BY <1>7, <1>10
  <2> QED
    BY <1>10, <2>1, PlaceOf
<1>12. Count(f) = n /\ Count(g) = n + 1
  BY <1>1, <1>3, <1>7, <1>10 DEF Count
<1>13. k \in Kinds
  BY DEF BlockNames, Kinds
<1>14. PICK S : S = 0..(n - 1)
  OBVIOUS
<1>15. Leads(n, S, <<Added(n, k)>>, n + 1, S \cup {n})
  BY <1>13, AddsAt
<1>16. S \cup {n} = 0..((n + 1) - 1)
  BY <1>14
<1>17. LeadsF(f, <<Added(n, k)>>, g)
  BY <1>12, <1>14, <1>15, <1>16 DEF LeadsF
<1> QED
  BY <1>8, <1>10, <1>11, <1>12, <1>17

LeadsIn(f, r) == r.st \in FormatStates /\ LeadsF(f, r.events, r.st)

LEMMA LeadsInIs ==
    ASSUME NEW f, NEW g \in FormatStates, NEW evs, LeadsF(f, evs, g)
    PROVE  LeadsIn(f, Step(g, evs))
<1>1. PICK r : r = Step(g, evs)
  OBVIOUS
<1>2. r.st = g /\ r.events = evs
  BY <1>1, StepIs
<1>3. LeadsIn(f, r)
  BY <1>2 DEF LeadsIn
<1> QED
  BY <1>1, <1>3

LEMMA SameCount ==
    ASSUME NEW f, NEW g, g.blocks = f.blocks, NEW evs, NEW h, LeadsF(g, evs, h)
    PROVE  LeadsF(f, evs, h)
BY DEF LeadsF, Count

LEMMA DeltaLeads ==
    ASSUME NEW f \in FormatStates, NEW e \in KiroEvents, NEW k \in BlockNames, e.text \in Seq(Atoms)
    PROVE  LeadsIn(f, BlockDelta(f, e, k))
<1>1. PICK g : g = Noted(f, e)
  OBVIOUS
<1>2. g \in FormatStates /\ g.blocks = f.blocks
  BY <1>1, NotedIs
<1>3. PICK q : q = BlockDelta(f, e, k)
  OBVIOUS
<1>4. CASE BlockIndex(g, k) < 0
  <2>1. PICK h : h = WithBlock(g, k)
    OBVIOUS
  <2>2. PICK i : i = BlockIndex(h, k)
    OBVIOUS
  <2>3. /\ h \in FormatStates
        /\ i = Count(g)
        /\ LeadsF(g, <<Added(Count(g), k)>>, h)
    BY <1>2, <1>4, <2>1, <2>2, BlockBegins
  <2>4. Count(g) \in Nat
    BY <1>2, FormatIs, ListsAre DEF Count
  <2>a. ~(BlockIndex(h, k) < 0)
    BY <2>2, <2>3, <2>4
  <2>5. LeadsF(h, <<Delta(i, e.text)>>, h)
    BY <2>2, <2>3, <2>a, BlockGrows
  <2>6. q = Step(h, <<Added(i, k)>> \o <<Delta(i, e.text)>>)
    BY <1>1, <1>3, <1>4, <2>1, <2>2 DEF BlockDelta, WithBlock
  <2>7. LeadsF(g, <<Added(i, k)>> \o <<Delta(i, e.text)>>, h)
    BY <2>3, <2>5, LeadsOn DEF LeadsF
  <2>8. LeadsF(f, <<Added(i, k)>> \o <<Delta(i, e.text)>>, h)
    BY <1>2, <2>7, SameCount
  <2> QED
    BY <1>3, <2>3, <2>6, <2>8, LeadsInIs
<1>5. CASE ~(BlockIndex(g, k) < 0)
  <2>1. PICK i : i = BlockIndex(g, k)
    OBVIOUS
  <2>2. LeadsF(g, <<Delta(i, e.text)>>, g)
    BY <1>2, <1>5, <2>1, BlockGrows
  <2>3. q = Step(g, <<>> \o <<Delta(i, e.text)>>)
    BY <1>1, <1>3, <1>5, <2>1 DEF BlockDelta
  <2>4. q = Step(g, <<Delta(i, e.text)>>)
    BY <2>3, EmptyIs
  <2>5. LeadsF(f, <<Delta(i, e.text)>>, g)
    BY <1>2, <2>2, SameCount
  <2> QED
    BY <1>2, <1>3, <2>4, <2>5, LeadsInIs
<1> QED
  BY <1>4, <1>5

LEMMA OneToAnthropic ==
    ASSUME NEW f \in FormatStates, NEW e \in KiroEvents
    PROVE  LeadsIn(f, stream_kiro_to_anthropic(f, e))
<1>1. PICK q : q = stream_kiro_to_anthropic(f, e)
  OBVIOUS
<1>2. CASE e.type = "content" /\ e.text \in Seq(Atoms)
  <2>1. q = BlockDelta(f, e, "message")
    BY <1>1, <1>2 DEF stream_kiro_to_anthropic
  <2>2. "message" \in BlockNames
    BY DEF BlockNames
  <2> QED
    BY <1>1, <1>2, <2>1, <2>2, DeltaLeads
<1>3. CASE e.type = "thinking" /\ e.text \in Seq(Atoms)
  <2>1. q = BlockDelta(f, e, "reasoning")
    BY <1>1, <1>3 DEF stream_kiro_to_anthropic
  <2>2. "reasoning" \in BlockNames
    BY DEF BlockNames
  <2> QED
    BY <1>1, <1>3, <2>1, <2>2, DeltaLeads
<1>4. CASE e.type \in {"tool_use", "usage"}
  <2>1. PICK g : g = Noted(f, e)
    OBVIOUS
  <2>2. q = Step(g, <<>>)
    BY <1>1, <1>4, <2>1 DEF stream_kiro_to_anthropic
  <2>3. g \in FormatStates /\ g.blocks = f.blocks
    BY <2>1, NotedIs
  <2>4. LeadsF(g, <<>>, g)
    BY LeadsNowhere DEF LeadsF
  <2>5. LeadsF(f, <<>>, g)
    BY <2>3, <2>4, SameCount
  <2> QED
    BY <1>1, <2>2, <2>3, <2>5, LeadsInIs
<1> QED
  BY <1>2, <1>3, <1>4, EventIs DEF KiroEvents

EventsOf(f, evs) == Through(stream_kiro_to_anthropic, f, evs)

LEMMA AllToAnthropic ==
    ASSUME NEW f \in FormatStates, NEW evs \in Seq(KiroEvents)
    PROVE  LeadsIn(f, EventsOf(f, evs))
<1>1. PICK n \in Nat : n = Len(evs)
  OBVIOUS
<1>2. PICK u : Along("anthropic", u, f, evs) /\ Through(stream_kiro_to_anthropic, f, evs) = u[n]
  BY <1>1, ThroughAnthropic
<1>3. PICK P : P = {m \in Nat : m <= n => LeadsIn(f, u[m])}
  OBVIOUS
<1>4. 0 \in P
  <2>1. u[0] = Step(f, <<>>)
    BY <1>2 DEF Along
  <2>2. LeadsF(f, <<>>, f)
    BY LeadsNowhere DEF LeadsF
  <2>3. LeadsIn(f, u[0])
    BY <2>1, <2>2, LeadsInIs
  <2> QED
    BY <1>3, <2>3
<1>5. ASSUME NEW m \in Nat, m \in P PROVE m + 1 \in P
  <2>1. SUFFICES ASSUME m + 1 <= n PROVE LeadsIn(f, u[m + 1])
    BY <1>3
  <2>2. m + 1 \in 1..n /\ (m + 1) - 1 = m /\ m <= n
    BY <2>1
  <2>3. PICK a : a = u[m]
    OBVIOUS
  <2>4. LeadsIn(f, a)
    BY <1>3, <1>5, <2>2, <2>3
  <2>5. PICK e : e = evs[m + 1]
    OBVIOUS
  <2>6. e \in KiroEvents
    BY <1>1, <2>2, <2>5
  <2>7. PICK g : g = a.st
    OBVIOUS
  <2>8. g \in FormatStates /\ LeadsF(f, a.events, g)
    BY <2>4, <2>7 DEF LeadsIn
  <2>9. PICK q : q = stream_kiro_to_anthropic(g, e)
    OBVIOUS
  <2>10. LeadsIn(g, q)
    BY <2>6, <2>8, <2>9, OneToAnthropic
  <2>11. q.st \in FormatStates /\ LeadsF(g, q.events, q.st)
    BY <2>10 DEF LeadsIn
  <2>12. u[m + 1] = Onto("anthropic", a, e)
    BY <1>1, <1>2, <2>2, <2>3, <2>5 DEF Along
  <2>13. Does("anthropic", g, e) = q
    BY <2>9 DEF Does
  <2>14. u[m + 1] = Step(q.st, a.events \o q.events)
    BY <2>7, <2>12, <2>13 DEF Onto
  <2>15. LeadsF(f, a.events \o q.events, q.st)
    BY <2>8, <2>11, LeadsOn DEF LeadsF
  <2> QED
    BY <2>11, <2>14, <2>15, LeadsInIs
<1>6. n \in P
  BY <1>4, <1>5, Upwards
<1>7. LeadsIn(f, u[n])
  BY <1>3, <1>6
<1> QED
  BY <1>2, <1>7 DEF EventsOf

LEMMA SaysKiroEvents ==
    ASSUME NEW k, NEW r, KiroSays(k, r)
    PROVE  r.events \in Seq(KiroEvents)
<1>1. CASE r.events = <<>>
  BY <1>1
<1>2. ASSUME NEW e \in KiroEvents, r.events = <<e>> PROVE r.events \in Seq(KiroEvents)
  BY <1>2
<1>3. ASSUME NEW e \in KiroEvents, NEW f \in KiroEvents, r.events = <<e, f>> PROVE r.events \in Seq(KiroEvents)
  BY <1>3
<1> QED
  BY <1>1, <1>2, <1>3 DEF KiroSays, KiroEvents

-----------------------------------------------------------------------------
(* The end of the answer: thinking and text are closed, each call is a     *)
(* block of its own.                                                       *)
Closer(f, k) == IF BlockIndex(f, k) < 0 THEN <<>> ELSE <<Stop(BlockIndex(f, k))>>

LEMMA CloserLeads ==
    ASSUME NEW f \in FormatStates, NEW k \in BlockNames, NEW S, BlockIndex(f, k) < 0 \/ BlockIndex(f, k) \in S
    PROVE  \/ Leads(Count(f), S, Closer(f, k), Count(f), S \ {BlockIndex(f, k)})
           \/ /\ BlockIndex(f, k) < 0
              /\ Leads(Count(f), S, Closer(f, k), Count(f), S)
<1>1. PICK i : i = BlockIndex(f, k)
  OBVIOUS
<1>2. PICK n : n = Count(f)
  OBVIOUS
<1>3. CASE i < 0
  <2>1. Closer(f, k) = <<>>
    BY <1>1, <1>3 DEF Closer
  <2>2. Leads(n, S, <<>>, n, S)
    BY LeadsNowhere
  <2> QED
    BY <1>1, <1>2, <1>3, <2>1, <2>2
<1>4. CASE ~(i < 0)
  <2>1. n \in Nat /\ i \in 0..(n - 1) /\ i \in S
    BY <1>1, <1>2, <1>4, PlaceIs, FormatIs, ListsAre DEF Count
  <2>2. Closer(f, k) = <<Stop(i)>>
    BY <1>1, <1>4 DEF Closer
  <2>3. Leads(n, S, <<Stop(i)>>, n, S \ {i})
    BY <2>1, StopsAt
  <2> QED
    BY <1>1, <1>2, <2>2, <2>3
<1> QED
  BY <1>3, <1>4

LEMMA BothClose ==
    ASSUME NEW f \in FormatStates
    PROVE  Leads(Count(f), 0..(Count(f) - 1), Closer(f, "reasoning") \o Closer(f, "message"), Count(f), {})
<1>1. PICK n : n = Count(f)
  OBVIOUS
<1>2. n \in Nat
  BY <1>1, FormatIs, ListsAre DEF Count
<1>3. "reasoning" \in BlockNames /\ "message" \in BlockNames
  BY DEF BlockNames
<1>4. PICK r \in Int : r = BlockIndex(f, "reasoning")
  BY <1>3, PlaceIs
<1>5. PICK m \in Int : m = BlockIndex(f, "message")
  BY <1>3, PlaceIs
<1>6. /\ ~(r < 0) => r \in 0..(n - 1) /\ f.blocks[r + 1] = "reasoning"
      /\ ~(m < 0) => m \in 0..(n - 1) /\ f.blocks[m + 1] = "message"
  BY <1>1, <1>3, <1>4, <1>5, PlaceIs DEF Count
<1>7. \A i \in 0..(n - 1) : i = r \/ i = m
  <2>1. ASSUME NEW i \in 0..(n - 1) PROVE i = r \/ i = m
    <3>1. i + 1 \in 1..Len(f.blocks) /\ (i + 1) - 1 = i
      BY <1>1, <1>2 DEF Count
    <3>2. f.blocks[i + 1] \in BlockNames
      BY <3>1, FormatIs, ListsAre
    <3>3. BlockIndex(f, f.blocks[i + 1]) = i
      BY <3>1, <3>2, PlaceOf
    <3> QED
      BY <1>4, <1>5, <3>2, <3>3 DEF BlockNames
  <2> QED
    BY <2>1
<1>8. PICK S : S = 0..(n - 1)
  OBVIOUS
<1>9. PICK T : /\ Leads(n, S, Closer(f, "reasoning"), n, T)
               /\ T = S \ {r} \/ (r < 0 /\ T = S)
  <2>1. r < 0 \/ r \in S
    BY <1>6, <1>8
  <2>2. \/ Leads(n, S, Closer(f, "reasoning"), n, S \ {r})
        \/ /\ r < 0
           /\ Leads(n, S, Closer(f, "reasoning"), n, S)
    BY <1>1, <1>3, <1>4, <2>1, CloserLeads
  <2> QED
    BY <2>2
<1>10. m < 0 \/ m \in T
  <2>1. ~(m < 0) /\ ~(r < 0) => m # r
    BY <1>6
  <2> QED
    BY <1>6, <1>8, <1>9, <2>1
<1>11. PICK U : /\ Leads(n, T, Closer(f, "message"), n, U)
                /\ U = T \ {m} \/ (m < 0 /\ U = T)
  <2>1. \/ Leads(n, T, Closer(f, "message"), n, T \ {m})
        \/ /\ m < 0
           /\ Leads(n, T, Closer(f, "message"), n, T)
    BY <1>1, <1>3, <1>5, <1>10, CloserLeads
  <2> QED
    BY <2>1
<1>12. U = {}
  <2>1. \A i \in S : i \in Nat
    BY <1>8
  <2>2. \A x \in U : x \in S
    BY <1>9, <1>11
  <2>3. ASSUME NEW x \in U PROVE FALSE
    <3>1. x \in S /\ x \in Nat /\ (x = r \/ x = m)
      BY <1>7, <1>8, <2>1, <2>2
    <3>2. x \in T
      BY <1>11
    <3>3. x # r
      BY <1>9, <3>1, <3>2
    <3>4. x # m
      BY <1>11, <3>1
    <3> QED
      BY <3>1, <3>3, <3>4
  <2> QED
    BY <2>3
<1>13. Leads(n, S, Closer(f, "reasoning") \o Closer(f, "message"), n, U)
  BY <1>9, <1>11, LeadsOn
<1> QED
  BY <1>1, <1>8, <1>12, <1>13

LEMMA ThreeEvents == ASSUME NEW a, NEW b, NEW c PROVE (<<a>> \o <<b>>) \o <<c>> = <<a, b, c>>
<1>1. PICK S : S = {a, b, c}
  OBVIOUS
<1>2. PICK s : s = <<a, b>>
  OBVIOUS
<1>3. PICK t : t = <<c>>
  OBVIOUS
<1>4. PICK u : u = <<a, b, c>>
  OBVIOUS
<1>5. s \in Seq(S) /\ Len(s) = 2 /\ s[1] = a /\ s[2] = b
  BY <1>1, <1>2
<1>6. t \in Seq(S) /\ Len(t) = 1 /\ t[1] = c
  BY <1>1, <1>3
<1>7. u \in Seq(S) /\ Len(u) = 3 /\ u[1] = a /\ u[2] = b /\ u[3] = c
  BY <1>1, <1>4
<1>8. PICK v : v = s \o t
  OBVIOUS
<1>9. v \in Seq(S) /\ Len(v) = 3 /\ v[1] = a /\ v[2] = b /\ v[3] = c
  <2>1. /\ v \in Seq(S) /\ Len(v) = Len(s) + Len(t)
        /\ \A i \in 1..Len(s) : v[i] = s[i]
        /\ \A i \in (Len(s) + 1)..(Len(s) + Len(t)) : v[i] = t[i - Len(s)]
    BY <1>5, <1>6, <1>8, JoinIs
  <2>2. 1 \in 1..2 /\ 2 \in 1..2 /\ 3 \in (2 + 1)..(2 + 1) /\ 3 - 2 = 1
    OBVIOUS
  <2> QED
    BY <1>5, <1>6, <2>1, <2>2
<1>10. \A i \in 1..3 : v[i] = u[i]
  <2>1. \A i \in 1..3 : i = 1 \/ i = 2 \/ i = 3
    OBVIOUS
  <2> QED
    BY <1>7, <1>9, <2>1
<1>11. v = u
  BY <1>7, <1>9, <1>10, SeqEqual
<1> QED
  BY <1>2, <1>3, <1>4, <1>8, <1>11, TwoEvents

Triple(j, w) == <<Added(j, "function_call"), Delta(j, w), Stop(j)>>

LEMMA TripleLeads ==
    ASSUME NEW j \in Nat, NEW w \in Seq(Atoms)
    PROVE  Leads(j, {}, Triple(j, w), j + 1, {})
<1>1. PICK a : a = Added(j, "function_call")
  OBVIOUS
<1>2. PICK b : b = Delta(j, w)
  OBVIOUS
<1>3. PICK c : c = Stop(j)
  OBVIOUS
<1>4. PICK S : S = {j}
  OBVIOUS
<1>5. "function_call" \in Kinds /\ {} \cup {j} = S /\ S \ {j} = {} /\ j + 1 \in Nat /\ j \in 0..((j + 1) - 1) /\ j \in S
  BY <1>4 DEF Kinds
<1>6. Leads(j, {}, <<a>>, j + 1, S)
  <2>1. Leads(j, {}, <<a>>, j + 1, {} \cup {j})
    BY <1>1, <1>5, AddsAt
  <2> QED
    BY <1>5, <2>1
<1>7. Leads(j + 1, S, <<b>>, j + 1, S)
  BY <1>2, <1>5, GrowsAt
<1>8. Leads(j + 1, S, <<c>>, j + 1, {})
  <2>1. Leads(j + 1, S, <<c>>, j + 1, S \ {j})
    BY <1>3, <1>5, StopsAt
  <2> QED
    BY <1>5, <2>1
<1>9. Leads(j, {}, (<<a>> \o <<b>>) \o <<c>>, j + 1, {})
  BY <1>6, <1>7, <1>8, LeadsOn
<1>10. Triple(j, w) = <<a, b, c>>
  BY <1>1, <1>2, <1>3 DEF Triple
<1> QED
  BY <1>9, <1>10, ThreeEvents

LEMMA CallsLead ==
    ASSUME NEW n \in Nat, NEW calls \in Seq(KiroCalls)
    PROVE  Leads(n, {}, FlattenSeq([k \in 1..Len(calls) |-> Triple(n + k - 1, calls[k].input)]), n + Len(calls), {})
<1>1. PICK m \in Nat : m = Len(calls)
  OBVIOUS
<1>2. PICK F : F = [k \in 1..m |-> Triple(n + k - 1, calls[k].input)]
  OBVIOUS
<1>3. \A k \in 1..m : F[k] = Triple(n + k - 1, calls[k].input) /\ calls[k].input \in Seq(Atoms)
  <2>1. ASSUME NEW k \in 1..m PROVE calls[k].input \in Seq(Atoms)
    <3>1. calls[k] \in KiroCalls
      BY <1>1
    <3> QED
      BY <3>1 DEF KiroCalls
  <2> QED
    BY <1>2, <2>1
<1>4. PICK T : T = UNION {{Added(n + k - 1, "function_call"), Delta(n + k - 1, calls[k].input), Stop(n + k - 1)} : k \in 1..m}
  OBVIOUS
<1>5. \A k \in 1..m : F[k] \in Seq(T)
  <2>1. ASSUME NEW k \in 1..m PROVE F[k] \in Seq(T)
    <3>1. PICK a : a = Added(n + k - 1, "function_call")
      OBVIOUS
    <3>2. PICK b : b = Delta(n + k - 1, calls[k].input)
      OBVIOUS
    <3>3. PICK c : c = Stop(n + k - 1)
      OBVIOUS
    <3>4. F[k] = <<a, b, c>>
      BY <1>3, <3>1, <3>2, <3>3 DEF Triple
    <3>5. a \in T /\ b \in T /\ c \in T
      BY <1>4, <3>1, <3>2, <3>3
    <3> QED
      BY <3>4, <3>5, SeqsOf
  <2> QED
    BY <2>1
<1>6. F \in Seq(Seq(T)) /\ Len(F) = m
  BY <1>1, <1>2, <1>5, FunctionIsSeq
<1>7. SUFFICES ASSUME NEW it \in OpenAt(n, {})
               PROVE  \E jt \in OpenAt(n + m, {}) : Runs(View("open", it), FlattenSeq(F), View("open", jt))
  BY <1>1, <1>2, Zenon DEF Leads
<1>8. PICK V : V = [k \in 0..m |-> {View("open", jt) : jt \in OpenAt(n + k, {})}]
  OBVIOUS
<1>9. View("open", it) \in V[0]
  <2>1. 0 \in 0..m /\ n + 0 = n
    OBVIOUS
  <2> QED
    BY <1>8, <2>1
<1>10. \A k \in 1..Len(F) : \A x \in V[k - 1] : \E y \in V[k] : Runs(x, F[k], y)
  <2>1. ASSUME NEW k \in 1..m, NEW x \in V[k - 1] PROVE \E y \in V[k] : Runs(x, F[k], y)
    <3>1. k - 1 \in 0..m /\ k \in 0..m
      OBVIOUS
    <3>2. PICK j \in Nat : j = n + k - 1
      OBVIOUS
    <3>3. n + (k - 1) = j /\ j + 1 = n + k
      BY <3>2
    <3>4. PICK jt \in OpenAt(j, {}) : x = View("open", jt)
      BY <1>8, <3>1, <3>3
    <3>5. Leads(j, {}, Triple(j, calls[k].input), j + 1, {})
      BY <1>3, TripleLeads
    <3>6. F[k] = Triple(j, calls[k].input)
      BY <1>3, <3>2
    <3>7. Leads(j, {}, F[k], j + 1, {})
      BY <3>5, <3>6
    <3>8. PICK kt \in OpenAt(j + 1, {}) : Runs(View("open", jt), F[k], View("open", kt))
      BY <3>7, Zenon DEF Leads
    <3>9. View("open", kt) \in V[k]
      BY <1>8, <3>1, <3>3
    <3> QED
      BY <3>4, <3>8, <3>9
  <2> QED
    BY <1>6, <2>1
<1>11. PICK y \in V[m] : Runs(View("open", it), FlattenSeq(F), y)
  BY <1>6, <1>9, <1>10, RunsFlat
<1>12. PICK jt \in OpenAt(n + m, {}) : y = View("open", jt)
  BY <1>8
<1> QED
  BY <1>11, <1>12

LEMMA FinalEventsIs ==
    ASSUME NEW f, NEW calls
    PROVE  FinalEvents(f, calls) =
             Closer(f, "reasoning") \o Closer(f, "message")
               \o FlattenSeq([k \in 1..Len(calls) |-> Triple(Count(f) + k - 1, calls[k].input)])
               \o <<Event("message_delta"), Event("message_stop")>>
BY Zenon DEF FinalEvents, Closer, Triple, Count

LEMMA FinalLeads ==
    ASSUME NEW f \in FormatStates, NEW calls \in Seq(KiroCalls), NEW it \in OpenAt(Count(f), 0..(Count(f) - 1))
    PROVE  \E n \in Nat : \E jt \in OpenAt(n, {}) :
             Runs(View("open", it), FinalEvents(f, calls), View("completed", jt))
<1>0. Count(f) \in Nat
  BY FormatIs, ListsAre DEF Count
<1>1. PICK n \in Nat : n = Count(f)
  BY <1>0, Zenon
<1>2. PICK m \in Nat : m = n + Len(calls)
  OBVIOUS
<1>3. PICK a : a = Closer(f, "reasoning") \o Closer(f, "message")
  OBVIOUS
<1>4. PICK b : b = FlattenSeq([k \in 1..Len(calls) |-> Triple(n + k - 1, calls[k].input)])
  OBVIOUS
<1>5. PICK z : z = <<Event("message_delta"), Event("message_stop")>>
  OBVIOUS
<1>6. PICK S : S = 0..(n - 1)
  OBVIOUS
<1>7. Leads(n, S, a, n, {})
  BY <1>1, <1>3, <1>6, BothClose
<1>8. Leads(n, {}, b, m, {})
  BY <1>2, <1>4, CallsLead
<1>9. Leads(n, S, a \o b, m, {})
  BY <1>7, <1>8, LeadsOn
<1>10. it \in OpenAt(n, S)
  BY <1>1, <1>6
<1>11. PICK jt \in OpenAt(m, {}) : Runs(View("open", it), a \o b, View("open", jt))
  BY <1>9, <1>10, Zenon DEF Leads
<1>12. Runs(View("open", jt), z, View("completed", jt))
  BY <1>5, EndsAt
<1>13. Runs(View("open", it), (a \o b) \o z, View("completed", jt))
  BY <1>11, <1>12, RunsOn
<1>14. FinalEvents(f, calls) = (a \o b) \o z
  BY <1>1, <1>3, <1>4, <1>5, FinalEventsIs
<1> QED
  BY <1>2, <1>11, <1>13, <1>14

(* What the client will have when it has read what is still to be yielded: *)
(* until the provider's stream ends, what the translators take it to have. *)
BlocksHeldOpen(d, f) ==
    f \in FormatStates /\ \E it \in OpenAt(Count(f), 0..(Count(f) - 1)) : d = View("open", it)

Expects(rt, s, k, f, t, d) ==
    \/ rt = <<"openai", "responses">> /\ FromOpenAIHeld(d, s, t)
    \/ rt = <<"openai", "anthropic">> /\ FromOpenAIShown(d, s, t)
    \/ rt = <<"anthropic", "responses">> /\ FromAnthropicHeld(d, s, f, t)
    \/ rt = <<"kiro", "responses">> /\ KiroHeld(d, k, f, t)
    \/ rt = <<"kiro", "anthropic">> /\ BlocksHeldOpen(d, f)

Answering ==
    /\ route \in Routes /\ src \in SrcStates /\ kiro \in KiroStates
    /\ \E d : Runs(client, out, d) /\ (~src.ended => Expects(route, src, kiro, fmt, tr, d))

LEMMA NothingRead ==
    ASSUME NEW c, NEW d, Runs(c, <<>>, d)
    PROVE  c = d
<1>1. PICK f : ReadAlong(f, c, <<>>, d)
  BY Zenon DEF Runs
<1>2. Len(<<>>) = 0
  OBVIOUS
<1> QED
  BY <1>1, <1>2 DEF ReadAlong

LEMMA LastRead ==
    ASSUME NEW c, NEW evs, NEW d, NEW e, NEW x, Runs(c, evs, d), Runs(d, <<e>>, x)
    PROVE  Runs(c, Append(evs, e), x)
<1>1. PICK T : evs \in Seq(T)
  BY Zenon DEF Runs
<1>2. Append(evs, e) = evs \o <<e>>
  BY <1>1, AppendIsConcat
<1> QED
  BY <1>2, RunsOn

(* A client, whatever it has, can be told that the stream ends. *)
Ready(d) == \E s \in {"none", "open", "completed", "broken"} : \E it : d = View(s, it)

LEMMA ReadyEnds ==
    ASSUME NEW d, Ready(d), NEW e, e.type \in {"error", "end"}
    PROVE  \E x : Runs(d, <<e>>, x)
<1>0. PICK s \in {"none", "open", "completed", "broken"} : \E it : d = View(s, it)
  BY DEF Ready
<1>1. PICK it : d = View(s, it)
  BY <1>0
<1>2. Runs(d, <<e>>, View(IF s = "completed" THEN s ELSE "broken", it))
  BY <1>1, ReadEnd
<1> QED
  BY <1>2

LEMMA MatchedReady == ASSUME NEW d, NEW st, Matches(d, st) PROVE Ready(d)
BY DEF Matches, Ready

LEMMA ExpectedReady ==
    ASSUME NEW rt, NEW s \in SrcStates, NEW k, NEW f, NEW t, NEW d, Expects(rt, s, k, f, t, d)
    PROVE  Ready(d)
<1>1. CASE FromOpenAIHeld(d, s, t) \/ FromAnthropicHeld(d, s, f, t) \/ KiroHeld(d, k, f, t)
  BY <1>1, MatchedReady DEF FromOpenAIHeld, FromAnthropicHeld, KiroHeld
<1>2. CASE FromOpenAIShown(d, s, t)
  <2>1. t.started \in BOOLEAN
    BY <1>2, BlockTypes DEF FromOpenAIShown, BlocksOk
  <2>2. \E it : d = View("none", it) \/ d = View("open", it) \/ d = View("completed", it)
    BY <1>2, <2>1 DEF FromOpenAIShown
  <2> QED
    BY <2>2 DEF Ready
<1>3. CASE BlocksHeldOpen(d, f)
  BY <1>3 DEF BlocksHeldOpen, Ready
<1> QED
  BY <1>1, <1>2, <1>3, Zenon DEF Expects

LEMMA EndTypes == Event("end").type = "end" /\ Event("error").type = "error"
BY DEF Event

-----------------------------------------------------------------------------
(* One step of the stream. *)
LEMMA RoutesAre ==
    ASSUME route \in Routes
    PROVE  \/ route = <<"openai", "responses">>
           \/ route = <<"openai", "anthropic">>
           \/ route = <<"anthropic", "responses">>
           \/ route = <<"kiro", "responses">>
           \/ route = <<"kiro", "anthropic">>
BY StreamAssumption

LEMMA PolledIs ==
    ASSUME Answering, Polled
    PROVE  /\ ~src.ended
           /\ Expects(route, src, kiro, fmt, tr, client)
<1>1. out = <<>> /\ ~src.ended
  BY DEF Polled
<1>2. PICK d : Runs(client, out, d) /\ Expects(route, src, kiro, fmt, tr, d)
  BY <1>1 DEF Answering
<1>3. client = d
  BY <1>1, <1>2, NothingRead
<1> QED
  BY <1>1, <1>2, <1>3

LEMMA RouteNames ==
    ASSUME NEW a, NEW b, NEW rt, rt = <<a, b>>
    PROVE  rt[1] = a /\ rt[2] = b
OBVIOUS

LEMMA FailsAnswering ==
    ASSUME Answering, Fails
    PROVE  Answering'
<1>1. Expects(route, src, kiro, fmt, tr, client) /\ src \in SrcStates
  BY PolledIs DEF Fails, Answering
<1>2. Ready(client)
  BY <1>1, ExpectedReady
<1>3. PICK x : Runs(client, <<Event("error")>>, x)
  BY <1>2, ReadyEnds, EndTypes
<1>4. src' \in SrcStates /\ src'.ended
  BY <1>1 DEF Fails, SrcStates
<1>5. out' = <<Event("error")>> /\ UNCHANGED <<route, kiro, client>>
  BY DEF Fails
<1> QED
  BY <1>3, <1>4, <1>5 DEF Answering

LEMMA YieldAnswering ==
    ASSUME Answering, Yield
    PROVE  Answering' /\ Permitted(client, client')
<1>1. PICK d : Runs(client, out, d) /\ (~src.ended => Expects(route, src, kiro, fmt, tr, d))
  BY DEF Answering
<1>2. out # <<>> /\ client' = Reads(client, Head(out)) /\ out' = Tail(out)
      /\ UNCHANGED <<route, src, kiro, fmt, tr>>
  BY DEF Yield
<1>3. Permitted(client, client') /\ Runs(client', out', d)
  BY <1>1, <1>2, FirstEvent
<1> QED
  BY <1>1, <1>2, <1>3 DEF Answering

LEMMA NotNamed ==
    /\ "openai" # "anthropic" /\ "openai" # "kiro" /\ "anthropic" # "kiro" /\ "responses" # "anthropic"
OBVIOUS

LEMMA ExpectsIs ==
    ASSUME NEW rt, NEW s, NEW k, NEW f, NEW t, NEW d, Expects(rt, s, k, f, t, d)
    PROVE  /\ rt[1] = "openai" /\ rt[2] = "responses" => rt = <<"openai", "responses">> /\ FromOpenAIHeld(d, s, t)
           /\ rt[1] = "openai" /\ rt[2] = "anthropic" => rt = <<"openai", "anthropic">> /\ FromOpenAIShown(d, s, t)
           /\ rt[1] = "anthropic" => rt = <<"anthropic", "responses">> /\ FromAnthropicHeld(d, s, f, t)
           /\ rt[1] = "kiro" /\ rt[2] = "responses" => rt = <<"kiro", "responses">> /\ KiroHeld(d, k, f, t)
           /\ rt[1] = "kiro" /\ rt[2] = "anthropic" => rt = <<"kiro", "anthropic">> /\ BlocksHeldOpen(d, f)
           /\ rt[2] \in {"responses", "anthropic"}
<1>1. CASE rt = <<"openai", "responses">> /\ FromOpenAIHeld(d, s, t)
  <2>1. rt[1] = "openai" /\ rt[2] = "responses"
    BY <1>1, RouteNames
  <2> QED
    BY <1>1, <2>1
<1>2. CASE rt = <<"openai", "anthropic">> /\ FromOpenAIShown(d, s, t)
  <2>1. rt[1] = "openai" /\ rt[2] = "anthropic"
    BY <1>2, RouteNames
  <2> QED
    BY <1>2, <2>1
<1>3. CASE rt = <<"anthropic", "responses">> /\ FromAnthropicHeld(d, s, f, t)
  <2>1. rt[1] = "anthropic" /\ rt[2] = "responses"
    BY <1>3, RouteNames
  <2> QED
    BY <1>3, <2>1
<1>4. CASE rt = <<"kiro", "responses">> /\ KiroHeld(d, k, f, t)
  <2>1. rt[1] = "kiro" /\ rt[2] = "responses"
    BY <1>4, RouteNames
  <2> QED
    BY <1>4, <2>1
<1>5. CASE rt = <<"kiro", "anthropic">> /\ BlocksHeldOpen(d, f)
  <2>1. rt[1] = "kiro" /\ rt[2] = "anthropic"
    BY <1>5, RouteNames
  <2> QED
    BY <1>5, <2>1
<1> QED
  BY <1>1, <1>2, <1>3, <1>4, <1>5, Zenon DEF Expects

LEMMA Next1Types == ASSUME NEW s, NEW t, NEW c, Next1(s, t, c) PROVE t \in SrcStates
BY DEF Next1

LEMMA FromOpenAIAnswering ==
    ASSUME Answering, FromOpenAI
    PROVE  ReasoningLate' \/ Answering'
<1>1. Polled /\ route[1] = "openai" /\ UNCHANGED <<route, kiro, fmt, client>>
  BY DEF FromOpenAI
<1>2. Expects(route, src, kiro, fmt, tr, client)
  BY <1>1, PolledIs
<1>3. route \in Routes /\ src \in SrcStates /\ kiro \in KiroStates
  BY DEF Answering
<1>4. PICK m \in OpenAIItems :
         /\ src' = m.src
         /\ \/ /\ route[2] = "responses"
               /\ LET r == transform_chunk(tr, m.item) IN tr' = r.st /\ out' = r.events
            \/ /\ route[2] = "anthropic"
               /\ \E order \in BlockOrders(tr) :
                    LET r == translate_chunk(tr, m.item, order) IN tr' = r.st /\ out' = r.events
  BY Zenon DEF FromOpenAI
<1>5. PICK c : c = m.item
  OBVIOUS
<1>6. Next1(src, src', c)
  BY <1>3, <1>4, <1>5, OpenAINext
<1>7. src' \in SrcStates
  BY <1>6, Next1Types
<1>10. CASE route[2] = "responses" /\ src'.late
  BY <1>1, <1>10 DEF ReasoningLate
<1>8. CASE route[2] = "responses" /\ ~src'.late
  <2>1. PICK r : r = transform_chunk(tr, c)
    OBVIOUS
  <2>2. tr' = r.st /\ out' = r.events
    BY <1>4, <1>5, <1>8, <2>1, NotNamed
  <2>3. route = <<"openai", "responses">> /\ FromOpenAIHeld(client, src, tr)
    BY <1>1, <1>2, <1>8, ExpectsIs
  <2>4. PICK e : Runs(client, r.events, e) /\ FromOpenAIHeld(e, src', r.st)
    BY <1>3, <1>6, <1>8, <2>1, <2>3, OpenAIKept
  <2>5. Expects(route', src', kiro', fmt', tr', e)
    BY <1>1, <2>2, <2>3, <2>4, Zenon DEF Expects
  <2> QED
    BY <1>1, <1>3, <1>7, <2>2, <2>4, <2>5, Zenon DEF Answering
<1>9. CASE route[2] = "anthropic"
  <2>1. PICK order \in BlockOrders(tr) :
           LET r == translate_chunk(tr, c, order) IN tr' = r.st /\ out' = r.events
    BY <1>4, <1>5, <1>9, NotNamed
  <2>2. PICK r : r = translate_chunk(tr, c, order)
    OBVIOUS
  <2>3. tr' = r.st /\ out' = r.events
    BY <2>1, <2>2
  <2>4. route = <<"openai", "anthropic">> /\ FromOpenAIShown(client, src, tr)
    BY <1>1, <1>2, <1>9, ExpectsIs
  <2>5. PICK e : Runs(client, r.events, e) /\ FromOpenAIShown(e, src', r.st)
    BY <1>3, <1>6, <2>2, <2>4, BlocksKept
  <2>6. Expects(route', src', kiro', fmt', tr', e)
    BY <1>1, <2>3, <2>4, <2>5, Zenon DEF Expects
  <2> QED
    BY <1>1, <1>3, <1>7, <2>3, <2>5, <2>6, Zenon DEF Answering
<1> QED
  BY <1>4, <1>8, <1>9, <1>10

LEMMA NoMore ==
    ASSUME src.finished, src.n # 0
    PROVE  AnthropicItems = {}
BY DEF AnthropicItems

LEMMA FromAnthropicAnswering ==
    ASSUME Answering, FromAnthropic
    PROVE  ReasoningLate' \/ Answering'
<1>1. Polled /\ route[1] = "anthropic" /\ UNCHANGED <<route, kiro, client>>
  BY DEF FromAnthropic
<1>2. Expects(route, src, kiro, fmt, tr, client)
  BY <1>1, PolledIs
<1>3. route \in Routes /\ src \in SrcStates /\ kiro \in KiroStates
  BY DEF Answering
<1>4. PICK m \in AnthropicItems :
         LET e == translate_event(fmt, m.item)
             r == Through(transform_chunk, tr, e.events)
         IN src' = m.src /\ fmt' = e.st /\ tr' = r.st /\ out' = r.events
  BY Zenon DEF FromAnthropic
<1>5. PICK e : e = translate_event(fmt, m.item)
  OBVIOUS
<1>6. PICK r : r = Through(transform_chunk, tr, e.events)
  OBVIOUS
<1>7. src' = m.src /\ fmt' = e.st /\ tr' = r.st /\ out' = r.events
  BY <1>4, <1>5, <1>6
<1>8. route = <<"anthropic", "responses">> /\ FromAnthropicHeld(client, src, fmt, tr)
  BY <1>1, <1>2, ExpectsIs
<1>9. (src.finished => src.n # 0) /\ (src.n # 0 => src.begun)
  BY <1>8 DEF FromAnthropicHeld
<1>10. ~src.finished
  BY <1>4, <1>9, NoMore
<1>11. BlocksHeld(fmt, src, Len(tr.calls))
  BY <1>8, <1>10 DEF FromAnthropicHeld
<1>12. Next2(src, src', fmt, e, Len(tr.calls))
  BY <1>3, <1>4, <1>5, <1>7, <1>9, <1>11, AnthropicNext
<1>13. CASE src'.late
  <2>1. route'[2] = "responses"
    BY <1>1, <1>8, RouteNames
  <2> QED
    BY <1>13, <2>1 DEF ReasoningLate
<1>14. CASE ~src'.late
  <2>1. PICK g : Runs(client, r.events, g) /\ FromAnthropicHeld(g, src', e.st, r.st)
    BY <1>3, <1>6, <1>8, <1>10, <1>12, <1>14, AnthropicKept
  <2>2. Expects(route', src', kiro', fmt', tr', g)
    BY <1>1, <1>7, <1>8, <2>1, Zenon DEF Expects
  <2>3. src' \in SrcStates
    BY <1>12 DEF Next2
  <2>4. Answering'
    BY <1>1, <1>3, <1>7, <2>1, <2>2, <2>3, Zenon DEF Answering
  <2> QED
    BY <2>4
<1> QED
  BY <1>13, <1>14

LEMMA EndsAnswering ==
    ASSUME Answering, Ends
    PROVE  Answering'
<1>1. Polled /\ UNCHANGED <<route, kiro, fmt, client>> /\ route[1] # "kiro" /\ src' = [src EXCEPT !.ended = TRUE]
  BY DEF Ends
<1>2. Expects(route, src, kiro, fmt, tr, client)
  BY <1>1, PolledIs
<1>3. route \in Routes /\ src \in SrcStates /\ kiro \in KiroStates
  BY DEF Answering
<1>4. src' \in SrcStates /\ src'.ended
  BY <1>1, <1>3 DEF SrcStates
<1>5. PICK r : r = IF route[2] = "responses" THEN finalize(tr) ELSE Step(tr, <<>>)
  OBVIOUS
<1>6. out' = Append(r.events, Event("end"))
  BY <1>5 DEF Ends
<1>7. \E d : Runs(client, r.events, d) /\ Ready(d)
  <2>1. CASE route[2] = "responses"
    <3>1. Matches(client, tr)
      <4>1. route[1] \in {"openai", "anthropic"}
        BY <1>1, <1>2, RouteNames DEF Expects
      <4> QED
        BY <1>2, <2>1, <4>1, ExpectsIs DEF FromOpenAIHeld, FromAnthropicHeld
    <3>2. Follows(client, r)
      BY <1>5, <2>1, <3>1, FinalizeEnds
    <3> QED
      BY <3>2, MatchedReady DEF Follows
  <2>2. CASE route[2] # "responses"
    <3>1. r = Step(tr, <<>>)
      BY <1>5, <2>2
    <3>2. r.events = <<>>
      BY <3>1, StepIs
    <3> QED
      BY <1>2, <1>3, <3>2, NoEvents, ExpectedReady
  <2> QED
    BY <2>1, <2>2
<1>8. PICK d : Runs(client, r.events, d) /\ Ready(d)
  BY <1>7
<1>9. PICK x : Runs(d, <<Event("end")>>, x)
  BY <1>8, ReadyEnds, EndTypes
<1>10. Runs(client, out', x)
  BY <1>6, <1>8, <1>9, LastRead
<1> QED
  BY <1>1, <1>3, <1>4, <1>10, Zenon DEF Answering

LEMMA KiroLastSays ==
    ASSUME NEW k \in KiroStates
    PROVE  KiroSays(k, KiroEnds(k))
<1>1. PICK r : r = finalize_tool(k.acc)
  OBVIOUS
<1>2. Accumulated(r)
  BY <1>1, ToolFinal DEF KiroStates
<1>3. KiroEnds(k) = Step([k EXCEPT !.acc = r.st], Calls(r.events))
  BY <1>1 DEF KiroEnds
<1> QED
  BY <1>2, <1>3, ToolParsed

(* What the formatter makes of Kiro events, on either route.               *)
LEMMA ToResponses ==
    ASSUME NEW evs, route[2] = "responses"
    PROVE  LET g == ChunksOf(fmt, evs)
               h == Through(transform_chunk, tr, g.events)
           IN Formatted(evs) = [fmt |-> g.st, tr |-> h.st, out |-> h.events]
<1>1. route[2] # "anthropic"
  BY NotNamed
<1> QED
  BY <1>1, Zenon DEF Formatted, ChunksOf

LEMMA ToAnthropic ==
    ASSUME NEW evs, route[2] = "anthropic"
    PROVE  LET f == EventsOf(fmt, evs) IN Formatted(evs) = [fmt |-> f.st, tr |-> tr, out |-> f.events]
BY Zenon DEF Formatted, EventsOf

LEMMA FormattedResponses ==
    ASSUME route = <<"kiro", "responses">>, NEW d, NEW k, KiroHeld(d, k, fmt, tr), NEW r, KiroSays(k, r)
    PROVE  \E e : Runs(d, Formatted(r.events).out, e)
                  /\ KiroHeld(e, r.st, Formatted(r.events).fmt, Formatted(r.events).tr)
<1>1. route[2] = "responses"
  BY RouteNames
<1>2. PICK g : g = ChunksOf(fmt, r.events)
  OBVIOUS
<1>3. PICK h : h = Through(transform_chunk, tr, g.events)
  OBVIOUS
<1>4. Formatted(r.events) = [fmt |-> g.st, tr |-> h.st, out |-> h.events]
  BY <1>1, <1>2, <1>3, ToResponses
<1>5. \E e : Runs(d, h.events, e) /\ KiroHeld(e, r.st, g.st, h.st)
  BY <1>2, <1>3, KiroKept
<1> QED
  BY <1>4, <1>5

LEMMA FormattedAnthropic ==
    ASSUME route = <<"kiro", "anthropic">>, NEW d, NEW k, BlocksHeldOpen(d, fmt), NEW r, KiroSays(k, r)
    PROVE  \E e : Runs(d, Formatted(r.events).out, e) /\ BlocksHeldOpen(e, Formatted(r.events).fmt)
<1>1. route[2] = "anthropic"
  BY RouteNames
<1>2. PICK f : f = EventsOf(fmt, r.events)
  OBVIOUS
<1>3. Formatted(r.events) = [fmt |-> f.st, tr |-> tr, out |-> f.events]
  BY <1>1, <1>2, ToAnthropic
<1>4. fmt \in FormatStates
  BY DEF BlocksHeldOpen
<1>5. PICK it \in OpenAt(Count(fmt), 0..(Count(fmt) - 1)) : d = View("open", it)
  BY DEF BlocksHeldOpen
<1>6. r.events \in Seq(KiroEvents)
  BY SaysKiroEvents
<1>7. LeadsIn(fmt, f)
  BY <1>2, <1>4, <1>6, AllToAnthropic
<1>8. f.st \in FormatStates /\ LeadsF(fmt, f.events, f.st)
  BY <1>7 DEF LeadsIn
<1>9. PICK jt \in OpenAt(Count(f.st), 0..(Count(f.st) - 1)) : Runs(d, f.events, View("open", jt))
  BY <1>5, <1>8, Zenon DEF LeadsF, Leads
<1>10. BlocksHeldOpen(View("open", jt), f.st)
  BY <1>8, <1>9, Zenon DEF BlocksHeldOpen
<1> QED
  BY <1>3, <1>9, <1>10

LEMMA FromKiroAnswering ==
    ASSUME Answering, FromKiro
    PROVE  Answering'
<1>1. Polled /\ route[1] = "kiro" /\ UNCHANGED <<route, client>>
  BY DEF FromKiro
<1>2. Expects(route, src, kiro, fmt, tr, client)
  BY <1>1, PolledIs
<1>3. route \in Routes /\ src \in SrcStates /\ kiro \in KiroStates
  BY DEF Answering
<1>4. PICK m \in KiroItems :
         LET k == parse_kiro_event(kiro, m.item)
             r == Formatted(k.events)
         IN /\ src' = m.src /\ kiro' = k.st
            /\ fmt' = r.fmt /\ tr' = r.tr /\ out' = r.out
            /\ answer' = Collected(k.events)
  BY Zenon DEF FromKiro
<1>5. PICK k : k = parse_kiro_event(kiro, m.item)
  OBVIOUS
<1>6. PICK r : r = Formatted(k.events)
  OBVIOUS
<1>7. src' = m.src /\ kiro' = k.st /\ fmt' = r.fmt /\ tr' = r.tr /\ out' = r.out
  BY <1>4, <1>5, <1>6
<1>8. Next3(src, m.src, kiro, k)
  BY <1>3, <1>5, KiroNext
<1>9. src' \in SrcStates /\ KiroSays(kiro, k)
  BY <1>7, <1>8 DEF Next3
<1>10. kiro' \in KiroStates
  BY <1>7, <1>9 DEF KiroSays
<1>11. CASE route[2] = "responses"
  <2>1. route = <<"kiro", "responses">> /\ KiroHeld(client, kiro, fmt, tr)
    BY <1>1, <1>2, <1>11, ExpectsIs
  <2>2. PICK e : Runs(client, r.out, e) /\ KiroHeld(e, k.st, r.fmt, r.tr)
    BY <1>6, <1>9, <2>1, FormattedResponses
  <2>3. Expects(route', src', kiro', fmt', tr', e)
    BY <1>1, <1>7, <2>1, <2>2, Zenon DEF Expects
  <2> QED
    BY <1>1, <1>3, <1>7, <1>9, <1>10, <2>2, <2>3, Zenon DEF Answering
<1>12. CASE route[2] = "anthropic"
  <2>1. route = <<"kiro", "anthropic">> /\ BlocksHeldOpen(client, fmt)
    BY <1>1, <1>2, <1>12, ExpectsIs
  <2>2. PICK e : Runs(client, r.out, e) /\ BlocksHeldOpen(e, r.fmt)
    BY <1>6, <1>9, <2>1, FormattedAnthropic
  <2>3. Expects(route', src', kiro', fmt', tr', e)
    BY <1>1, <1>7, <2>1, <2>2, Zenon DEF Expects
  <2> QED
    BY <1>1, <1>3, <1>7, <1>9, <1>10, <2>2, <2>3, Zenon DEF Answering
<1> QED
  BY <1>2, <1>11, <1>12, ExpectsIs

-----------------------------------------------------------------------------
(* The end of Kiro's stream. *)
LEMMA LastToResponses ==
    ASSUME NEW d, NEW t, Matches(d, t), Free(t, FALSE), NEW f \in FormatStates, NEW calls \in Seq(KiroCalls)
    PROVE  LET c == Through(transform_chunk, t, FinalChunks(f, calls))
               z == finalize(c.st)
           IN \E x : \E y : Runs(d, c.events, x) /\ Runs(x, z.events, y) /\ Ready(y)
<1>1. PICK c : c = Through(transform_chunk, t, FinalChunks(f, calls))
  OBVIOUS
<1>2. PICK z : z = finalize(c.st)
  OBVIOUS
<1>3. Follows(d, c)
  BY <1>1, FinalFollows
<1>4. PICK x : Runs(d, c.events, x) /\ Matches(x, c.st)
  BY <1>3, Zenon DEF Follows
<1>5. Follows(x, z)
  BY <1>2, <1>4, FinalizeEnds
<1>6. PICK y : Runs(x, z.events, y) /\ Matches(y, z.st)
  BY <1>5, Zenon DEF Follows
<1>7. Ready(y)
  BY <1>6, MatchedReady
<1> QED
  BY <1>1, <1>2, <1>4, <1>6, <1>7

LEMMA AtLast ==
    ASSUME NEW c, NEW evs, NEW d, Runs(c, evs, d), Ready(d)
    PROVE  \E x : Runs(c, evs \o <<Event("end")>>, x)
<1>1. PICK x : Runs(d, <<Event("end")>>, x)
  BY ReadyEnds, EndTypes
<1> QED
  BY <1>1, RunsOn

LEMMA FreeAlways == ASSUME NEW q, NEW m, Free(q, m) PROVE Free(q, FALSE)
BY DEF Free

LEMMA KiroEndedAnswering ==
    ASSUME Answering, KiroEnded
    PROVE  Answering'
<1>1. Polled /\ route[1] = "kiro" /\ UNCHANGED <<route, client>> /\ src' = [src EXCEPT !.ended = TRUE]
  BY DEF KiroEnded
<1>2. Expects(route, src, kiro, fmt, tr, client)
  BY <1>1, PolledIs
<1>3. route \in Routes /\ src \in SrcStates /\ kiro \in KiroStates
  BY DEF Answering
<1>4. src' \in SrcStates /\ src'.ended
  BY <1>1, <1>3 DEF SrcStates
<1>5. PICK k : k = KiroEnds(kiro)
  OBVIOUS
<1>6. PICK r : r = Formatted(k.events)
  OBVIOUS
<1>7. /\ kiro' = k.st
      /\ \E ids \in IdOrders(r.fmt.tools) :
           LET calls == deduplicate_tool_calls(r.fmt.tools, ids) IN
           \/ /\ route[2] = "anthropic"
              /\ out' = r.out \o FinalEvents(r.fmt, calls) \o <<Event("end")>>
           \/ /\ route[2] = "responses"
              /\ LET c == Through(transform_chunk, r.tr, FinalChunks(r.fmt, calls))
                     f == finalize(c.st)
                 IN out' = r.out \o c.events \o f.events \o <<Event("end")>>
  BY <1>5, <1>6, Zenon DEF KiroEnded
<1>8. KiroSays(kiro, k)
  BY <1>3, <1>5, KiroLastSays
<1>9. kiro' \in KiroStates
  BY <1>7, <1>8 DEF KiroSays
<1>10. PICK ids \in IdOrders(r.fmt.tools) :
           LET calls == deduplicate_tool_calls(r.fmt.tools, ids) IN
           \/ /\ route[2] = "anthropic"
              /\ out' = r.out \o FinalEvents(r.fmt, calls) \o <<Event("end")>>
           \/ /\ route[2] = "responses"
              /\ LET c == Through(transform_chunk, r.tr, FinalChunks(r.fmt, calls))
                     f == finalize(c.st)
                 IN out' = r.out \o c.events \o f.events \o <<Event("end")>>
  BY <1>7
<1>11. PICK calls : calls = deduplicate_tool_calls(r.fmt.tools, ids)
  OBVIOUS
<1>12. r.fmt \in FormatStates => calls \in Seq(KiroCalls)
  BY <1>10, <1>11, FormatIs, DeduplicatedAre
<1>13. \E x : Runs(client, out', x)
  <2>1. CASE route[2] = "responses"
    <3>1. route = <<"kiro", "responses">> /\ KiroHeld(client, kiro, fmt, tr)
      BY <1>1, <1>2, <2>1, ExpectsIs
    <3>2. PICK d : Runs(client, r.out, d) /\ KiroHeld(d, k.st, r.fmt, r.tr)
      BY <1>6, <1>8, <3>1, FormattedResponses
    <3>3. Matches(d, r.tr) /\ Free(r.tr, FALSE) /\ r.fmt \in FormatStates
      BY <3>2, FreeAlways DEF KiroHeld
    <3>4. PICK c : c = Through(transform_chunk, r.tr, FinalChunks(r.fmt, calls))
      OBVIOUS
    <3>5. PICK z : z = finalize(c.st)
      OBVIOUS
    <3>6. out' = r.out \o c.events \o z.events \o <<Event("end")>>
      BY <1>10, <1>11, <2>1, <3>4, <3>5, NotNamed
    <3>7. PICK x : \E y : Runs(d, c.events, x) /\ Runs(x, z.events, y) /\ Ready(y)
      BY <1>12, <3>3, <3>4, <3>5, LastToResponses
    <3>8. PICK y : Runs(d, c.events, x) /\ Runs(x, z.events, y) /\ Ready(y)
      BY <3>7
    <3>9. Runs(client, r.out \o c.events, x)
      BY <3>2, <3>8, RunsOn
    <3>10. Runs(client, (r.out \o c.events) \o z.events, y)
      BY <3>8, <3>9, RunsOn
    <3> QED
      BY <3>6, <3>8, <3>10, AtLast
  <2>2. CASE route[2] = "anthropic"
    <3>1. route = <<"kiro", "anthropic">> /\ BlocksHeldOpen(client, fmt)
      BY <1>1, <1>2, <2>2, ExpectsIs
    <3>2. PICK d : Runs(client, r.out, d) /\ BlocksHeldOpen(d, r.fmt)
      BY <1>6, <1>8, <3>1, FormattedAnthropic
    <3>3. r.fmt \in FormatStates
      BY <3>2 DEF BlocksHeldOpen
    <3>4. PICK it \in OpenAt(Count(r.fmt), 0..(Count(r.fmt) - 1)) : d = View("open", it)
      BY <3>2 DEF BlocksHeldOpen
    <3>5. PICK z : z = FinalEvents(r.fmt, calls)
      OBVIOUS
    <3>6. out' = r.out \o z \o <<Event("end")>>
      BY <1>10, <1>11, <2>2, <3>5, NotNamed
    <3>7. PICK jt : Runs(View("open", it), z, View("completed", jt))
      BY <1>12, <3>3, <3>4, <3>5, FinalLeads
    <3>8. Runs(client, r.out \o z, View("completed", jt))
      BY <3>2, <3>4, <3>7, RunsOn
    <3>9. Ready(View("completed", jt))
      BY DEF Ready
    <3> QED
      BY <3>6, <3>8, <3>9, AtLast
  <2> QED
    BY <1>2, <2>1, <2>2, ExpectsIs
<1> QED
  BY <1>1, <1>3, <1>4, <1>9, <1>13, Zenon DEF Answering

NoItems == [i \in {} |-> <<>>]

LEMMA NoItemsAre ==
    /\ NoItems \in ItemLists(0) /\ NoItems \in OpenAt(0, {}) /\ NoItems \in OpenAt(0, 0..(0 - 1))
<1>1. 0..(0 - 1) = {}
  OBVIOUS
<1>2. \A R : [i \in {} |-> <<>>] \in [{} -> R]
  OBVIOUS
<1>3. NoItems \in ItemLists(0)
  BY <1>1, <1>2, Zenon DEF NoItems, ItemLists
<1>4. \A i \in 0..(0 - 1) : FALSE
  BY <1>1
<1> QED
  BY <1>3, <1>4 DEF OpenAt

LEMMA NewMatches ==
    /\ Matches(View("none", NoItems), NewTransformer)
    /\ \A m : Free(NewTransformer, m)
    /\ NewTransformer.phase = 0 /\ Len(NewTransformer.calls) = 0
<1>1. PICK q : q = NewTransformer
  OBVIOUS
<1>0. /\ <<>> \in Seq(Atoms) /\ <<>> \in Seq(CallRecords) /\ <<>> \in Seq(Seq(Atoms))
      /\ None \in Finishes
  BY DEF Finishes
<1>2. /\ q.phase = 0 /\ q.had_reasoning = FALSE /\ q.reasoning = <<>> /\ q.message = <<>>
      /\ q.calls = <<>> /\ q.images = <<>> /\ q.finish = None /\ q \in TrStates
  BY <1>0, <1>1 DEF NewTransformer, TrStates, NotStarted
<1>3. Len(q.calls) = 0
  BY <1>2
<1>4. CountOf(q) = 0
  BY <1>2 DEF CountOf, message_output_index
<1>5. Coherent(q)
  BY <1>2 DEF Coherent
<1>6. Shown(q, NoItems)
  <2>1. PICK z : z = NoItems
    OBVIOUS
  <2>2. z \in ItemLists(CountOf(q))
    BY <1>4, <2>1, NoItemsAre
  <2>3. ~q.had_reasoning /\ q.phase # 4
    BY <1>2
  <2>4. Shown(q, z)
    BY <2>2, <2>3, Zenon DEF Shown
  <2> QED
    BY <2>1, <2>4
<1>7. Matches(View("none", NoItems), q)
  BY <1>2, <1>5, <1>6 DEF Matches
<1>8. \A m : Free(q, m)
  BY <1>2, <1>3 DEF Free
<1> QED
  BY <1>1, <1>2, <1>3, <1>7, <1>8

LEMMA NewBlocks ==
    LET t == NewToAnthropic IN
    BlocksOk(t) /\ ~t.started /\ BlockCount(t) = 0 /\ OpenBlocks(t) = {}
<1>1. PICK t : t = NewToAnthropic
  OBVIOUS
<1>2. PICK f : f = [x \in {} |-> 0]
  OBVIOUS
<1>3. f \in [{} -> Nat] /\ DOMAIN f = {}
  BY <1>2
<1>4. f \in Maps
  BY <1>3 DEF Maps
<1>5. Range(f) = {}
  BY <1>3 DEF Range
<1>6. t = [started |-> FALSE, text_open |-> FALSE, index |-> 0, tools |-> f]
  BY <1>1, <1>2 DEF NewToAnthropic
<1>7. t \in BlockStates /\ t.started = FALSE /\ t.text_open = FALSE /\ t.index = 0 /\ t.tools = f
  BY <1>4, <1>6 DEF BlockStates
<1>8. BlocksOk(t)
  BY <1>5, <1>7 DEF BlocksOk
<1>9. BlockCount(t) = 0 /\ OpenBlocks(t) = {}
  BY <1>5, <1>7 DEF BlockCount, OpenBlocks
<1> QED
  BY <1>1, <1>7, <1>8, <1>9

LEMMA NoneHeld ==
    ASSUME NEW s, s.block = None, s.blocks = 0
    PROVE  BlocksHeld(NewToOpenAI, s, 0)
<1>1. PICK f : f = NewToOpenAI
  OBVIOUS
<1>2. DOMAIN f = {}
  BY <1>1 DEF NewToOpenAI
<1>3. f \in [DOMAIN f -> ToolBlocks]
  BY <1>1, <1>2 DEF NewToOpenAI
<1>4. Cardinality(DOMAIN f) = 0
  BY <1>2, FS_EmptySet
<1>5. None # "function_call"
  BY StreamAssumption
<1> QED
  BY <1>1, <1>2, <1>3, <1>4, <1>5 DEF BlocksHeld

LEMMA NewKiroIs == NewKiro \in KiroStates
<1>1. PICK p : p = NewThinking
  OBVIOUS
<1>2. PICK a : a = NewAccumulator
  OBVIOUS
<1>3. p \in KiroParsers
  BY <1>1 DEF NewThinking, KiroParsers
<1>4. a \in KiroAccumulators
  BY <1>2 DEF NewAccumulator, KiroAccumulators
<1> QED
  BY <1>1, <1>2, <1>3, <1>4 DEF NewKiro, KiroStates

LEMMA NewFormatIs == NewFormat \in FormatStates /\ Count(NewFormat) = 0
<1>1. PICK f : f = NewFormat
  OBVIOUS
<1>2. <<>> \in BlockLists /\ <<>> \in Seq(KiroCalls) /\ <<>> \in Seq(Atoms)
  BY DEF BlockLists
<1>3. f \in FormatStates /\ f.blocks = <<>>
  BY <1>1, <1>2 DEF NewFormat, FormatStates
<1>4. Len(f.blocks) = 0
  BY <1>3
<1> QED
  BY <1>1, <1>3, <1>4 DEF Count

LEMMA SrcAtFirst ==
    ASSUME FormatInit
    PROVE  /\ src \in SrcStates /\ ~src.finished /\ src.block = None /\ src.blocks = 0 /\ src.calls = 0
           /\ src.n = 0 /\ ~src.late
<1>1. PICK h : h = [k \in Kinds |-> <<>>]
  OBVIOUS
<1>2. h \in [Kinds -> Seq(Atoms)]
  BY <1>1
<1>3. src = [n |-> 0, begun |-> FALSE, late |-> FALSE, calls |-> 0, block |-> None,
              blocks |-> 0, finished |-> FALSE, ended |-> FALSE, sent |-> h]
  BY <1>1, Zenon DEF FormatInit
<1> QED
  BY <1>2, <1>3 DEF SrcStates

LEMMA InitAnswering ==
    ASSUME FormatInit
    PROVE  Answering
<1>1. /\ route \in Routes /\ kiro = NewKiro
      /\ fmt = IF route[1] = "kiro" THEN NewFormat ELSE NewToOpenAI
      /\ tr = IF route[2] = "responses" THEN NewTransformer ELSE NewToAnthropic
      /\ out = IF route = <<"kiro", "anthropic">> THEN <<Event("message_start")>> ELSE <<>>
      /\ client = View("none", NoItems)
  BY DEF FormatInit, View, NoItems
<1>2. /\ src \in SrcStates /\ ~src.finished /\ src.block = None /\ src.blocks = 0 /\ src.calls = 0
      /\ src.n = 0 /\ ~src.late
  BY SrcAtFirst
<1>3. kiro \in KiroStates
  BY <1>1, NewKiroIs
<1>4. CASE route = <<"kiro", "anthropic">>
  <2>1. fmt = NewFormat
    BY <1>1, <1>4, RouteNames
  <2>2. Event("message_start").type = "message_start"
    BY DEF Event
  <2>3. Runs(client, out, View("open", NoItems))
    BY <1>1, <1>4, <2>2, NoItemsAre, ReadStart
  <2>4. BlocksHeldOpen(View("open", NoItems), fmt)
    BY <2>1, NewFormatIs, NoItemsAre DEF BlocksHeldOpen
  <2>5. Expects(route, src, kiro, fmt, tr, View("open", NoItems))
    BY <1>4, <2>4 DEF Expects
  <2> QED
    BY <1>1, <1>2, <1>3, <2>3, <2>5 DEF Answering
<1>5. CASE route # <<"kiro", "anthropic">>
  <2>1. out = <<>>
    BY <1>1, <1>5
  <2>2. Runs(client, out, client)
    BY <2>1, NoEvents
  <2>3. Expects(route, src, kiro, fmt, tr, client)
    <3>1. CASE route = <<"openai", "responses">>
      <4>1. tr = NewTransformer
        BY <1>1, <3>1, RouteNames
      <4>2. FromOpenAIHeld(client, src, tr)
        BY <1>1, <1>2, <4>1, NewMatches DEF FromOpenAIHeld
      <4> QED
        BY <3>1, <4>2 DEF Expects
    <3>2. CASE route = <<"openai", "anthropic">>
      <4>1. tr = NewToAnthropic
        BY <1>1, <3>2, RouteNames, NotNamed
      <4>2. FromOpenAIShown(client, src, tr)
        BY <1>1, <1>2, <4>1, NewBlocks, NoItemsAre DEF FromOpenAIShown
      <4> QED
        BY <3>2, <4>2 DEF Expects
    <3>3. CASE route = <<"anthropic", "responses">>
      <4>1. tr = NewTransformer /\ fmt = NewToOpenAI
        BY <1>1, <3>3, RouteNames, NotNamed
      <4>2. BlocksHeld(fmt, src, Len(tr.calls))
        BY <1>2, <4>1, NoneHeld, NewMatches
      <4>3. FromAnthropicHeld(client, src, fmt, tr)
        BY <1>1, <1>2, <4>1, <4>2, NewMatches DEF FromAnthropicHeld
      <4> QED
        BY <3>3, <4>3 DEF Expects
    <3>4. CASE route = <<"kiro", "responses">>
      <4>1. tr = NewTransformer /\ fmt = NewFormat
        BY <1>1, <3>4, RouteNames
      <4>2. KiroHeld(client, kiro, fmt, tr)
        BY <1>1, <4>1, NewMatches, NewFormatIs DEF KiroHeld
      <4> QED
        BY <3>4, <4>2 DEF Expects
    <3> QED
      BY <1>1, <1>5, <3>1, <3>2, <3>3, <3>4, RoutesAre
  <2> QED
    BY <1>1, <1>2, <1>3, <2>2, <2>3 DEF Answering
<1> QED
  BY <1>4, <1>5

LEMMA NextAnswering ==
    ASSUME Answering, [FormatNext]_formatVars
    PROVE  (ReasoningLate' \/ Answering') /\ Permitted(client, client')
<1>1. ASSUME UNCHANGED client PROVE Permitted(client, client')
  BY <1>1 DEF Permitted
<1>2. CASE FromOpenAI
  BY <1>1, <1>2, FromOpenAIAnswering DEF FromOpenAI
<1>3. CASE FromAnthropic
  BY <1>1, <1>3, FromAnthropicAnswering DEF FromAnthropic
<1>4. CASE FromKiro
  BY <1>1, <1>4, FromKiroAnswering DEF FromKiro
<1>5. CASE Ends
  BY <1>1, <1>5, EndsAnswering DEF Ends
<1>6. CASE KiroEnded
  BY <1>1, <1>6, KiroEndedAnswering DEF KiroEnded
<1>7. CASE Fails
  BY <1>1, <1>7, FailsAnswering DEF Fails
<1>8. CASE Yield
  BY <1>8, YieldAnswering
<1>9. CASE UNCHANGED formatVars
  <2>1. UNCHANGED <<route, src, kiro, fmt, tr, out, client>>
    BY <1>9 DEF formatVars
  <2> QED
    BY <1>1, <2>1 DEF Answering
<1> QED
  BY <1>2, <1>3, <1>4, <1>5, <1>6, <1>7, <1>8, <1>9, Zenon DEF FormatNext

-----------------------------------------------------------------------------
(* A late reasoning stays so, and Kiro's stream has none.                  *)
LEMMA SaysLate ==
    ASSUME NEW s \in SrcStates, src.late => s.late, NEW item, NEW m, m = Says(s, item)
    PROVE  m.src \in SrcStates /\ (src.late => m.src.late)
<1>1. Like(m.src, s)
  BY SaysIs
<1> QED
  BY <1>1 DEF Like

LEMMA OpenAILate ==
    ASSUME src \in SrcStates, NEW m \in OpenAIItems
    PROVE  m.src \in SrcStates /\ (src.late => m.src.late)
<1>0. src.late \in BOOLEAN
  BY SrcTypes
<1>1. ASSUME NEW s \in SrcStates, src.late => s.late, NEW item, m = Says(s, item)
      PROVE  m.src \in SrcStates /\ (src.late => m.src.late)
  BY <1>1, SaysLate
<1>2. ASSUME NEW k \in Kinds, NEW x \in Seq(Atoms)
      PROVE  Said(k, x) \in SrcStates /\ (src.late => Said(k, x).late)
  <2>1. Said(k, x) \in SrcStates /\ Said(k, x).late = (src.late \/ (k = "reasoning" /\ src.begun))
    BY SaidIs
  <2> QED
    BY <1>0, <2>1
<1>3. CASE \E item : m = Says(src, item)
  BY <1>1, <1>3
<1>4. CASE \E item : m = Says([src EXCEPT !.begun = TRUE], item)
  <2>1. [src EXCEPT !.begun = TRUE] \in SrcStates /\ [src EXCEPT !.begun = TRUE].late = src.late
    BY StartMoved
  <2> QED
    BY <1>1, <1>4, <2>1
<1>5. CASE \E k \in Kinds, x \in Seq(Atoms) : \E item : m = Says(Said(k, x), item)
  BY <1>1, <1>2, <1>5
<1>6. CASE \E k \in Kinds, x \in Seq(Atoms) : \E item : m = Says([Said(k, x) EXCEPT !.calls = @ + 1], item)
  <2>1. PICK k \in Kinds, x \in Seq(Atoms) : \E item : m = Says([Said(k, x) EXCEPT !.calls = @ + 1], item)
    BY <1>6
  <2>2. PICK u : u = Said(k, x)
    OBVIOUS
  <2>3. u \in SrcStates /\ (src.late => u.late)
    BY <1>2, <2>2
  <2>4. [u EXCEPT !.calls = @ + 1] \in SrcStates /\ [u EXCEPT !.calls = @ + 1].late = u.late
    BY <2>3, CallsMoved
  <2> QED
    BY <1>1, <2>1, <2>2, <2>3, <2>4
<1>7. CASE \E k \in Kinds, x \in Seq(Atoms) : \E item : m = Says([Said(k, x) EXCEPT !.finished = TRUE], item)
  <2>1. PICK k \in Kinds, x \in Seq(Atoms) : \E item : m = Says([Said(k, x) EXCEPT !.finished = TRUE], item)
    BY <1>7
  <2>2. PICK u : u = Said(k, x)
    OBVIOUS
  <2>3. u \in SrcStates /\ (src.late => u.late)
    BY <1>2, <2>2
  <2>4. [u EXCEPT !.finished = TRUE] \in SrcStates /\ [u EXCEPT !.finished = TRUE].late = u.late
    BY <2>3, FinishedMoved
  <2> QED
    BY <1>1, <2>1, <2>2, <2>3, <2>4
<1>8. /\ "message" \in Kinds /\ "reasoning" \in Kinds /\ "function_call" \in Kinds /\ "image_generation_call" \in Kinds
      /\ <<>> \in Seq(Atoms) /\ <<"r">> \in Seq(Atoms) /\ <<"t">> \in Seq(Atoms)
      /\ <<"i">> \in Seq(Atoms) /\ <<"a">> \in Seq(Atoms)
  BY KindsAre, SomeText
<1>9. \/ \E item : m = Says(src, item)
      \/ \E item : m = Says([src EXCEPT !.begun = TRUE], item)
      \/ \E item : m = Says(Said("reasoning", <<"r">>), item)
      \/ \E item : m = Says(Said("message", <<"t">>), item)
      \/ \E item : m = Says(Said("image_generation_call", <<"i">>), item)
      \/ \E args \in {<<>>, <<"a">>} : \E item : m = Says([Said("function_call", args) EXCEPT !.calls = @ + 1], item)
      \/ \E item : m = Says(Said("function_call", <<"a">>), item)
      \/ \E text \in {<<>>, <<"t">>} : \E item : m = Says([Said("message", text) EXCEPT !.finished = TRUE], item)
  BY Zenon DEF OpenAIItems
<1>10. \A x \in {<<>>, <<"a">>} \cup {<<>>, <<"t">>} : x \in Seq(Atoms)
  BY <1>8
<1> QED
  BY <1>3, <1>4, <1>5, <1>6, <1>7, <1>8, <1>9, <1>10

LEMMA AnthropicLate ==
    ASSUME src \in SrcStates, NEW m \in AnthropicItems
    PROVE  m.src \in SrcStates /\ (src.late => m.src.late)
<1>0. /\ src.late \in BOOLEAN /\ src.block \in {None} \cup BlockKinds /\ None \notin BlockKinds
      /\ "message" \in BlockKinds
  BY SrcTypes, StreamAssumption DEF BlockKinds
<1>1. ASSUME NEW s \in SrcStates, src.late => s.late, NEW item, m = Says(s, item)
      PROVE  m.src \in SrcStates /\ (src.late => m.src.late)
  BY <1>1, SaysLate
<1>2. CASE \E item : m = Says([src EXCEPT !.begun = TRUE], item)
  <2>1. [src EXCEPT !.begun = TRUE] \in SrcStates /\ [src EXCEPT !.begun = TRUE].late = src.late
    BY StartMoved
  <2> QED
    BY <1>1, <1>2, <2>1
<1>3. CASE \E k \in BlockKinds : \E item : m = Says([src EXCEPT !.block = k, !.calls = 0], item)
  <2>1. PICK k \in BlockKinds : \E item : m = Says([src EXCEPT !.block = k, !.calls = 0], item)
    BY <1>3
  <2>2. /\ [src EXCEPT !.block = k, !.calls = 0] \in SrcStates
        /\ [src EXCEPT !.block = k, !.calls = 0].late = src.late
    BY BlockMoved
  <2> QED
    BY <1>1, <2>1, <2>2
<1>4. CASE \E item : m = Says([src EXCEPT !.finished = TRUE], item)
  <2>1. [src EXCEPT !.finished = TRUE] \in SrcStates /\ [src EXCEPT !.finished = TRUE].late = src.late
    BY FinishedMoved
  <2> QED
    BY <1>1, <1>4, <2>1
<1>5. CASE \E item : src.block # None /\ m = Says([Said(src.block, <<src.block>>) EXCEPT !.calls = 1], item)
  <2>1. PICK item : m = Says([Said(src.block, <<src.block>>) EXCEPT !.calls = 1], item)
    BY <1>5
  <2>2. PICK x : x = <<src.block>>
    OBVIOUS
  <2>3. src.block \in Kinds /\ x \in Seq(Atoms)
    BY <1>0, <1>5, <2>2, KindsAre, SymbolsAre, OneSymbol DEF BlockKinds
  <2>4. PICK u : u = Said(src.block, x)
    OBVIOUS
  <2>5. u \in SrcStates /\ u.late = (src.late \/ (src.block = "reasoning" /\ src.begun))
    BY <2>3, <2>4, SaidIs
  <2>6. [u EXCEPT !.calls = 1] \in SrcStates /\ [u EXCEPT !.calls = 1].late = u.late
    BY <1>0, <2>5, BlockMoved
  <2>7. src.late => u.late
    BY <1>0, <2>5
  <2> QED
    BY <1>1, <2>1, <2>2, <2>4, <2>6, <2>7
<1>6. CASE \E item : m = Says([src EXCEPT !.block = None, !.blocks = @ + 1], item)
  <2>1. /\ [src EXCEPT !.block = None, !.blocks = @ + 1] \in SrcStates
        /\ [src EXCEPT !.block = None, !.blocks = @ + 1].late = src.late
    BY <1>0, BlockMoved
  <2> QED
    BY <1>1, <1>6, <2>1
<1>7. \/ \E item : m = Says([src EXCEPT !.begun = TRUE], item)
      \/ \E k \in BlockKinds : \E item : m = Says([src EXCEPT !.block = k, !.calls = 0], item)
      \/ \E item : m = Says([src EXCEPT !.finished = TRUE], item)
      \/ \E item : src.block # None /\ m = Says([Said(src.block, <<src.block>>) EXCEPT !.calls = 1], item)
      \/ \E item : m = Says([src EXCEPT !.block = None, !.blocks = @ + 1], item)
  BY Zenon DEF AnthropicItems
<1> QED
  BY <1>2, <1>3, <1>4, <1>5, <1>6, <1>7

LEMMA SrcNext ==
    ASSUME src \in SrcStates, kiro \in KiroStates \/ route[1] # "kiro", [FormatNext]_formatVars
    PROVE  /\ src' \in SrcStates /\ (src.late => src'.late) /\ route' = route
           /\ route[1] = "kiro" => src'.late = src.late
<1>1. CASE FromOpenAI
  <2>1. PICK m \in OpenAIItems : src' = m.src
    BY <1>1, Zenon DEF FromOpenAI
  <2>2. route' = route /\ route[1] # "kiro"
    BY <1>1, NotNamed DEF FromOpenAI
  <2> QED
    BY <2>1, <2>2, OpenAILate
<1>2. CASE FromAnthropic
  <2>1. PICK m \in AnthropicItems : src' = m.src
    BY <1>2, Zenon DEF FromAnthropic
  <2>2. route' = route /\ route[1] # "kiro"
    BY <1>2, NotNamed DEF FromAnthropic
  <2> QED
    BY <2>1, <2>2, AnthropicLate
<1>3. CASE FromKiro
  <2>1. PICK m \in KiroItems : src' = m.src
    BY <1>3, Zenon DEF FromKiro
  <2>2. route' = route /\ kiro \in KiroStates
    BY <1>3 DEF FromKiro
  <2>3. Next3(src, m.src, kiro, parse_kiro_event(kiro, m.item))
    BY <2>2, KiroNext
  <2> QED
    BY <2>1, <2>2, <2>3 DEF Next3
<1>4. CASE Ends \/ KiroEnded \/ Fails
  <2>1. src' = [src EXCEPT !.ended = TRUE] /\ route' = route
    BY <1>4 DEF Ends, KiroEnded, Fails
  <2> QED
    BY <2>1 DEF SrcStates
<1>5. CASE Yield \/ UNCHANGED formatVars
  BY <1>5 DEF Yield, formatVars
<1> QED
  BY <1>1, <1>2, <1>3, <1>4, <1>5, Zenon DEF FormatNext

(* The invariant: the answer is as it should be, unless a reasoning came   *)
(* late.                                                                   *)
Sound ==
    /\ src \in SrcStates
    /\ route[1] = "kiro" => ~src.late
    /\ ReasoningLate \/ Answering

LEMMA KiroSound ==
    ASSUME Sound, route[1] = "kiro"
    PROVE  Answering
BY DEF Sound, ReasoningLate

LEMMA InitSound ==
    ASSUME FormatInit
    PROVE  Sound
BY SrcAtFirst, InitAnswering DEF Sound

LEMMA NextSound ==
    ASSUME Sound, [FormatNext]_formatVars
    PROVE  Sound' /\ (ReasoningLate \/ Permitted(client, client'))
<1>1. src \in SrcStates /\ src.late \in BOOLEAN
  BY SrcTypes DEF Sound
<1>2. kiro \in KiroStates \/ route[1] # "kiro"
  BY KiroSound DEF Answering
<1>3. /\ src' \in SrcStates /\ (src.late => src'.late) /\ route' = route
      /\ route[1] = "kiro" => src'.late = src.late
  BY <1>1, <1>2, SrcNext
<1>4. route'[1] = "kiro" => ~src'.late
  BY <1>3 DEF Sound
<1>5. CASE ReasoningLate
  <2>1. ReasoningLate'
    BY <1>3, <1>5 DEF ReasoningLate
  <2> QED
    BY <1>3, <1>4, <1>5, <2>1 DEF Sound
<1>6. CASE ~ReasoningLate
  <2>1. Answering
    BY <1>6 DEF Sound
  <2>2. (ReasoningLate' \/ Answering') /\ Permitted(client, client')
    BY <2>1, NextAnswering
  <2> QED
    BY <1>3, <1>4, <2>2 DEF Sound
<1> QED
  BY <1>5, <1>6

-----------------------------------------------------------------------------
(* Whatever a provider streams, however it is translated, transformed and  *)
(* formatted, and wherever it breaks off, a client that reads the events   *)
(* one by one has the answer grow as the protocol of its API says: it      *)
(* begins once, its items open at 0, 1, 2, ..., a fragment goes into an    *)
(* open item, a closing repeats the item's text, the answer is complete    *)
(* only with every item closed, and nothing follows its end; on the way to *)
(* the Responses API, as long as no reasoning comes after the role by      *)
(* itself, a text or a call.                                               *)
THEOREM ProtocolKept == FormatSpec => KeepsProtocol
<1>1. FormatInit => Sound /\ Protocol!Init
  BY InitSound DEF FormatInit, Protocol!Init
<1>2. Sound /\ [FormatNext]_formatVars
        => Sound' /\ [ReasoningLate \/ Protocol!Next]_<<client.status, client.items>>
  <2>1. SUFFICES ASSUME Sound, [FormatNext]_formatVars
                 PROVE  Sound' /\ [ReasoningLate \/ Protocol!Next]_<<client.status, client.items>>
    OBVIOUS
  <2>2. Sound' /\ (ReasoningLate \/ Permitted(client, client'))
    BY <2>1, NextSound
  <2> QED
    BY <2>2, AllowedSteps
<1> QED
  BY <1>1, <1>2, PTL DEF FormatSpec, KeepsProtocol

-----------------------------------------------------------------------------
(* What the deduplication of calls keeps: of each call itself, or another  *)
(* with its id or its arguments.                                           *)
Has(s, x) == \E j \in 1..Len(s) : s[j] = x

LEMMA JoinedHas ==
    ASSUME NEW T, NEW n \in Nat, NEW B, \A i \in 1..n : B[i] \in Seq(T), NEW f, JoinUpto(n, B, f),
           NEW i \in 1..n, NEW x, B[i] = <<x>>
    PROVE  Has(f[n], x)
<1>1. f[0] = <<>> /\ \A m \in 1..n : f[m] = f[m - 1] \o B[m]
  <2>1. f = [m \in 0..n |-> IF m = 0 THEN <<>> ELSE f[m - 1] \o B[m]]
    BY DEF JoinUpto
  <2>2. \A m \in 1..n : m \in 0..n /\ m # 0
    OBVIOUS
  <2>3. 0 \in 0..n
    OBVIOUS
  <2> QED
    BY <2>1, <2>2, <2>3
<1>2. PICK P : P = {m \in Nat : m <= n =>
                      f[m] \in Seq(T) /\ (i <= m => \E j \in 1..Len(f[m]) : f[m][j] = x)}
  OBVIOUS
<1>3. 0 \in P
  <2>1. <<>> \in Seq(T) /\ ~(i <= 0)
    OBVIOUS
  <2> QED
    BY <1>1, <1>2, <2>1
<1>4. ASSUME NEW m \in Nat, m \in P PROVE m + 1 \in P
  <2>1. SUFFICES ASSUME m + 1 <= n
                 PROVE  f[m + 1] \in Seq(T) /\ (i <= m + 1 => \E j \in 1..Len(f[m + 1]) : f[m + 1][j] = x)
    BY <1>2
  <2>2. m + 1 \in 1..n /\ (m + 1) - 1 = m /\ m <= n
    BY <2>1
  <2>3. f[m] \in Seq(T) /\ (i <= m => \E j \in 1..Len(f[m]) : f[m][j] = x)
    BY <1>2, <1>4, <2>2
  <2>4. PICK a : a = f[m]
    OBVIOUS
  <2>5. PICK b : b = B[m + 1]
    OBVIOUS
  <2>6. PICK c : c = a \o b
    OBVIOUS
  <2>7. f[m + 1] = c
    BY <1>1, <2>2, <2>4, <2>5, <2>6
  <2>8. a \in Seq(T) /\ b \in Seq(T)
    BY <2>2, <2>3, <2>4, <2>5
  <2>9. /\ c \in Seq(T) /\ Len(c) = Len(a) + Len(b)
        /\ \A j \in 1..Len(a) : c[j] = a[j]
        /\ \A j \in 1..Len(b) : c[Len(a) + j] = b[j]
    BY <2>6, <2>8
  <2>10. ASSUME i <= m + 1 PROVE \E j \in 1..Len(c) : c[j] = x
    <3>1. CASE i <= m
      <4>1. PICK j \in 1..Len(a) : a[j] = x
        BY <2>3, <2>4, <3>1
      <4>2. j \in 1..Len(c)
        BY <2>8, <2>9
      <4> QED
        BY <2>9, <4>1, <4>2
    <3>2. CASE i = m + 1
      <4>1. b = <<x>>
        BY <2>5, <3>2
      <4>2. Len(b) = 1 /\ b[1] = x
        BY <4>1
      <4>3. Len(a) + 1 \in 1..Len(c) /\ c[Len(a) + 1] = x
        BY <2>8, <2>9, <4>2
      <4> QED
        BY <4>3
    <3> QED
      BY <2>10, <3>1, <3>2
  <2> QED
    BY <2>7, <2>9, <2>10
<1>5. n \in P
  BY <1>3, <1>4, Upwards
<1> QED
  BY <1>2, <1>5 DEF Has

LEMMA WithoutHas ==
    ASSUME NEW T, NEW tools \in Seq(T), NEW i \in 1..Len(tools), tools[i].id = None
    PROVE  \E j \in 1..Len(WithoutId(tools)) : WithoutId(tools)[j] = tools[i]
<1>1. PICK n \in Nat : n = Len(tools)
  OBVIOUS
<1>2. PICK B : B = [k \in 1..n |-> IF tools[k].id = None THEN <<tools[k]>> ELSE <<>>]
  OBVIOUS
<1>3. \A k \in 1..n : B[k] = IF tools[k].id = None THEN <<tools[k]>> ELSE <<>>
  BY <1>2
<1>4. \A k \in 1..n : B[k] \in Seq(T)
  <2>1. ASSUME NEW k \in 1..n PROVE B[k] \in Seq(T)
    <3>1. tools[k] \in T
      BY <1>1
    <3>2. <<tools[k]>> \in Seq(T) /\ <<>> \in Seq(T)
      BY <3>1
    <3> QED
      BY <1>3, <3>2
  <2> QED
    BY <2>1
<1>5. ASSUME NEW f PROVE WithoutUpto(tools, f) <=> JoinUpto(n, B, f)
  <2>1. [k \in 0..n |-> IF k = 0 THEN <<>>
                        ELSE f[k - 1] \o (IF tools[k].id = None THEN <<tools[k]>> ELSE <<>>)]
          = [k \in 0..n |-> IF k = 0 THEN <<>> ELSE f[k - 1] \o B[k]]
    <3>1. \A k \in 0..n : k # 0 => B[k] = IF tools[k].id = None THEN <<tools[k]>> ELSE <<>>
      BY <1>3
    <3> QED
      BY <3>1
  <2> QED
    BY <1>1, <2>1 DEF WithoutUpto, JoinUpto
<1>6. PICK g : g = CHOOSE f : WithoutUpto(tools, f)
  OBVIOUS
<1>7. \E f : WithoutUpto(tools, f)
  <2>1. PICK f : JoinUpto(n, B, f)
    BY <1>4, JoinsUp
  <2> QED
    BY <1>5, <2>1
<1>8. WithoutUpto(tools, g)
  BY <1>6, <1>7, Zenon
<1>9. WithoutId(tools) = g[n]
  BY <1>1, <1>6, Zenon DEF WithoutId, WithoutUpto
<1>13. PICK x : x = tools[i]
  OBVIOUS
<1>0. i \in 1..n /\ B[i] = <<x>>
  BY <1>1, <1>3, <1>13
<1>11. JoinUpto(n, B, g)
  BY <1>5, <1>8
<1>12. Has(g[n], x)
  BY <1>0, <1>4, <1>11, JoinedHas
<1> QED
  BY <1>9, <1>13, <1>12 DEF Has

Twins(s, t) == s.name = t.name /\ s.input = t.input

TwinKept(all, i, calls) ==
    \E j \in 1..Len(calls), k \in 1..Len(all) : calls[j] = all[k] /\ Twins(all[k], all[i])

(* Of calls with the same name and arguments the first is kept.            *)
LEMMA KeptHas ==
    ASSUME NEW T, NEW all \in Seq(T), NEW g, g = CHOOSE f : KeptUpto(all, f), NEW i \in 1..Len(all)
    PROVE  TwinKept(all, i, g[Len(all)])
<1> DEFINE Twin(m) == \E k \in 1..(m - 1) : all[k].name = all[m].name /\ all[k].input = all[m].input
<1>1. PICK n \in Nat : n = Len(all)
  OBVIOUS
<1>2. PICK B : B = [m \in 1..n |-> IF Twin(m) THEN <<>> ELSE <<all[m]>>]
  OBVIOUS
<1>3. \A f : KeptUpto(all, f) <=>
               f = [m \in 0..n |-> IF m = 0 THEN <<>> ELSE f[m - 1] \o (IF Twin(m) THEN <<>> ELSE <<all[m]>>)]
  BY <1>1 DEF KeptUpto
<1>4. PICK S : S = {k \in 1..n : Twins(all[k], all[i])}
  OBVIOUS
<1>5. S \in SUBSET Nat /\ i \in S
  BY <1>1, <1>4 DEF Twins
<1>6. PICK k \in S : \A y \in S : k <= y
  BY <1>5, LeastOf
<1>7. k \in 1..n /\ Twins(all[k], all[i]) /\ k <= i
  BY <1>4, <1>5, <1>6
<1>8. ~Twin(k)
  <2>1. SUFFICES ASSUME NEW m \in 1..(k - 1), all[m].name = all[k].name, all[m].input = all[k].input
                 PROVE  FALSE
    OBVIOUS
  <2>2. m \in 1..n /\ ~(k <= m)
    BY <1>7
  <2>3. m \in S
    BY <1>4, <1>7, <2>1, <2>2 DEF Twins
  <2> QED
    BY <1>6, <2>2, <2>3
<1> HIDE DEF Twin
<1>9. \A m \in 1..n : B[m] = IF Twin(m) THEN <<>> ELSE <<all[m]>>
  BY <1>2
<1>10. \A m \in 1..n : B[m] \in Seq(T)
  <2>1. ASSUME NEW m \in 1..n PROVE B[m] \in Seq(T)
    <3>1. all[m] \in T
      BY <1>1
    <3>2. <<all[m]>> \in Seq(T) /\ <<>> \in Seq(T)
      BY <3>1
    <3> QED
      BY <1>9, <3>2
  <2> QED
    BY <2>1
<1>11. ASSUME NEW f PROVE KeptUpto(all, f) <=> JoinUpto(n, B, f)
  <2>1. [m \in 0..n |-> IF m = 0 THEN <<>> ELSE f[m - 1] \o (IF Twin(m) THEN <<>> ELSE <<all[m]>>)]
          = [m \in 0..n |-> IF m = 0 THEN <<>> ELSE f[m - 1] \o B[m]]
    <3>1. \A m \in 0..n : m # 0 => B[m] = IF Twin(m) THEN <<>> ELSE <<all[m]>>
      BY <1>9
    <3> QED
      BY <3>1
  <2> QED
    BY <1>3, <2>1 DEF JoinUpto
<1>12. \E f : KeptUpto(all, f)
  <2>1. PICK f : JoinUpto(n, B, f)
    BY <1>10, JoinsUp
  <2> QED
    BY <1>11, <2>1
<1>13. KeptUpto(all, g)
  BY <1>12, Zenon
<1>14. JoinUpto(n, B, g)
  BY <1>11, <1>13
<1>15. PICK x : x = all[k]
  OBVIOUS
<1>16. B[k] = <<x>> /\ k \in 1..n
  BY <1>7, <1>8, <1>9, <1>15
<1>17. Has(g[n], x)
  BY <1>10, <1>14, <1>16, JoinedHas
<1> QED
  BY <1>1, <1>7, <1>15, <1>17 DEF Has, TwinKept

(* The order of the ids is one of all the ids.                             *)
LEMMA IdsOnto ==
    ASSUME NEW S, IsFiniteSet(S), NEW ids \in SetToSeqs(S), NEW x \in S
    PROVE  \E k \in 1..Len(ids) : ids[k] = x
<1>1. PICK m : m = Cardinality(S)
  OBVIOUS
<1>2. m \in Nat
  BY <1>1, FS_CardinalityType
<1>3. ids \in [1..m -> S] /\ \A i, j \in 1..m : i # j => ids[i] # ids[j]
  BY <1>1 DEF SetToSeqs
<1>4. ids \in Injection(1..m, S)
  BY <1>3 DEF Injection, IsInjective
<1>5. Cardinality(1..m) = m
  BY <1>2, FS_Interval
<1>6. ids \in Surjection(1..m, S)
  BY <1>1, <1>4, <1>5, FS_Injection
<1>7. Len(ids) = m
  BY <1>2, <1>3
<1> QED
  BY <1>6, <1>7 DEF Surjection

LEMMA IdsFinite ==
    ASSUME NEW T, NEW tools \in Seq(T)
    PROVE  IsFiniteSet({t.id : t \in Range(tools)} \ {None})
<1>1. PICK n \in Nat : n = Len(tools)
  OBVIOUS
<1>2. PICK S : S = {t.id : t \in Range(tools)} \ {None}
  OBVIOUS
<1>3. PICK F : F = [i \in 1..n |-> tools[i].id]
  OBVIOUS
<1>4. PICK D : D = {F[i] : i \in 1..n}
  OBVIOUS
<1>5. S \subseteq D
  <2>1. \A t \in Range(tools) : \E i \in 1..n : tools[i] = t
    BY <1>1 DEF Range
  <2>2. \A i \in 1..n : F[i] = tools[i].id
    BY <1>3
  <2> QED
    BY <1>2, <1>4, <2>1, <2>2
<1>6. IsFiniteSet(1..n)
  BY FS_Interval
<1>7. IsFiniteSet(D)
  <2>1. F \in Surjection(1..n, D)
    BY <1>3, <1>4 DEF Surjection
  <2> QED
    BY <1>6, <2>1, FS_Surjection
<1> QED
  BY <1>2, <1>5, <1>7, FS_Subset

Stands(tools, t) == \E u \in Range(tools) \ {t} : u.id = t.id \/ u.input = t.input

(* Of each call, it is kept or another stands for it.                      *)
LEMMA DeduplicatedHas ==
    ASSUME NEW T, NEW tools \in Seq(T), NEW ids \in IdOrders(tools), NEW t \in Range(tools)
    PROVE  t \in Range(deduplicate_tool_calls(tools, ids)) \/ Stands(tools, t)
<1>1. PICK R : R = Range(tools)
  OBVIOUS
<1>2. tools \in Seq(R) /\ t \in R
  <2>1. \A i \in 1..Len(tools) : tools[i] \in R
    BY <1>1 DEF Range
  <2> QED
    BY <1>1, <2>1
<1>3. PICK i \in 1..Len(tools) : tools[i] = t
  BY DEF Range
<1>4. PICK S : S = {s.id : s \in Range(tools)} \ {None}
  OBVIOUS
<1>5. IsFiniteSet(S) /\ ids \in SetToSeqs(S)
  BY <1>4, IdsFinite DEF IdOrders
<1>6. PICK A : A = [k \in 1..Len(ids) |-> BestOf(tools, ids[k])]
  OBVIOUS
<1>7. PICK m \in Nat : m = Len(ids) /\ ids \in [1..m -> S]
  <2>1. Cardinality(S) \in Nat
    BY <1>5, FS_CardinalityType
  <2>2. ids \in [1..Cardinality(S) -> S]
    BY <1>5 DEF SetToSeqs
  <2> QED
    BY <2>1, <2>2
<1>8. \A x \in S : BestOf(tools, x) \in R /\ BestOf(tools, x).id = x
  <2>1. ASSUME NEW x \in S PROVE BestOf(tools, x) \in R /\ BestOf(tools, x).id = x
    <3>1. \E k \in 1..Len(tools) : tools[k].id = x
      <4>1. \A s \in Range(tools) : \E k \in 1..Len(tools) : tools[k] = s
        BY DEF Range
      <4> QED
        BY <1>4, <4>1
    <3> QED
      BY <1>2, <3>1, BestHas
  <2> QED
    BY <2>1
<1>9. A \in Seq(R) /\ Len(A) = m /\ \A k \in 1..m : A[k] = BestOf(tools, ids[k])
  <2>1. A \in [1..m -> R]
    BY <1>6, <1>7, <1>8
  <2> QED
    BY <1>6, <1>7, <2>1
<1>10. PICK w : w = WithoutId(tools)
  OBVIOUS
<1>11. w \in Seq(R)
  BY <1>2, <1>10, WithoutIs
<1>12. PICK all : all = A \o w
  OBVIOUS
<1>13. /\ all \in Seq(R) /\ Len(all) = Len(A) + Len(w)
       /\ \A k \in 1..Len(A) : all[k] = A[k]
       /\ \A k \in (Len(A) + 1)..(Len(A) + Len(w)) : all[k] = w[k - Len(A)]
  BY <1>9, <1>11, <1>12, JoinIs
<1>14. Stands(tools, t) \/ \E p \in 1..Len(all) : all[p] = t
  <2>1. CASE t.id = None
    <3>1. PICK j \in 1..Len(w) : w[j] = t
      BY <1>2, <1>3, <1>10, <2>1, WithoutHas
    <3>2. PICK p : p = Len(A) + j
      OBVIOUS
    <3>3. p \in (Len(A) + 1)..(Len(A) + Len(w)) /\ p - Len(A) = j /\ p \in 1..Len(all)
      BY <1>9, <1>11, <1>13, <3>2
    <3> QED
      BY <1>13, <3>1, <3>3
  <2>2. CASE t.id # None
    <3>1. t.id \in S
      BY <1>4, <2>2
    <3>2. PICK k \in 1..Len(ids) : ids[k] = t.id
      BY <1>5, <3>1, IdsOnto
    <3>3. PICK b : b = A[k]
      OBVIOUS
    <3>4. b \in R /\ b.id = t.id
      BY <1>7, <1>8, <1>9, <3>1, <3>2, <3>3
    <3>5. k \in 1..Len(all) /\ all[k] = b
      BY <1>7, <1>9, <1>11, <1>13, <3>3
    <3>6. CASE b = t
      BY <3>5, <3>6
    <3>7. CASE b # t
      BY <1>1, <3>4, <3>7 DEF Stands
    <3> QED
      BY <3>6, <3>7
  <2> QED
    BY <2>1, <2>2
<1>15. PICK g : g = CHOOSE f : KeptUpto(all, f)
  OBVIOUS
<1>16. PICK calls : calls = deduplicate_tool_calls(tools, ids)
  OBVIOUS
<1>17. calls = g[Len(all)]
  <2>1. deduplicate_tool_calls(tools, ids) =
          (CHOOSE f : KeptUpto([k \in 1..Len(ids) |-> BestOf(tools, ids[k])] \o WithoutId(tools), f))
             [Len([k \in 1..Len(ids) |-> BestOf(tools, ids[k])] \o WithoutId(tools))]
    BY Zenon DEF deduplicate_tool_calls, KeptUpto
  <2> QED
    BY <1>6, <1>10, <1>12, <1>15, <1>16, <2>1
<1>18. calls \in Seq(R)
  BY <1>2, <1>16, DeduplicatedAre
<1>19. ASSUME NEW p \in 1..Len(all), all[p] = t PROVE t \in Range(calls) \/ Stands(tools, t)
  <2>0. TwinKept(all, p, calls)
    BY <1>13, <1>15, <1>17, KeptHas
  <2>1. PICK j \in 1..Len(calls), k \in 1..Len(all) : calls[j] = all[k] /\ Twins(all[k], all[p])
    BY <2>0 DEF TwinKept
  <2>2. PICK u : u = all[k]
    OBVIOUS
  <2>3. u \in R /\ u.input = t.input
    BY <1>13, <1>19, <2>1, <2>2 DEF Twins
  <2>4. u \in Range(calls)
    BY <1>18, <2>1, <2>2 DEF Range
  <2>5. CASE u = t
    BY <2>4, <2>5
  <2>6. CASE u # t
    BY <1>1, <2>3, <2>6 DEF Stands
  <2> QED
    BY <2>5, <2>6
<1> QED
  BY <1>14, <1>16, <1>19

Recalled(f, sv) == \A t \in Range(f.tools) : t.truncated => t.id \in sv \/ Stands(f.tools, t)

LEMMA SavedRecalls ==
    ASSUME NEW f \in FormatStates, NEW ids \in IdOrders(f.tools)
    PROVE  Recalled(f, Truncations(f, deduplicate_tool_calls(f.tools, ids)))
<1>1. PICK calls : calls = deduplicate_tool_calls(f.tools, ids)
  OBVIOUS
<1>2. f.tools \in Seq(KiroCalls)
  BY FormatIs
<1>3. PICK sv : sv = Truncations(f, calls)
  OBVIOUS
<1>4. \A t \in Range(calls) : t.truncated => t.id \in sv
  BY <1>3 DEF Truncations
<1>5. \A t \in Range(f.tools) : t \in Range(calls) \/ Stands(f.tools, t)
  BY <1>1, <1>2, DeduplicatedHas
<1>6. Recalled(f, sv)
  BY <1>4, <1>5 DEF Recalled
<1> QED
  BY <1>1, <1>3, <1>6

-----------------------------------------------------------------------------
(* A completed answer stays completed, and is completed only after the     *)
(* provider's stream has ended.                                            *)
LEMMA StaysCompleted ==
    ASSUME NEW c, NEW evs, NEW d, Runs(c, evs, d), c.status = "completed"
    PROVE  d.status = "completed"
<1>1. PICK T : evs \in Seq(T)
  BY Zenon DEF Runs
<1>2. PICK f : ReadAlong(f, c, evs, d)
  BY Zenon DEF Runs
<1>3. PICK n \in Nat : n = Len(evs)
  BY <1>1
<1>4. f[0] = c /\ f[n] = d /\ \A k \in 1..n : Permitted(f[k - 1], f[k])
  BY <1>2, <1>3 DEF ReadAlong
<1>5. PICK P : P = {m \in Nat : m <= n => f[m].status = "completed"}
  OBVIOUS
<1>6. 0 \in P
  BY <1>4, <1>5
<1>7. ASSUME NEW m \in Nat, m \in P PROVE m + 1 \in P
  <2>1. SUFFICES ASSUME m + 1 <= n PROVE f[m + 1].status = "completed"
    BY <1>5
  <2>2. m + 1 \in 1..n /\ (m + 1) - 1 = m /\ f[m].status = "completed"
    BY <1>5, <1>7, <2>1
  <2>3. Permitted(f[m], f[m + 1])
    BY <1>4, <2>2
  <2> QED
    BY <2>2, <2>3 DEF Permitted
<1>8. n \in P
  BY <1>6, <1>7, Upwards
<1> QED
  BY <1>4, <1>5, <1>8

LEMMA NotYetCompleted ==
    ASSUME NEW rt, rt[1] = "kiro", NEW s, NEW k, NEW f, NEW t, NEW d, Expects(rt, s, k, f, t, d)
    PROVE  d.status # "completed"
<1>1. ASSUME NEW q, NEW it, q \in {"none", "open"}, d = View(q, it) PROVE d.status # "completed"
  BY <1>1 DEF View
<1>2. CASE KiroHeld(d, k, f, t)
  <2>1. t.phase # 5 /\ Matches(d, t)
    BY <1>2 DEF KiroHeld, Free
  <2>2. PICK it : d = View(IF t.phase = 0 THEN "none" ELSE "open", it)
    BY <2>1 DEF Matches
  <2> QED
    BY <1>1, <2>2
<1>3. CASE BlocksHeldOpen(d, f)
  <2>1. PICK it : d = View("open", it)
    BY <1>3 DEF BlocksHeldOpen
  <2> QED
    BY <1>1, <2>1
<1> QED
  BY <1>2, <1>3, ExpectsIs

LEMMA CompletedLast ==
    ASSUME Answering, route[1] = "kiro", ~src.ended
    PROVE  client.status # "completed"
<1>1. PICK d : Runs(client, out, d) /\ Expects(route, src, kiro, fmt, tr, d)
  BY DEF Answering
<1> QED
  BY <1>1, NotYetCompleted, StaysCompleted

Unfinished(c) == \E s \in {"none", "open", "broken"} : \E it : c = View(s, it)

(* Once Kiro's stream has ended, what was cut short is remembered, unless  *)
(* it ended with an error, which is all that is still to be read: then the *)
(* answer is never completed.                                              *)
Remembering ==
    route[1] = "kiro" /\ src.ended =>
      \/ Recalled(fmt, saved)
      \/ Unfinished(client) /\ out \in {<<>>, <<Event("error")>>}

LEMMA EndedFormat ==
    ASSUME Answering, Polled, route[1] = "kiro"
    PROVE  Formatted(KiroEnds(kiro).events).fmt \in FormatStates
<1>1. Expects(route, src, kiro, fmt, tr, client) /\ kiro \in KiroStates
  BY PolledIs DEF Answering
<1>2. PICK k : k = KiroEnds(kiro)
  OBVIOUS
<1>3. KiroSays(kiro, k)
  BY <1>1, <1>2, KiroLastSays
<1>4. CASE route[2] = "responses"
  <2>1. route = <<"kiro", "responses">> /\ KiroHeld(client, kiro, fmt, tr)
    BY <1>1, <1>4, ExpectsIs
  <2>2. PICK d : KiroHeld(d, k.st, Formatted(k.events).fmt, Formatted(k.events).tr)
    BY <1>3, <2>1, FormattedResponses
  <2> QED
    BY <1>2, <2>2 DEF KiroHeld
<1>5. CASE route[2] = "anthropic"
  <2>1. route = <<"kiro", "anthropic">> /\ BlocksHeldOpen(client, fmt)
    BY <1>1, <1>5, ExpectsIs
  <2>2. PICK d : BlocksHeldOpen(d, Formatted(k.events).fmt)
    BY <1>3, <2>1, FormattedAnthropic
  <2> QED
    BY <1>2, <2>2 DEF BlocksHeldOpen
<1> QED
  BY <1>1, <1>4, <1>5, ExpectsIs

LEMMA KiroEndedRemembering ==
    ASSUME Answering, KiroEnded
    PROVE  Remembering'
<1>1. Polled /\ route[1] = "kiro"
  BY DEF KiroEnded
<1>2. PICK r : r = Formatted(KiroEnds(kiro).events)
  OBVIOUS
<1>3. r.fmt \in FormatStates
  BY <1>1, <1>2, EndedFormat
<1>4. fmt' = r.fmt
  BY <1>2 DEF KiroEnded
<1>5. \E ids \in IdOrders(r.fmt.tools) : saved' = Truncations(r.fmt, deduplicate_tool_calls(r.fmt.tools, ids))
  BY <1>2, Zenon DEF KiroEnded
<1>6. Recalled(r.fmt, saved')
  BY <1>3, <1>5, SavedRecalls
<1> QED
  BY <1>4, <1>6 DEF Remembering

LEMMA FailsRemembering ==
    ASSUME Answering, Fails
    PROVE  Remembering'
<1>1. Polled /\ route' = route /\ client' = client /\ out' = <<Event("error")>>
  BY DEF Fails
<1>2. ASSUME route[1] = "kiro" PROVE Unfinished(client)
  <2>1. client.status # "completed"
    BY <1>1, <1>2, PolledIs, CompletedLast
  <2>2. Ready(client)
    BY <1>1, PolledIs, ExpectedReady DEF Answering
  <2>3. PICK s \in {"none", "open", "completed", "broken"} : \E it : client = View(s, it)
    BY <2>2 DEF Ready
  <2>4. s # "completed"
    BY <2>1, <2>3 DEF View
  <2> QED
    BY <2>3, <2>4 DEF Unfinished
<1> QED
  BY <1>1, <1>2 DEF Remembering

LEMMA ErrorBreaks ==
    ASSUME NEW c, Unfinished(c)
    PROVE  Unfinished(Reads(c, Event("error")))
<1>1. Event("error").type = "error"
  BY EndTypes
<1>2. PICK s \in {"none", "open", "broken"} : \E it : c = View(s, it)
  BY DEF Unfinished
<1>3. PICK it : c = View(s, it)
  BY <1>2
<1>4. Reads(c, Event("error")) = [c EXCEPT !.status = IF @ = "completed" THEN @ ELSE "broken"]
  BY <1>1 DEF Reads
<1>5. Reads(c, Event("error")) = View("broken", it)
  BY <1>2, <1>3, <1>4 DEF View
<1> QED
  BY <1>5 DEF Unfinished

LEMMA YieldRemembering ==
    ASSUME Remembering, Yield
    PROVE  Remembering'
<1>1. /\ out # <<>> /\ client' = Reads(client, Head(out)) /\ out' = Tail(out)
      /\ UNCHANGED <<route, src, fmt, saved>>
  BY DEF Yield
<1>2. ASSUME Unfinished(client), out \in {<<>>, <<Event("error")>>}
      PROVE  Unfinished(client') /\ out' = <<>>
  <2>1. PICK e : e = Event("error")
    OBVIOUS
  <2>2. out = <<e>>
    BY <1>1, <1>2, <2>1
  <2>3. Head(out) = e /\ Tail(out) = <<>>
    BY <2>2
  <2> QED
    BY <1>1, <1>2, <2>1, <2>3, ErrorBreaks
<1>3. Unfinished(client)' <=> Unfinished(client')
  BY DEF Unfinished, View
<1> QED
  BY <1>1, <1>2, <1>3, Zenon DEF Remembering

LEMMA NextRemembering ==
    ASSUME Sound, Remembering, [FormatNext]_formatVars
    PROVE  Remembering'
<1>2. CASE FromOpenAI \/ FromAnthropic \/ Ends
  BY <1>2 DEF FromOpenAI, FromAnthropic, Ends, Remembering
<1>3. CASE FromKiro
  <2>1. PICK m \in KiroItems : src' = m.src
    BY <1>3, Zenon DEF FromKiro
  <2>2. m.src.ended = src.ended
    BY <1>3, KiroSound, KiroNext DEF FromKiro, Answering, Next3
  <2>3. ~src'.ended
    BY <1>3, <2>1, <2>2 DEF FromKiro, Polled
  <2> QED
    BY <2>3 DEF Remembering
<1>4. CASE KiroEnded
  BY <1>4, KiroSound, KiroEndedRemembering DEF KiroEnded
<1>5. CASE Fails
  BY <1>5, KiroSound, FailsRemembering DEF Fails, Remembering
<1>6. CASE Yield
  BY <1>6, YieldRemembering
<1>7. CASE UNCHANGED formatVars
  BY <1>7 DEF formatVars, Remembering
<1> QED
  BY <1>2, <1>3, <1>4, <1>5, <1>6, <1>7, Zenon DEF FormatNext

(* When a client has read the end of an answer that Kiro streamed, every   *)
(* tool call whose arguments diagnose_json_truncation finds cut is in the  *)
(* store of truncations, or another call with its id or its arguments was  *)
(* kept for it.                                                            *)
THEOREM TruncationKept == FormatSpec => []TruncationRemembered
<1>1. FormatInit => Sound /\ Remembering
  BY InitSound, SrcAtFirst DEF FormatInit, Remembering
<1>2. Sound /\ Remembering /\ [FormatNext]_formatVars => Sound' /\ Remembering'
  BY NextSound, NextRemembering
<1>3. Sound /\ Remembering => TruncationRemembered
  <2>1. SUFFICES ASSUME Sound, Remembering, client.status = "completed", route[1] = "kiro"
                 PROVE  Recalled(fmt, saved)
    BY DEF TruncationRemembered, Recalled, Stands
  <2>2. src.ended
    BY <2>1, KiroSound, CompletedLast
  <2>3. ~Unfinished(client)
    BY <2>1 DEF Unfinished, View
  <2> QED
    BY <2>1, <2>2, <2>3 DEF Remembering
<1> QED
  BY <1>1, <1>2, <1>3, PTL DEF FormatSpec
=============================================================================
