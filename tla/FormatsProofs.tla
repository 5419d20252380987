---------------------------- MODULE FormatsProofs ---------------------------
(***************************************************************************)
(* Proofs about conversations on their way to Kiro, for any conversations, *)
(* texts and numbers of clients, about the event streams that come back,   *)
(* for any objects, frames and cuts, and about the request that Kiro is    *)
(* sent, for any messages, roles and tool calls.                           *)
(***************************************************************************)
EXTENDS TruncationRecovery, KiroFrames, KiroPayload, LoopLemmas

-----------------------------------------------------------------------------
Longer(S, s, i, e, t) ==
    /\ t \in Seq(S) /\ Len(t) = Len(s) + 1
    /\ \A j \in 1..i : t[j] = s[j]
    /\ t[i + 1] = e
    /\ \A j \in (i + 1)..Len(s) : t[j + 1] = s[j]

LEMMA AfterIt ==
    ASSUME NEW n \in Nat, NEW i \in 1..n, NEW j \in (i + 1)..n
    PROVE  j - i \in 1..(n - i) /\ i + (j - i) = j /\ j + 1 = (i + 1) + (j - i)
OBVIOUS

LEMMA Inserting ==
    ASSUME NEW S, NEW s \in Seq(S), NEW i \in 1..Len(s), NEW e \in S
    PROVE  Longer(S, s, i, e, InsertAt(s, i + 1, e))
<1> DEFINE front == SubSeq(s, 1, i)
           back == SubSeq(s, i + 1, Len(s))
           t == (front \o <<e>>) \o back
<1>1. front \in Seq(S) /\ Len(front) = i /\ \A j \in 1..i : front[j] = s[j]
  OBVIOUS
<1>2. back \in Seq(S) /\ Len(back) = Len(s) - i /\ \A j \in 1..(Len(s) - i) : back[j] = s[i + j]
  OBVIOUS
<1>3. InsertAt(s, i + 1, e) = t
  <2>1. (i + 1) - 1 = i
    OBVIOUS
  <2> QED
    BY <2>1 DEF InsertAt
<1> HIDE DEF front, back
<1>4. front \o <<e>> \in Seq(S) /\ Len(front \o <<e>>) = i + 1
  BY <1>1
<1>5. /\ \A j \in 1..i : (front \o <<e>>)[j] = s[j]
      /\ (front \o <<e>>)[i + 1] = e
  BY <1>1
<1> DEFINE u == front \o <<e>>
<1> HIDE DEF u
<1>6. t = u \o back
  BY DEF u
<1>7. u \in Seq(S) /\ Len(u) = i + 1 /\ u[i + 1] = e /\ \A j \in 1..i : u[j] = s[j]
  BY <1>4, <1>5 DEF u
<1> HIDE DEF t
<1>8. t \in Seq(S) /\ Len(t) = Len(s) + 1
  BY <1>2, <1>6, <1>7
<1>9. \A j \in 1..(i + 1) : t[j] = u[j]
  BY <1>2, <1>6, <1>7
<1>10. ASSUME NEW j \in (i + 1)..Len(s) PROVE t[j + 1] = s[j]
  <2>1. j - i \in 1..(Len(s) - i) /\ i + (j - i) = j /\ j + 1 = Len(u) + (j - i)
    <3>1. Len(s) \in Nat
      OBVIOUS
    <3>2. j - i \in 1..(Len(s) - i) /\ i + (j - i) = j /\ j + 1 = (i + 1) + (j - i)
      BY <3>1, AfterIt
    <3> QED
      BY <1>7, <3>2
  <2>2. t[j + 1] = back[j - i]
    BY <1>2, <1>6, <1>7, <2>1
  <2> QED
    BY <1>2, <2>1, <2>2
<1>11. Longer(S, s, i, e, t)
  BY <1>7, <1>8, <1>9, <1>10 DEF Longer
<1> QED
  BY <1>3, <1>11

-----------------------------------------------------------------------------
(***************************************************************************)
(* Notices about answers cut short.                                        *)
(***************************************************************************)
ClientMessage == [role : {"user", "assistant", "tool"}, text : Texts \cup {<<>>, <<"r">>}, id : Nat,
                  parts : BOOLEAN, notice : BOOLEAN]
Said == {m \in ClientMessage : ~m.notice}

LEMMA NoticeIsMessage == Notice \in ClientMessage /\ Notice.notice /\ Notice.role = "user"
BY DEF Notice, Turn, ClientMessage

Between(s, i, t) ==
    /\ t \in Seq(ClientMessage) /\ Len(t) = Len(s) + 1
    /\ \A j \in 1..i : t[j] = s[j]
    /\ t[i + 1] = Notice
    /\ \A j \in (i + 1)..Len(s) : t[j + 1] = s[j]

LEMMA NoticeBetween ==
    ASSUME NEW s \in Seq(ClientMessage), NEW i \in 1..Len(s)
    PROVE  Between(s, i, InsertAt(s, i + 1, Notice))
<1>1. Longer(ClientMessage, s, i, Notice, InsertAt(s, i + 1, Notice))
  BY NoticeIsMessage, Inserting
<1> QED
  BY <1>1 DEF Longer, Between

(* One message more.                                                       *)
Heard(said, m) == IF m = Notice THEN said ELSE Append(said, [m EXCEPT !.notice = FALSE])

LEMMA HeardIsSaid ==
    ASSUME NEW said \in Seq(Said), NEW m \in ClientMessage
    PROVE  Heard(said, m) \in Seq(Said)
<1>1. [m EXCEPT !.notice = FALSE] \in Said
  BY DEF ClientMessage, Said
<1> QED
  BY <1>1 DEF Heard

(* What WithoutNotices computes: plain[i] is what the first i messages say.*)
Reading(ms, plain) ==
    /\ plain \in [0..Len(ms) -> Seq(Said)]
    /\ plain[0] = <<>>
    /\ \A i \in 1..Len(ms) : plain[i] = Heard(plain[i - 1], ms[i])

LEMMA MessageRead ==
    ASSUME NEW ms \in Seq(ClientMessage)
    PROVE  \E plain : Reading(ms, plain) /\ WithoutNotices(ms) = plain[Len(ms)]
<1> DEFINE n == Len(ms)
           S == Seq(Said)
           step == [i \in 1..n |-> [s \in S |-> Heard(s, ms[i])]]
           After(f) == [i \in 0..n |-> IF i = 0 THEN <<>> ELSE Heard(f[i - 1], ms[i])]
           plain == CHOOSE f : f = After(f)
<1>1. n \in Nat /\ <<>> \in S /\ \A i \in 1..n : ms[i] \in ClientMessage
  OBVIOUS
<1>2. \A i \in 1..n : \A s \in S : Heard(s, ms[i]) \in S
  BY <1>1, HeardIsSaid
<1>7. WithoutNotices(ms) = plain[n]
  BY Zenon DEF WithoutNotices, Heard
<1> HIDE DEF S, n
<1>3. step \in Steps(S, n)
  BY <1>2 DEF Steps
<1>0. PICK f : Visits(f, S, <<>>, step, n)
  <2> HIDE DEF step
  <2> QED
    BY <1>1, <1>3, Iterates
<1>4. f \in [0..n -> S] /\ f[0] = <<>> /\ \A i \in 1..n : f[i] = step[i][f[i - 1]]
  BY <1>0 DEF Visits
<1>5. f = After(f)
  <2>1. ASSUME NEW i \in 0..n PROVE f[i] = After(f)[i]
    <3>1. CASE i = 0
      BY <1>4, <3>1
    <3>2. CASE i # 0
      <4>1. i \in 1..n /\ i - 1 \in 0..n
        BY <1>1, <3>2
      <4>2. f[i - 1] \in S
        BY <1>4, <4>1
      <4> QED
        BY <1>4, <3>2, <4>1, <4>2
    <3> QED
      BY <3>1, <3>2
  <2> QED
    BY <1>4, <2>1
<1>6. plain = After(plain)
  BY <1>5, Zenon
<1> HIDE DEF plain
<1>8. /\ plain[0] = <<>>
      /\ \A i \in 1..n : plain[i] = Heard(plain[i - 1], ms[i])
  BY <1>1, <1>6
<1>9. plain = [i \in 0..n |-> plain[i]]
  BY <1>6
<1> DEFINE P == {i \in Nat : i <= n => plain[i] \in S}
<1>10. 0 \in P
  BY <1>1, <1>8
<1>11. ASSUME NEW i \in Nat, i \in P PROVE i + 1 \in P
  <2>1. SUFFICES ASSUME i + 1 <= n PROVE plain[i + 1] \in S
    OBVIOUS
  <2>2. i + 1 \in 1..n /\ (i + 1) - 1 = i /\ plain[i] \in S
    BY <1>1, <1>11, <2>1
  <2>3. plain[i + 1] = Heard(plain[i], ms[i + 1])
    BY <1>8, <2>2
  <2> QED
    BY <1>2, <2>2, <2>3
<1> HIDE DEF P
<1>12. Nat \subseteq P
  BY <1>10, <1>11, Upwards
<1>13. plain \in [0..n -> S]
  <2>1. \A i \in 0..n : plain[i] \in S
    BY <1>1, <1>12 DEF P
  <2> QED
    BY <1>9, <2>1
<1> QED
  BY <1>7, <1>8, <1>13 DEF Reading, S, n

(* A notice put between two messages says nothing.                         *)
LEMMA NoticeUnheard ==
    ASSUME NEW s \in Seq(ClientMessage), NEW i \in 1..Len(s)
    PROVE  WithoutNotices(InsertAt(s, i + 1, Notice)) = WithoutNotices(s)
<1> DEFINE t == InsertAt(s, i + 1, Notice)
           n == Len(s)
<1>1. /\ t \in Seq(ClientMessage) /\ Len(t) = n + 1
      /\ \A j \in 1..i : t[j] = s[j]
      /\ t[i + 1] = Notice
      /\ \A j \in (i + 1)..n : t[j + 1] = s[j]
  BY NoticeBetween DEF Between
<1> HIDE DEF t
<1>2. PICK f : Reading(s, f) /\ WithoutNotices(s) = f[n]
  BY MessageRead
<1>3. PICK g : Reading(t, g) /\ WithoutNotices(t) = g[n + 1]
  BY <1>1, MessageRead
<1>4. /\ f[0] = <<>> /\ g[0] = <<>>
      /\ \A j \in 1..n : f[j] = Heard(f[j - 1], s[j])
      /\ \A j \in 1..(n + 1) : g[j] = Heard(g[j - 1], t[j])
      /\ n \in Nat /\ i \in Nat /\ 1 <= i /\ i <= n
  BY <1>1, <1>2, <1>3 DEF Reading
<1> HIDE DEF n
<1> DEFINE P == {j \in Nat : j <= i => g[j] = f[j]}
<1>5. 0 \in P
  BY <1>4
<1>6. ASSUME NEW j \in Nat, j \in P PROVE j + 1 \in P
  <2>1. SUFFICES ASSUME j + 1 <= i PROVE g[j + 1] = f[j + 1]
    OBVIOUS
  <2>2. j + 1 \in 1..i /\ j + 1 \in 1..n /\ j + 1 \in 1..(n + 1) /\ (j + 1) - 1 = j
    BY <1>4, <2>1
  <2>3. g[j] = f[j] /\ t[j + 1] = s[j + 1]
    BY <1>1, <1>6, <2>2
  <2>4. f[j + 1] = Heard(f[j], s[j + 1]) /\ g[j + 1] = Heard(g[j], t[j + 1])
    BY <1>4, <2>2
  <2> QED
    BY <2>3, <2>4
<1> HIDE DEF P
<1>7. g[i] = f[i]
  <2>1. i \in P
    BY <1>4, <1>5, <1>6, Upwards
  <2> QED
    BY <1>4, <2>1 DEF P
<1>8. g[i + 1] = f[i]
  <2>1. i + 1 \in 1..(n + 1) /\ (i + 1) - 1 = i
    BY <1>4
  <2>2. g[i + 1] = Heard(g[i], Notice)
    BY <1>1, <1>4, <2>1
  <2> QED
    BY <1>7, <2>2 DEF Heard
<1> DEFINE Q == {k \in Nat : i <= k /\ k <= n => g[k + 1] = f[k]}
<1>9. 0 \in Q
  BY <1>4
<1>10. ASSUME NEW k \in Nat, k \in Q PROVE k + 1 \in Q
  <2>1. SUFFICES ASSUME i <= k + 1, k + 1 <= n PROVE g[(k + 1) + 1] = f[k + 1]
    OBVIOUS
  <2>2. CASE k + 1 = i
    BY <1>8, <2>2
  <2>3. CASE k + 1 # i
    <3>1. k + 1 \in (i + 1)..n /\ k + 1 \in 1..n /\ i <= k /\ k <= n
      BY <1>4, <2>1, <2>3
    <3>2. (k + 1) + 1 \in 1..(n + 1) /\ ((k + 1) + 1) - 1 = k + 1 /\ (k + 1) - 1 = k
      BY <1>4, <2>1
    <3>3. g[k + 1] = f[k]
      BY <1>10, <3>1
    <3>4. t[(k + 1) + 1] = s[k + 1]
      BY <1>1, <3>1
    <3>5. f[k + 1] = Heard(f[k], s[k + 1])
      BY <1>4, <3>1, <3>2
    <3>6. g[(k + 1) + 1] = Heard(g[k + 1], t[(k + 1) + 1])
      BY <1>4, <3>2
    <3> QED
      BY <3>3, <3>4, <3>5, <3>6
  <2> QED
    BY <2>2, <2>3
<1> HIDE DEF Q
<1>11. g[n + 1] = f[n]
  <2>1. n \in Q
    BY <1>4, <1>9, <1>10, Upwards
  <2> QED
    BY <1>4, <2>1 DEF Q
<1> QED
  BY <1>2, <1>3, <1>11 DEF t

(* A result with a notice as its first words is the same result, read as   *)
(* a string.                                                               *)
ReadBack(ms, hits) ==
    [i \in 1..Len(ms) |-> IF i \in hits /\ ms[i].role = "tool" THEN Reread(ms[i]) ELSE ms[i]]

Marked(m) == [m EXCEPT !.notice = TRUE]

LEMMA MarkedIs ==
    ASSUME NEW m \in Said
    PROVE  /\ Marked(m) \in ClientMessage /\ Marked(m).role = m.role /\ Marked(m).id = m.id
           /\ [Marked(m) EXCEPT !.notice = FALSE] = m
           /\ [m EXCEPT !.notice = FALSE] = m
BY DEF Marked, Said, ClientMessage

LEMMA RereadIsSaid ==
    ASSUME NEW m \in Said
    PROVE  Reread(m) \in Said /\ Reread(m).role = m.role /\ Reread(m).id = m.id
<1>1. CASE m.parts
  BY <1>1 DEF Reread, Said, ClientMessage
<1>2. CASE ~m.parts
  BY <1>2 DEF Reread
<1> QED
  BY <1>1, <1>2

LEMMA PrefixUnheard ==
    ASSUME NEW ms \in Seq(Said), NEW hits
    PROVE  /\ Prepended(ms, hits) \in Seq(ClientMessage)
           /\ Len(Prepended(ms, hits)) = Len(ms)
           /\ WithoutNotices(Prepended(ms, hits)) = ReadBack(ms, hits)
<1> DEFINE p == Prepended(ms, hits)
           told == ReadBack(ms, hits)
           n == Len(ms)
<1>1. n \in Nat /\ \A i \in 1..n : ms[i] \in Said
  OBVIOUS
<1>2. \A m \in Said : m \in ClientMessage /\ m # Notice
  BY NoticeIsMessage DEF Said
<1>3. /\ DOMAIN p = 1..n
      /\ \A i \in 1..n : p[i] = IF i \in hits /\ ms[i].role = "tool" THEN Marked(Reread(ms[i])) ELSE ms[i]
      /\ \A i \in 1..n : told[i] = IF i \in hits /\ ms[i].role = "tool" THEN Reread(ms[i]) ELSE ms[i]
  BY DEF Prepended, ReadBack, Marked
<1>4. \A i \in 1..n : /\ p[i] \in ClientMessage /\ [p[i] EXCEPT !.notice = FALSE] = told[i]
                      /\ p[i] # Notice /\ told[i] \in Said
  <2>1. SUFFICES ASSUME NEW i \in 1..n
                 PROVE  /\ p[i] \in ClientMessage /\ [p[i] EXCEPT !.notice = FALSE] = told[i]
                        /\ p[i] # Notice /\ told[i] \in Said
    OBVIOUS
  <2> DEFINE m == ms[i]
             q == p[i]
             w == told[i]
             k == Marked(Reread(m))
  <2>0. /\ q = IF i \in hits /\ m.role = "tool" THEN k ELSE m
        /\ w = IF i \in hits /\ m.role = "tool" THEN Reread(m) ELSE m
        /\ m \in Said
    BY <1>1, <1>3
  <2> HIDE DEF p, m, q, w, told
  <2>5. /\ k \in ClientMessage /\ k.role = m.role /\ [k EXCEPT !.notice = FALSE] = Reread(m)
        /\ [m EXCEPT !.notice = FALSE] = m /\ Reread(m) \in Said
    <3> DEFINE v == Reread(m)
    <3>1. v \in Said /\ v.role = m.role
      BY <2>0, RereadIsSaid
    <3> HIDE DEF v
    <3> QED
      BY <2>0, <3>1, MarkedIs DEF v
  <2> HIDE DEF k
  <2>6. Notice.role = "user"
    BY NoticeIsMessage
  <2>3. CASE i \in hits /\ m.role = "tool"
    <3>1. q = k /\ w = Reread(m) /\ q.role = "tool"
      BY <2>0, <2>3, <2>5
    <3> QED
      BY <2>5, <2>6, <3>1 DEF q, w
  <2>4. CASE ~(i \in hits /\ m.role = "tool")
    <3>1. q = m /\ w = m
      BY <2>0, <2>4
    <3> QED
      BY <1>2, <2>0, <2>5, <3>1 DEF q, w
  <2> QED
    BY <2>3, <2>4
<1>5. p \in Seq(ClientMessage) /\ Len(p) = n
  <2>1. p = [i \in 1..n |-> p[i]]
    BY DEF Prepended
  <2> HIDE DEF p
  <2>2. p \in [1..n -> ClientMessage]
    BY <1>4, <2>1
  <2> QED
    BY <1>1, <2>2
<1>13. told \in Seq(Said) /\ Len(told) = n
  <2>1. told = [i \in 1..n |-> told[i]]
    BY DEF ReadBack
  <2> HIDE DEF told
  <2>2. told \in [1..n -> Said]
    BY <1>4, <2>1
  <2> QED
    BY <1>1, <2>2
<1> HIDE DEF p, told
<1>6. PICK f : Reading(p, f) /\ WithoutNotices(p) = f[n]
  BY <1>5, MessageRead
<1>7. f[0] = <<>> /\ \A i \in 1..n : f[i] = Append(f[i - 1], told[i])
  BY <1>4, <1>5, <1>6 DEF Reading, Heard
<1> HIDE DEF n
<1> DEFINE P == {i \in Nat : i <= n => f[i] = SubSeq(told, 1, i)}
<1>8. 0 \in P
  <2>1. SubSeq(told, 1, 0) = <<>>
    BY <1>13
  <2> QED
    BY <1>7, <2>1
<1>9. ASSUME NEW i \in Nat, i \in P PROVE i + 1 \in P
  <2>1. SUFFICES ASSUME i + 1 <= n PROVE f[i + 1] = SubSeq(told, 1, i + 1)
    OBVIOUS
  <2>2. i + 1 \in 1..n /\ (i + 1) - 1 = i /\ i <= n
    BY <1>1, <2>1
  <2>3. f[i + 1] = Append(SubSeq(told, 1, i), told[i + 1])
    BY <1>7, <1>9, <2>1, <2>2
  <2>4. Append(SubSeq(told, 1, i), told[i + 1]) = SubSeq(told, 1, i + 1)
    BY <1>1, <1>13, <2>2
  <2> QED
    BY <2>3, <2>4
<1> HIDE DEF P
<1>10. f[n] = SubSeq(told, 1, n)
  <2>1. n \in P
    BY <1>1, <1>8, <1>9, Upwards
  <2> QED
    BY <1>1, <2>1 DEF P
<1>11. SubSeq(told, 1, n) = told
  BY <1>13
<1> QED
  BY <1>5, <1>6, <1>10, <1>11 DEF p, n, told

(* ReadBack is as ReadAs has it.                                           *)
LEMMA ReadBackIsRead ==
    ASSUME NEW ms \in Seq(Said), NEW hits, NEW keys,
           \A i \in hits : i \in 1..Len(ms) => key_of(ms[i]) \in keys
    PROVE  ReadAs(ReadBack(ms, hits), ms, keys)
<1>1. Len(ReadBack(ms, hits)) = Len(ms)
  BY DEF ReadBack
<1>2. \A i \in 1..Len(ms) : ReadBack(ms, hits)[i] = IF i \in hits /\ ms[i].role = "tool" THEN Reread(ms[i]) ELSE ms[i]
  BY DEF ReadBack
<1> QED
  BY <1>1, <1>2 DEF ReadAs

LEMMA ReadStill ==
    ASSUME NEW told, NEW ms, NEW keys, NEW more, keys \subseteq more, ReadAs(told, ms, keys)
    PROVE  ReadAs(told, ms, more)
BY DEF ReadAs

(* Every notice among some messages stands behind an answer, or in a       *)
(* result, that was noted.                                                 *)
Placed(ms, keys) ==
    \A i \in 1..Len(ms) : ms[i].notice =>
        IF ms[i] = Notice
        THEN i > 1 /\ ms[i - 1].role = "assistant" /\ key_of(ms[i - 1]) \in keys
        ELSE key_of(ms[i]) \in keys

LEMMA NoticePlaced ==
    ASSUME NEW s \in Seq(ClientMessage), NEW i \in 1..Len(s), NEW keys, Placed(s, keys),
           s[i].role = "assistant", key_of(s[i]) \in keys,
           i + 1 \in 1..Len(s) => s[i + 1] # Notice
    PROVE  Placed(InsertAt(s, i + 1, Notice), keys)
<1> DEFINE t == InsertAt(s, i + 1, Notice)
           n == Len(s)
<1>1. /\ Len(t) = n + 1
      /\ \A j \in 1..i : t[j] = s[j]
      /\ t[i + 1] = Notice
      /\ \A j \in (i + 1)..n : t[j + 1] = s[j]
  BY NoticeBetween DEF Between
<1>2. i \in Nat /\ n \in Nat /\ 1 <= i /\ i <= n
  OBVIOUS
<1>3. \A j \in 1..n : s[j].notice =>
         IF s[j] = Notice
         THEN j > 1 /\ s[j - 1].role = "assistant" /\ key_of(s[j - 1]) \in keys
         ELSE key_of(s[j]) \in keys
  BY DEF Placed
<1> HIDE DEF t, n
<1>4. SUFFICES ASSUME NEW j \in 1..(n + 1), t[j].notice
               PROVE  IF t[j] = Notice
                      THEN j > 1 /\ t[j - 1].role = "assistant" /\ key_of(t[j - 1]) \in keys
                      ELSE key_of(t[j]) \in keys
  BY <1>1 DEF Placed, t
<1>5. CASE j <= i
  <2>1. j \in 1..i /\ j \in 1..n /\ t[j] = s[j]
    BY <1>1, <1>2, <1>5
  <2>2. j > 1 => j - 1 \in 1..i
    BY <1>2, <2>1
  <2>3. j > 1 => t[j - 1] = s[j - 1]
    BY <1>1, <2>2
  <2> QED
    BY <1>3, <1>4, <2>1, <2>3
<1>6. CASE j = i + 1
  <2>1. j > 1 /\ j - 1 = i /\ i \in 1..i
    BY <1>2, <1>6
  <2>2. t[j - 1] = s[i] /\ t[j] = Notice
    BY <1>1, <1>6, <2>1
  <2> QED
    BY <2>1, <2>2
<1>7. CASE j > i + 1
  <2> DEFINE k == j - 1
  <2>1. k \in (i + 1)..n /\ k \in 1..n /\ k + 1 = j /\ k \in Nat
    BY <1>2, <1>7
  <2>2. t[j] = s[k]
    BY <1>1, <2>1
  <2>3. CASE k = i + 1
    <3>1. t[j] # Notice
      BY <2>1, <2>2, <2>3 DEF n
    <3> QED
      BY <1>3, <1>4, <2>1, <2>2, <3>1
  <2>4. CASE k # i + 1
    <3>1. k - 1 \in (i + 1)..n /\ (k - 1) + 1 = k
      BY <1>2, <2>1, <2>4
    <3>2. t[k] = s[k - 1]
      BY <1>1, <3>1
    <3>3. j > 1 /\ j - 1 = k
      BY <1>2, <2>1
    <3> HIDE DEF k
    <3> QED
      BY <1>3, <1>4, <2>1, <2>2, <3>2, <3>3
  <2> QED
    BY <2>3, <2>4
<1> QED
  BY <1>2, <1>5, <1>6, <1>7

(* The insertions, one position after the other, from the back.            *)
Went(ms, hits, k, s) ==
    LET i == Len(ms) + 1 - k IN IF i \in hits THEN InsertAt(s, i + 1, Notice) ELSE s

LEMMA WentTypes ==
    ASSUME NEW ms \in Seq(ClientMessage), NEW hits, NEW k \in 1..Len(ms), NEW s
    PROVE  s \in Seq(ClientMessage) /\ Len(s) >= Len(ms) =>
              Went(ms, hits, k, s) \in Seq(ClientMessage) /\ Len(Went(ms, hits, k, s)) >= Len(ms)
<1> DEFINE i == Len(ms) + 1 - k
<1>1. SUFFICES ASSUME s \in Seq(ClientMessage), Len(s) >= Len(ms)
               PROVE  Went(ms, hits, k, s) \in Seq(ClientMessage) /\ Len(Went(ms, hits, k, s)) >= Len(ms)
  OBVIOUS
<1>2. CASE i \in hits
  <2>1. i \in 1..Len(s)
    BY <1>1
  <2>2. InsertAt(s, i + 1, Notice) \in Seq(ClientMessage) /\ Len(InsertAt(s, i + 1, Notice)) = Len(s) + 1
    <3> DEFINE t == InsertAt(s, i + 1, Notice)
    <3>1. Between(s, i, t)
      BY <1>1, <2>1, NoticeBetween
    <3> HIDE DEF t
    <3>2. t \in Seq(ClientMessage) /\ Len(t) = Len(s) + 1
      BY <3>1 DEF Between
    <3> QED
      BY <3>2 DEF t
  <2> QED
    BY <1>1, <1>2, <2>2 DEF Went
<1>3. CASE i \notin hits
  BY <1>1, <1>3 DEF Went
<1> QED
  BY <1>2, <1>3

LEMMA InsertedBackwards ==
    ASSUME NEW ms \in Seq(ClientMessage), NEW hits
    PROVE  \E back :
              /\ back[0] = ms /\ Inserted(ms, hits) = back[Len(ms)]
              /\ \A k \in 1..Len(ms) : back[k] = Went(ms, hits, k, back[k - 1])
<1> DEFINE n == Len(ms)
           S == {s \in Seq(ClientMessage) : Len(s) >= n}
           step == [k \in 1..n |-> [s \in S |-> Went(ms, hits, k, s)]]
           After(f) == [k \in 0..n |-> IF k = 0 THEN ms ELSE Went(ms, hits, k, f[k - 1])]
           back == CHOOSE f : f = After(f)
<1>1. n \in Nat /\ ms \in S
  OBVIOUS
<1>2. \A k \in 1..n : \A s \in S : Went(ms, hits, k, s) \in S
  BY WentTypes
<1>3. Inserted(ms, hits) = back[n]
  BY Zenon DEF Inserted, Went
<1> HIDE DEF S, n
<1>4. step \in Steps(S, n)
  BY <1>2 DEF Steps
<1>5. PICK f : Visits(f, S, ms, step, n)
  <2> HIDE DEF step
  <2> QED
    BY <1>1, <1>4, Iterates
<1>6. f \in [0..n -> S] /\ f[0] = ms /\ \A k \in 1..n : f[k] = step[k][f[k - 1]]
  BY <1>5 DEF Visits
<1>7. f = After(f)
  <2>1. ASSUME NEW k \in 0..n PROVE f[k] = After(f)[k]
    <3>1. CASE k = 0
      BY <1>6, <3>1
    <3>2. CASE k # 0
      <4>1. k \in 1..n /\ k - 1 \in 0..n
        BY <1>1, <3>2
      <4>2. f[k - 1] \in S
        BY <1>6, <4>1
      <4> QED
        BY <1>6, <3>2, <4>1, <4>2
    <3> QED
      BY <3>1, <3>2
  <2> QED
    BY <1>6, <2>1
<1>8. back = After(back)
  BY <1>7, Zenon
<1> HIDE DEF back
<1>9. /\ back[0] = ms
      /\ \A k \in 1..n : back[k] = Went(ms, hits, k, back[k - 1])
  BY <1>1, <1>8
<1> QED
  BY <1>3, <1>9 DEF n

(* Messages that carry notices only in results, where they belong, get the *)
(* rest of the notices where these belong too, and say what they said.     *)
LEMMA InsertedInPlace ==
    ASSUME NEW ms \in Seq(ClientMessage), NEW hits, NEW keys, Placed(ms, keys),
           \A i \in 1..Len(ms) : ms[i] # Notice,
           \A i \in hits : i \in 1..Len(ms) => ms[i].role = "assistant" /\ key_of(ms[i]) \in keys
    PROVE  /\ Inserted(ms, hits) \in Seq(ClientMessage)
           /\ WithoutNotices(Inserted(ms, hits)) = WithoutNotices(ms)
           /\ Placed(Inserted(ms, hits), keys)
<1> DEFINE n == Len(ms)
           Good(s, k) ==
               /\ s \in Seq(ClientMessage) /\ Len(s) >= n
               /\ \A i \in 1..n : i <= n + 1 - k => s[i] = ms[i]
               /\ k = 0 => Len(s) = n
               /\ WithoutNotices(s) = WithoutNotices(ms)
               /\ Placed(s, keys)
<1>1. PICK back :
         /\ back[0] = ms /\ Inserted(ms, hits) = back[n]
         /\ \A k \in 1..n : back[k] = Went(ms, hits, k, back[k - 1])
  BY InsertedBackwards
<1>2. n \in Nat
  OBVIOUS
<1> DEFINE P == {k \in Nat : k <= n => Good(back[k], k)}
<1>3. 0 \in P
  BY <1>1, <1>2
<1>4. ASSUME NEW k \in Nat, k \in P PROVE k + 1 \in P
  <2>1. SUFFICES ASSUME k + 1 <= n PROVE Good(back[k + 1], k + 1)
    OBVIOUS
  <2> DEFINE s == back[k]
             i == n - k
  <2>2. Good(s, k)
    BY <1>2, <1>4, <2>1
  <2>3. /\ k + 1 \in 1..n /\ (k + 1) - 1 = k /\ n + 1 - (k + 1) = i
        /\ i \in 1..n /\ i <= n + 1 - k
    BY <1>2, <2>1
  <2>4. back[k + 1] = IF i \in hits THEN InsertAt(s, i + 1, Notice) ELSE s
    BY <1>1, <2>3 DEF Went
  <2> HIDE DEF s
  <2>5. CASE i \notin hits
    <3>1. back[k + 1] = s
      BY <2>4, <2>5
    <3>2. \A j \in 1..n : j <= n + 1 - (k + 1) => j <= n + 1 - k
      BY <1>2
    <3> QED
      BY <2>2, <3>1, <3>2
  <2>6. CASE i \in hits
    <3> DEFINE t == InsertAt(s, i + 1, Notice)
    <3>1. i \in 1..Len(s) /\ s \in Seq(ClientMessage) /\ Len(s) >= n /\ s[i] = ms[i]
      BY <1>2, <2>2, <2>3
    <3>2. Between(s, i, t)
      BY <3>1, NoticeBetween
    <3>3. WithoutNotices(t) = WithoutNotices(s)
      BY <3>1, NoticeUnheard
    <3>4. i + 1 \in 1..Len(s) => s[i + 1] # Notice
      <4>1. SUFFICES ASSUME i + 1 \in 1..Len(s) PROVE s[i + 1] # Notice
        OBVIOUS
      <4>2. i + 1 <= n
        BY <1>2, <2>2, <2>3, <4>1
      <4>3. i + 1 \in 1..n /\ i + 1 <= n + 1 - k
        BY <1>2, <2>3, <4>2
      <4>4. s[i + 1] = ms[i + 1]
        BY <2>2, <4>3
      <4> QED
        BY <4>3, <4>4
    <3>5. s[i].role = "assistant" /\ key_of(s[i]) \in keys
      BY <2>3, <2>6, <3>1
    <3>6. Placed(t, keys)
      <4>1. Placed(s, keys)
        BY <2>2
      <4> HIDE DEF i
      <4> QED
        BY <3>1, <3>4, <3>5, <4>1, NoticePlaced
    <3>7. back[k + 1] = t
      BY <2>4, <2>6
    <3> HIDE DEF t
    <3>8. t \in Seq(ClientMessage) /\ Len(t) = Len(s) + 1 /\ \A j \in 1..i : t[j] = s[j]
      BY <3>2 DEF Between
    <3>9. \A j \in 1..n : j <= n + 1 - (k + 1) => t[j] = ms[j]
      <4>1. SUFFICES ASSUME NEW j \in 1..n, j <= n + 1 - (k + 1) PROVE t[j] = ms[j]
        OBVIOUS
      <4>2. j \in 1..i /\ j <= n + 1 - k
        BY <1>2, <2>3, <4>1
      <4> QED
        BY <2>2, <3>8, <4>2
    <3>10. Len(t) >= n /\ k + 1 # 0
      BY <1>2, <3>1, <3>8
    <3>11. WithoutNotices(t) = WithoutNotices(ms)
      BY <2>2, <3>3 DEF t
    <3>12. Placed(t, keys)
      BY <3>6 DEF t
    <3> QED
      BY <3>7, <3>8, <3>9, <3>10, <3>11, <3>12
  <2> QED
    BY <2>5, <2>6
<1> HIDE DEF P
<1>5. n \in P
  BY <1>2, <1>3, <1>4, Upwards
<1>6. Good(back[n], n)
  BY <1>2, <1>5 DEF P
<1> QED
  BY <1>1, <1>6

-----------------------------------------------------------------------------
Ongoing == [pc : {"idle", "check", "send"}, messages : Seq(ClientMessage), attempt : Nat]

RecoveryTypes ==
    /\ chat \in [Chats -> Seq(Said)]
    /\ ongoing \in [Chats -> Ongoing]
    /\ asked \in Nat
    /\ noted \in [DOMAIN noted -> Nat] /\ announced \in [DOMAIN announced -> Nat]

(* What the store still holds was noted more often than announced.         *)
Times(f, k) == IF k \in DOMAIN f THEN f[k] ELSE 0

StoreInv ==
    /\ NoticeOnce
    /\ \A k \in tool_cache \cup content_cache :
          k \in DOMAIN noted /\ Times(announced, k) < noted[k]

(* A request reads as the conversation, with its notices in place.         *)
Reads(c) ==
    /\ ReadAs(WithoutNotices(ongoing[c].messages), chat[c], DOMAIN noted)
    /\ Placed(ongoing[c].messages, DOMAIN noted)

PlaceInv == \A c \in Chats : ongoing[c].pc # "idle" => Reads(c)

RecoveryInv == RecoveryTypes /\ StoreInv /\ PlaceInv

LEMMA PlaceMeans == RecoveryInv => NoticesRight
BY DEF RecoveryInv, StoreInv, PlaceInv, Reads, Placed, NoticesRight, NoticeInPlace

LEMMA PlacedStill ==
    ASSUME NEW ms, NEW keys, NEW more, keys \subseteq more, Placed(ms, keys)
    PROVE  Placed(ms, more)
BY DEF Placed

LEMMA CountedTypes ==
    ASSUME NEW f, f \in [DOMAIN f -> Nat], NEW keys
    PROVE  /\ DOMAIN Counted(f, keys) = DOMAIN f \cup keys
           /\ Counted(f, keys) \in [DOMAIN Counted(f, keys) -> Nat]
           /\ \A k \in DOMAIN f \cup keys :
                 Counted(f, keys)[k] = Times(f, k) + (IF k \in keys THEN 1 ELSE 0)
           /\ \A k : Times(f, k) \in Nat
<1>1. \A k : Times(f, k) \in Nat
  BY DEF Times
<1>2. Counted(f, keys) = [k \in DOMAIN f \cup keys |-> Times(f, k) + (IF k \in keys THEN 1 ELSE 0)]
  BY DEF Counted, Times
<1>3. \A k \in DOMAIN f \cup keys : Times(f, k) + (IF k \in keys THEN 1 ELSE 0) \in Nat
  BY <1>1
<1> QED
  BY <1>1, <1>2, <1>3

LEMMA TurnIsSaid ==
    ASSUME NEW role \in {"user", "assistant", "tool"}, NEW text \in Texts \cup {<<>>}, NEW id \in Nat
    PROVE  Turn(role, text, id) \in Said
BY DEF Turn, Said, ClientMessage

LEMMA ResultIsSaid ==
    ASSUME NEW id \in Nat, NEW parts \in BOOLEAN
    PROVE  Result(id, parts) \in Said
BY DEF Result, Turn, Said, ClientMessage

LEMMA ReplayedIsSaid ==
    ASSUME RecoveryTypes, NEW c \in Chats, NEW parts \in BOOLEAN
    PROVE  Replayed(c, parts) \in Seq(Said)
<1>1. chat[c] \in Seq(Said)
  BY DEF RecoveryTypes
<1> DEFINE last == chat[c][Len(chat[c])]
<1>2. CASE chat[c] = <<>>
  <2>1. Replayed(c, parts) = <<Turn("user", <<>>, 0)>>
    BY <1>2 DEF Replayed
  <2>2. Turn("user", <<>>, 0) \in Said
    BY TurnIsSaid
  <2> QED
    BY <2>1, <2>2
<1>3. CASE chat[c] # <<>> /\ last.role # "assistant"
  BY <1>1, <1>3 DEF Replayed
<1>4. CASE chat[c] # <<>> /\ last.role = "assistant"
  <2> DEFINE next == IF last.id # 0 THEN Result(last.id, parts) ELSE Turn("user", <<>>, 0)
  <2>1. last \in Said
    BY <1>1, <1>4
  <2>2. last.id \in Nat
    BY <2>1 DEF Said, ClientMessage
  <2>3. next \in Said
    BY <2>2, ResultIsSaid, TurnIsSaid
  <2>4. Replayed(c, parts) = Append(chat[c], next)
    BY <1>4 DEF Replayed
  <2> HIDE DEF next, last
  <2> QED
    BY <1>1, <2>3, <2>4
<1> QED
  BY <1>2, <1>3, <1>4

(* What Ask sends.                                                         *)
LEMMA AskedReads ==
    ASSUME NEW ms \in Seq(Said), NEW tools, NEW contents, NEW keys, tools \cup contents \subseteq keys
    PROVE  LET sent == inject_truncation_recovery(ms, Hits(ms, tools, contents)) IN
           sent \in Seq(ClientMessage) /\ ReadAs(WithoutNotices(sent), ms, keys) /\ Placed(sent, keys)
<1> DEFINE hits == Hits(ms, tools, contents)
           p == Prepended(ms, hits)
           ins == {i \in hits : ms[i].role = "assistant"}
<1>1. \A i \in hits : /\ i \in 1..Len(ms) /\ key_of(ms[i]) \in keys
  BY DEF Hits
<1>2. /\ p \in Seq(ClientMessage) /\ Len(p) = Len(ms) /\ WithoutNotices(p) = ReadBack(ms, hits)
  BY PrefixUnheard
<1>3. \A i \in 1..Len(ms) : p[i] = IF i \in hits /\ ms[i].role = "tool" THEN Marked(Reread(ms[i])) ELSE ms[i]
  BY DEF Prepended, Marked
<1>4. \A i \in 1..Len(ms) : ms[i] \in Said /\ ms[i].notice = FALSE
  BY DEF Said, ClientMessage
<1>5. \A m \in Said : m.role = "tool" => /\ Marked(Reread(m)).role = m.role
                                        /\ key_of(Marked(Reread(m))) = key_of(m)
  <2>1. SUFFICES ASSUME NEW m \in Said, m.role = "tool"
                 PROVE  Marked(Reread(m)).role = m.role /\ key_of(Marked(Reread(m))) = key_of(m)
    OBVIOUS
  <2>2. Marked(Reread(m)).role = m.role /\ Marked(Reread(m)).id = m.id
    BY MarkedIs, RereadIsSaid
  <2> QED
    BY <2>1, <2>2 DEF key_of
<1>11. ReadAs(ReadBack(ms, hits), ms, keys)
  BY <1>1, ReadBackIsRead
<1> HIDE DEF hits, p
<1>6. \A i \in 1..Len(ms) : /\ p[i].notice => i \in hits /\ ms[i].role = "tool"
                            /\ p[i].role = ms[i].role /\ key_of(p[i]) = key_of(ms[i])
  BY <1>3, <1>4, <1>5
<1>7. \A i \in 1..Len(p) : p[i] # Notice
  BY <1>2, <1>6, NoticeIsMessage
<1>8. Placed(p, keys)
  BY <1>1, <1>2, <1>6, <1>7 DEF Placed
<1>9. \A i \in ins : i \in 1..Len(p) => p[i].role = "assistant" /\ key_of(p[i]) \in keys
  BY <1>1, <1>6
<1> HIDE DEF ins
<1>10. /\ Inserted(p, ins) \in Seq(ClientMessage) /\ Placed(Inserted(p, ins), keys)
       /\ WithoutNotices(Inserted(p, ins)) = ReadBack(ms, hits)
  BY <1>2, <1>7, <1>8, <1>9, InsertedInPlace
<1> QED
  BY <1>10, <1>11 DEF inject_truncation_recovery, p, ins, hits

-----------------------------------------------------------------------------
(* The keys of Ask's notices are in the store.                             *)
LEMMA HitKeys ==
    ASSUME NEW ms, NEW tools, NEW contents
    PROVE  {key_of(ms[i]) : i \in Hits(ms, tools, contents)} \subseteq tools \cup contents
BY DEF Hits

(* Taken from the store and announced, or noted and put into it.           *)
LEMMA TakenOnce ==
    ASSUME RecoveryTypes, StoreInv, NEW keys, keys \subseteq tool_cache \cup content_cache,
           tool_cache' = tool_cache \ keys, content_cache' = content_cache \ keys,
           announced' = Counted(announced, keys), noted' = noted
    PROVE  StoreInv'
<1>1. /\ announced \in [DOMAIN announced -> Nat] /\ noted \in [DOMAIN noted -> Nat]
      /\ \A k \in DOMAIN announced : k \in DOMAIN noted /\ announced[k] <= noted[k]
      /\ \A k \in tool_cache \cup content_cache : k \in DOMAIN noted /\ Times(announced, k) < noted[k]
  BY DEF RecoveryTypes, StoreInv, NoticeOnce
<1>2. /\ DOMAIN announced' = DOMAIN announced \cup keys
      /\ \A k \in DOMAIN announced \cup keys :
            announced'[k] = Times(announced, k) + (IF k \in keys THEN 1 ELSE 0)
      /\ \A k : Times(announced, k) \in Nat
  BY <1>1, CountedTypes
<1>3. ASSUME NEW k \in DOMAIN announced' PROVE k \in DOMAIN noted' /\ announced'[k] <= noted'[k]
  <2>1. CASE k \in keys
    <3>1. k \in DOMAIN noted /\ Times(announced, k) < noted[k]
      BY <1>1, <2>1
    <3>2. announced'[k] = Times(announced, k) + 1
      BY <1>2, <2>1
    <3>3. noted[k] \in Nat /\ Times(announced, k) \in Nat
      BY <1>1, <1>2, <3>1
    <3> QED
      BY <3>1, <3>2, <3>3
  <2>2. CASE k \notin keys
    <3>1. k \in DOMAIN announced /\ announced'[k] = Times(announced, k) + 0
      BY <1>2, <1>3, <2>2
    <3>2. Times(announced, k) = announced[k] /\ announced[k] \in Nat
      BY <1>1, <3>1 DEF Times
    <3> QED
      BY <1>1, <3>1, <3>2
  <2> QED
    BY <2>1, <2>2
<1>4. ASSUME NEW k \in tool_cache' \cup content_cache'
      PROVE  k \in DOMAIN noted' /\ Times(announced', k) < noted'[k]
  <2>1. k \in tool_cache \cup content_cache /\ k \notin keys
    BY <1>4
  <2>2. Times(announced', k) = Times(announced, k)
    <3>1. CASE k \in DOMAIN announced
      <4>1. announced'[k] = Times(announced, k) + 0 /\ k \in DOMAIN announced'
        BY <1>2, <2>1, <3>1
      <4>2. Times(announced', k) = announced'[k]
        BY <4>1 DEF Times
      <4> QED
        BY <1>2, <4>1, <4>2
    <3>2. CASE k \notin DOMAIN announced
      BY <1>2, <2>1, <3>2 DEF Times
    <3> QED
      BY <3>1, <3>2
  <2> QED
    BY <1>1, <2>1, <2>2
<1> QED
  BY <1>3, <1>4 DEF StoreInv, NoticeOnce

LEMMA NotedOnce ==
    ASSUME RecoveryTypes, StoreInv, NEW key,
           tool_cache' \cup content_cache' \subseteq tool_cache \cup content_cache \cup {key},
           noted' = Counted(noted, {key}), announced' = announced
    PROVE  StoreInv' /\ DOMAIN noted \subseteq DOMAIN noted' /\ noted' \in [DOMAIN noted' -> Nat]
<1>1. /\ announced \in [DOMAIN announced -> Nat] /\ noted \in [DOMAIN noted -> Nat]
      /\ \A k \in DOMAIN announced : k \in DOMAIN noted /\ announced[k] <= noted[k]
      /\ \A k \in tool_cache \cup content_cache : k \in DOMAIN noted /\ Times(announced, k) < noted[k]
  BY DEF RecoveryTypes, StoreInv, NoticeOnce
<1>2. /\ DOMAIN noted' = DOMAIN noted \cup {key}
      /\ \A k \in DOMAIN noted \cup {key} : noted'[k] = Times(noted, k) + (IF k \in {key} THEN 1 ELSE 0)
      /\ noted' \in [DOMAIN noted' -> Nat]
  BY <1>1, CountedTypes
<1>3. \A k : Times(noted, k) \in Nat /\ Times(announced, k) \in Nat /\ Times(announced, k) <= Times(noted, k)
  BY <1>1 DEF Times
<1>4. \A k \in DOMAIN noted : Times(noted, k) = noted[k] /\ noted[k] \in Nat
  BY <1>1 DEF Times
<1>5. \A k \in DOMAIN noted' : Times(noted, k) <= noted'[k]
  BY <1>2, <1>3
<1>6. \A k \in DOMAIN announced : k \in DOMAIN noted' /\ announced[k] <= noted'[k]
  <2>1. SUFFICES ASSUME NEW k \in DOMAIN announced PROVE k \in DOMAIN noted' /\ announced[k] <= noted'[k]
    OBVIOUS
  <2>2. k \in DOMAIN noted /\ k \in DOMAIN noted' /\ announced[k] <= noted[k] /\ announced[k] \in Nat
    BY <1>1, <1>2, <2>1
  <2>3. noted[k] <= noted'[k] /\ noted[k] \in Nat /\ noted'[k] \in Nat
    BY <1>2, <1>4, <1>5, <2>2
  <2> QED
    BY <2>2, <2>3
<1>7. ASSUME NEW k \in tool_cache' \cup content_cache'
      PROVE  k \in DOMAIN noted' /\ Times(announced, k) < noted'[k]
  <2>1. CASE k = key
    <3>1. k \in DOMAIN noted' /\ noted'[k] = Times(noted, k) + 1
      BY <1>2, <2>1
    <3> QED
      BY <1>3, <3>1
  <2>2. CASE k # key
    <3>1. k \in DOMAIN noted /\ Times(announced, k) < noted[k] /\ k \in DOMAIN noted'
      BY <1>1, <1>2, <1>7, <2>2
    <3>2. noted[k] <= noted'[k] /\ noted[k] \in Nat /\ noted'[k] \in Nat
      BY <1>2, <1>4, <1>5, <3>1
    <3> QED
      BY <1>3, <3>1, <3>2
  <2> QED
    BY <2>1, <2>2
<1> QED
  BY <1>2, <1>6, <1>7 DEF StoreInv, NoticeOnce

LEMMA SameStore ==
    ASSUME StoreInv, tool_cache' \cup content_cache' \subseteq tool_cache \cup content_cache,
           UNCHANGED <<noted, announced>>
    PROVE  StoreInv'
BY DEF StoreInv, NoticeOnce

-----------------------------------------------------------------------------
LEMMA RecoveryStarts == RecoveryInit => RecoveryInv
<1> SUFFICES ASSUME RecoveryInit PROVE RecoveryInv
  OBVIOUS
<1>1. RecoveryTypes
  <2>1. \A f : f = <<>> => f \in [DOMAIN f -> Nat]
    OBVIOUS
  <2>2. NotAsking \in Ongoing
    BY DEF NotAsking, Ongoing
  <2> QED
    BY <2>1, <2>2 DEF RecoveryInit, RecoveryTypes
<1>2. StoreInv
  BY DEF RecoveryInit, StoreInv, NoticeOnce
<1>3. PlaceInv
  BY DEF RecoveryInit, PlaceInv, NotAsking
<1> QED
  BY <1>1, <1>2, <1>3 DEF RecoveryInv

LEMMA AskKeeps ==
    ASSUME RecoveryInv, NEW c \in Chats, NEW parts \in BOOLEAN, Ask(c, parts)
    PROVE  RecoveryInv'
<1> DEFINE ms == Replayed(c, parts)
           hits == Hits(ms, tool_cache, content_cache)
           keys == {key_of(ms[i]) : i \in hits}
           sent == inject_truncation_recovery(ms, hits)
           mine == [NotAsking EXCEPT !.pc = "check", !.messages = sent]
<1>1. /\ RecoveryTypes /\ StoreInv /\ PlaceInv
  BY DEF RecoveryInv
<1>2. /\ chat' = [chat EXCEPT ![c] = ms] /\ ongoing' = [ongoing EXCEPT ![c] = mine]
      /\ tool_cache' = tool_cache \ keys /\ content_cache' = content_cache \ keys
      /\ announced' = Counted(announced, keys) /\ noted' = noted /\ asked' = asked + 1
  BY DEF Ask, get_truncation
<1>3. ms \in Seq(Said)
  BY <1>1, ReplayedIsSaid
<1>4. keys \subseteq tool_cache \cup content_cache
  BY HitKeys
<1>5. tool_cache \cup content_cache \subseteq DOMAIN noted
  BY <1>1 DEF StoreInv
<1>6. sent \in Seq(ClientMessage) /\ ReadAs(WithoutNotices(sent), ms, DOMAIN noted) /\ Placed(sent, DOMAIN noted)
  BY <1>3, <1>5, AskedReads
<1> HIDE DEF ms, hits, keys, sent
<1>7. mine \in Ongoing /\ mine.messages = sent
  BY <1>6 DEF NotAsking, Ongoing
<1> HIDE DEF mine
<1>8. RecoveryTypes'
  <2>1. announced \in [DOMAIN announced -> Nat]
    BY <1>1 DEF RecoveryTypes
  <2>2. announced' \in [DOMAIN announced' -> Nat]
    BY <1>2, <2>1, CountedTypes
  <2> QED
    BY <1>1, <1>2, <1>3, <1>7, <2>2 DEF RecoveryTypes
<1>9. StoreInv'
  BY <1>1, <1>2, <1>4, TakenOnce
<1>10. PlaceInv'
  <2>1. SUFFICES ASSUME NEW d \in Chats, ongoing'[d].pc # "idle"
                 PROVE  /\ ReadAs(WithoutNotices(ongoing'[d].messages), chat'[d], DOMAIN noted')
                        /\ Placed(ongoing'[d].messages, DOMAIN noted')
    BY DEF PlaceInv, Reads
  <2>2. chat \in [Chats -> Seq(Said)] /\ ongoing \in [Chats -> Ongoing]
    BY <1>1 DEF RecoveryTypes
  <2>3. CASE d = c
    BY <1>2, <1>6, <1>7, <2>2, <2>3
  <2>4. CASE d # c
    <3>1. ongoing'[d] = ongoing[d] /\ chat'[d] = chat[d] /\ noted' = noted
      BY <1>2, <2>2, <2>4
    <3>2. Reads(d)
      BY <1>1, <2>1, <3>1 DEF PlaceInv
    <3> QED
      BY <3>1, <3>2 DEF Reads
  <2> QED
    BY <2>3, <2>4
<1> QED
  BY <1>8, <1>9, <1>10 DEF RecoveryInv

(* The request goes on with its messages, or is over.                      *)
LEMMA GoesOn ==
    ASSUME RecoveryInv, NEW c \in Chats, NEW now \in Ongoing,
           now.pc = "idle" \/ (ongoing[c].pc # "idle" /\ now.messages = ongoing[c].messages),
           ongoing' = [ongoing EXCEPT ![c] = now],
           UNCHANGED <<chat, tool_cache, content_cache, asked, noted, announced>>
    PROVE  RecoveryInv'
<1>1. /\ RecoveryTypes /\ StoreInv /\ PlaceInv
  BY DEF RecoveryInv
<1>2. RecoveryTypes'
  BY <1>1 DEF RecoveryTypes
<1>3. StoreInv'
  BY <1>1, SameStore
<1>4. PlaceInv'
  <2>1. SUFFICES ASSUME NEW d \in Chats, ongoing'[d].pc # "idle"
                 PROVE  /\ ReadAs(WithoutNotices(ongoing'[d].messages), chat[d], DOMAIN noted)
                        /\ Placed(ongoing'[d].messages, DOMAIN noted)
    BY DEF PlaceInv, Reads
  <2>2. ongoing'[d].messages = ongoing[d].messages /\ ongoing[d].pc # "idle"
    BY <1>1, <2>1 DEF RecoveryTypes
  <2> QED
    BY <1>1, <2>2 DEF PlaceInv, Reads
<1> QED
  BY <1>2, <1>3, <1>4 DEF RecoveryInv

LEMMA RequestKeeps ==
    ASSUME RecoveryInv, NEW c \in Chats,
           CheckPassed(c) \/ GivenUp(c) \/ RetryLater(c) \/ RetriesSpent(c)
    PROVE  RecoveryInv'
<1>1. ongoing[c] \in Ongoing
  BY DEF RecoveryInv, RecoveryTypes
<1>2. NotAsking \in Ongoing /\ NotAsking.pc = "idle"
  BY DEF NotAsking, Ongoing
<1>3. CASE CheckPassed(c)
  <2> DEFINE now == [ongoing[c] EXCEPT !.pc = "send"]
  <2>1. now \in Ongoing /\ now.messages = ongoing[c].messages /\ ongoing[c].pc # "idle"
    BY <1>1, <1>3 DEF Ongoing, CheckPassed
  <2>2. ongoing' = [ongoing EXCEPT ![c] = now]
    BY <1>3 DEF CheckPassed
  <2> HIDE DEF now
  <2> QED
    BY <1>3, <2>1, <2>2, GoesOn DEF CheckPassed
<1>4. CASE GivenUp(c)
  BY <1>2, <1>4, GoesOn DEF GivenUp
<1>5. CASE RetryLater(c)
  <2> DEFINE now == [ongoing[c] EXCEPT !.attempt = @ + 1]
  <2>1. now \in Ongoing /\ now.messages = ongoing[c].messages /\ ongoing[c].pc # "idle"
    BY <1>1, <1>5 DEF Ongoing, RetryLater
  <2>2. ongoing' = [ongoing EXCEPT ![c] = now]
    BY <1>5 DEF RetryLater
  <2> HIDE DEF now
  <2> QED
    BY <1>5, <2>1, <2>2, GoesOn DEF RetryLater
<1>6. CASE RetriesSpent(c)
  BY <1>2, <1>6, GoesOn DEF RetriesSpent
<1> QED
  BY <1>3, <1>4, <1>5, <1>6

(* An answer ends the request: the conversation grows when nothing of it   *)
(* is under way.                                                           *)
LEMMA AnswerKeeps ==
    ASSUME RecoveryInv, NEW c \in Chats, NEW answer \in Said, NEW key, NEW cut \in BOOLEAN,
           Note(c, answer, key, cut), asked' \in Nat,
           tool_cache' \cup content_cache' \subseteq
               tool_cache \cup content_cache \cup (IF cut THEN {key} ELSE {})
    PROVE  RecoveryInv'
<1>1. /\ RecoveryTypes /\ StoreInv /\ PlaceInv
  BY DEF RecoveryInv
<1>2. /\ chat' = [chat EXCEPT ![c] = Append(@, answer)] /\ announced' = announced
      /\ noted' = (IF cut THEN Counted(noted, {key}) ELSE noted)
      /\ ongoing' = [ongoing EXCEPT ![c] = NotAsking]
  BY DEF Note
<1>3. StoreInv' /\ DOMAIN noted \subseteq DOMAIN noted' /\ noted' \in [DOMAIN noted' -> Nat]
  <2>1. CASE cut
    BY <1>1, <1>2, <2>1, NotedOnce
  <2>2. CASE ~cut
    BY <1>1, <1>2, <2>2, SameStore DEF RecoveryTypes
  <2> QED
    BY <2>1, <2>2
<1>4. NotAsking \in Ongoing /\ NotAsking.pc = "idle"
  BY DEF NotAsking, Ongoing
<1>5. RecoveryTypes'
  <2>1. chat' \in [Chats -> Seq(Said)]
    <3>1. chat \in [Chats -> Seq(Said)] /\ Append(chat[c], answer) \in Seq(Said)
      BY <1>1 DEF RecoveryTypes
    <3> QED
      BY <1>2, <3>1
  <2>2. ongoing' \in [Chats -> Ongoing]
    BY <1>1, <1>2, <1>4 DEF RecoveryTypes
  <2>3. announced' \in [DOMAIN announced' -> Nat]
    BY <1>1, <1>2 DEF RecoveryTypes
  <2> QED
    BY <1>3, <2>1, <2>2, <2>3 DEF RecoveryTypes
<1>6. PlaceInv'
  <2>1. SUFFICES ASSUME NEW d \in Chats, ongoing'[d].pc # "idle"
                 PROVE  /\ ReadAs(WithoutNotices(ongoing'[d].messages), chat'[d], DOMAIN noted')
                        /\ Placed(ongoing'[d].messages, DOMAIN noted')
    BY DEF PlaceInv, Reads
  <2>2. chat \in [Chats -> Seq(Said)] /\ ongoing \in [Chats -> Ongoing]
    BY <1>1 DEF RecoveryTypes
  <2>3. d # c
    BY <1>2, <1>4, <2>1, <2>2
  <2>4. ongoing'[d] = ongoing[d] /\ chat'[d] = chat[d]
    BY <1>2, <2>2, <2>3
  <2>5. Reads(d)
    BY <1>1, <2>1, <2>4 DEF PlaceInv
  <2> QED
    BY <1>3, <2>4, <2>5, PlacedStill, ReadStill DEF Reads
<1> QED
  BY <1>3, <1>5, <1>6 DEF RecoveryInv

LEMMA AnswerTextKeeps ==
    ASSUME RecoveryInv, NEW c \in Chats, NEW text \in Texts, NEW thinking, NEW cut \in BOOLEAN,
           AnswerText(c, text, thinking, cut)
    PROVE  RecoveryInv'
<1> DEFINE key == ContentKey(thinking \o text)
           answer == Turn("assistant", text, 0)
<1>1. /\ content_cache' = (IF cut THEN content_cache \cup {key} ELSE content_cache)
      /\ Note(c, answer, key, cut) /\ tool_cache' = tool_cache /\ asked' = asked
  BY DEF AnswerText
<1>2. answer \in Said
  BY TurnIsSaid
<1>3. asked' \in Nat
  BY <1>1 DEF RecoveryInv, RecoveryTypes
<1> HIDE DEF key, answer
<1>4. tool_cache' \cup content_cache' \subseteq tool_cache \cup content_cache \cup (IF cut THEN {key} ELSE {})
  BY <1>1
<1> QED
  BY <1>1, <1>2, <1>3, <1>4, AnswerKeeps

LEMMA AnswerCallKeeps ==
    ASSUME RecoveryInv, NEW c \in Chats, NEW cut \in BOOLEAN, AnswerCall(c, cut)
    PROVE  RecoveryInv'
<1> DEFINE key == ToolKey(asked + 1)
           answer == Turn("assistant", <<>>, asked + 1)
<1>1. /\ tool_cache' = (IF cut THEN tool_cache \cup {key} ELSE tool_cache)
      /\ Note(c, answer, key, cut) /\ content_cache' = content_cache /\ asked' = asked + 1
  BY DEF AnswerCall
<1>2. asked + 1 \in Nat
  BY DEF RecoveryInv, RecoveryTypes
<1>3. answer \in Said
  BY <1>2, TurnIsSaid
<1> HIDE DEF key, answer
<1>4. tool_cache' \cup content_cache' \subseteq tool_cache \cup content_cache \cup (IF cut THEN {key} ELSE {})
  BY <1>1
<1>5. asked' \in Nat
  BY <1>1, <1>2
<1> QED
  BY <1>1, <1>3, <1>4, <1>5, AnswerKeeps

LEMMA AnswerElsewhereKeeps ==
    ASSUME RecoveryInv, NEW c \in Chats, NEW text \in Texts, NEW parts \in BOOLEAN,
           AnswerElsewhere(c, text, parts)
    PROVE  RecoveryInv'
<1> DEFINE answer == Turn("assistant", text, 0)
           ms == Append(Replayed(c, parts), answer)
<1>1. /\ RecoveryTypes /\ StoreInv /\ PlaceInv
  BY DEF RecoveryInv
<1>2. ms \in Seq(Said)
  <2>1. answer \in Said
    BY TurnIsSaid
  <2>2. Replayed(c, parts) \in Seq(Said)
    BY <1>1, ReplayedIsSaid
  <2> QED
    BY <2>1, <2>2
<1>3. /\ ongoing[c] = NotAsking /\ asked' = asked + 1 /\ chat' = [chat EXCEPT ![c] = ms]
      /\ UNCHANGED <<tool_cache, content_cache, ongoing, noted, announced>>
  BY DEF AnswerElsewhere
<1> HIDE DEF ms
<1>4. RecoveryTypes'
  BY <1>1, <1>2, <1>3 DEF RecoveryTypes
<1>5. StoreInv'
  BY <1>1, <1>3, SameStore
<1>6. PlaceInv'
  <2>1. SUFFICES ASSUME NEW d \in Chats, ongoing[d].pc # "idle"
                 PROVE  /\ ReadAs(WithoutNotices(ongoing[d].messages), chat'[d], DOMAIN noted)
                        /\ Placed(ongoing[d].messages, DOMAIN noted)
    BY <1>3 DEF PlaceInv, Reads
  <2>2. d # c
    BY <1>3, <2>1 DEF NotAsking
  <2>3. chat'[d] = chat[d]
    BY <1>1, <1>3, <2>2 DEF RecoveryTypes
  <2> QED
    BY <1>1, <2>1, <2>3 DEF PlaceInv, Reads
<1> QED
  BY <1>4, <1>5, <1>6 DEF RecoveryInv

LEMMA RestartKeeps ==
    ASSUME RecoveryInv, RestartRecovery
    PROVE  RecoveryInv'
<1>1. NotAsking \in Ongoing /\ NotAsking.pc = "idle"
  BY DEF NotAsking, Ongoing
<1>2. RecoveryTypes'
  BY <1>1 DEF RecoveryInv, RecoveryTypes, RestartRecovery
<1>3. StoreInv'
  <2>1. StoreInv /\ tool_cache' \cup content_cache' = {} /\ UNCHANGED <<noted, announced>>
    BY DEF RecoveryInv, RestartRecovery
  <2> QED
    BY <2>1, SameStore
<1>4. PlaceInv'
  BY <1>1 DEF PlaceInv, RestartRecovery
<1> QED
  BY <1>2, <1>3, <1>4 DEF RecoveryInv

LEMMA RecoveryKeeps == RecoveryInv /\ [RecoveryNext]_recoveryVars => RecoveryInv'
<1> SUFFICES ASSUME RecoveryInv, [RecoveryNext]_recoveryVars PROVE RecoveryInv'
  OBVIOUS
<1>1. CASE UNCHANGED recoveryVars
  BY <1>1 DEF recoveryVars, RecoveryInv, RecoveryTypes, StoreInv, NoticeOnce, PlaceInv, Reads
<1>2. ASSUME NEW c \in Chats, NEW parts \in BOOLEAN, Ask(c, parts) PROVE RecoveryInv'
  BY <1>2, AskKeeps
<1>3. ASSUME NEW c \in Chats, CheckPassed(c) \/ GivenUp(c) \/ RetryLater(c) \/ RetriesSpent(c)
      PROVE  RecoveryInv'
  BY <1>3, RequestKeeps
<1>4. ASSUME NEW c \in Chats, NEW cut \in BOOLEAN, AnswerCall(c, cut) PROVE RecoveryInv'
  BY <1>4, AnswerCallKeeps
<1>5. ASSUME NEW c \in Chats, NEW cut \in BOOLEAN, NEW text \in Texts, NEW thinking \in {<<>>, <<"t">>},
             AnswerText(c, text, thinking, cut)
      PROVE  RecoveryInv'
  BY <1>5, AnswerTextKeeps
<1>6. ASSUME NEW c \in Chats, NEW text \in Texts, NEW parts \in BOOLEAN, AnswerElsewhere(c, text, parts)
      PROVE  RecoveryInv'
  BY <1>6, AnswerElsewhereKeeps
<1>7. CASE RestartRecovery
  BY <1>7, RestartKeeps
<1> QED
  BY <1>1, <1>2, <1>3, <1>4, <1>5, <1>6, <1>7 DEF RecoveryNext

(* The client's messages reach Kiro as the client has them, but for the    *)
(* results in parts whose place the notice takes; the notices about answers*)
(* cut short stand where they belong, and each is given once               *)
(* (inject_openai_truncation_recovery, get_tool_truncation).               *)
THEOREM NoticesGiven == RecoverySpec => []NoticesRight
<1>1. RecoverySpec => []RecoveryInv
  BY RecoveryStarts, RecoveryKeeps, PTL DEF RecoverySpec
<1> QED
  BY <1>1, PlaceMeans, PTL

-----------------------------------------------------------------------------
(***************************************************************************)
(* Objects in the Kiro event stream.                                       *)
(***************************************************************************)
LEMMA OneMore ==
    ASSUME NEW i \in Nat, NEW S \in SUBSET (1..i)
    PROVE  /\ Cardinality(S) \in Nat
           /\ Cardinality(S \cup {i + 1}) = Cardinality(S) + 1
<1>1. IsFiniteSet(1..i)
  BY FS_Interval
<1>2. IsFiniteSet(S)
  BY <1>1, FS_Subset
<1>3. i + 1 \notin S
  OBVIOUS
<1> QED
  BY <1>2, <1>3, FS_CardinalityType, FS_AddElement

LEMMA Parity == \A n \in Nat : (n + 1) % 2 = 1 <=> n % 2 # 1
OBVIOUS

(* Escapes, strings and braces, one symbol later.                          *)
LEMMA EscapeStep ==
    ASSUME NEW o, NEW i \in Nat, i >= 1
    PROVE  /\ ~Escaped(o, 1)
           /\ Escaped(o, i + 1) <=> o[i] = "back" /\ ~Escaped(o, i)
<1> DEFINE R(k) == {j \in 1..(k - 1) : \A l \in j..(k - 1) : o[l] = "back"}
<1>1. ~Escaped(o, 1)
  <2>1. R(1) = {}
    OBVIOUS
  <2>2. Cardinality(R(1)) = 0
    BY <2>1, FS_EmptySet
  <2> HIDE DEF R
  <2>3. Cardinality(R(1)) % 2 # 1
    BY <2>2
  <2> QED
    BY <2>3 DEF Escaped, R
<1>2. CASE o[i] # "back"
  <2>1. R(i + 1) = {}
    <3>1. \A j \in 1..i : i \in j..i
      OBVIOUS
    <3> QED
      BY <1>2, <3>1
  <2>2. Cardinality(R(i + 1)) = 0
    BY <2>1, FS_EmptySet
  <2> HIDE DEF R
  <2>3. Cardinality(R(i + 1)) % 2 # 1
    BY <2>2
  <2>4. ~Escaped(o, i + 1)
    BY <2>3 DEF Escaped, R
  <2> QED
    BY <1>1, <1>2, <2>4
<1>3. CASE o[i] = "back"
  <2>1. R(i + 1) = R(i) \cup {i}
    <3>1. (i + 1) - 1 = i
      OBVIOUS
    <3>2. ASSUME NEW j \in 1..(i - 1)
          PROVE  (\A l \in j..i : o[l] = "back") <=> \A l \in j..(i - 1) : o[l] = "back"
      <4>1. \A l \in j..i : l = i \/ l \in j..(i - 1)
        OBVIOUS
      <4>2. \A l \in j..(i - 1) : l \in j..i
        OBVIOUS
      <4> QED
        BY <1>3, <4>1, <4>2
    <3>3. \A l \in i..i : o[l] = "back"
      BY <1>3
    <3>4. \A j : j \in 1..i <=> (j \in 1..(i - 1) \/ j = i)
      OBVIOUS
    <3> QED
      BY <3>1, <3>2, <3>3, <3>4
  <2>2. R(i) \in SUBSET (1..(i - 1)) /\ i - 1 \in Nat /\ (i - 1) + 1 = i
    OBVIOUS
  <2> HIDE DEF R
  <2>6. Cardinality(R(i)) \in Nat /\ Cardinality(R(i) \cup {i}) = Cardinality(R(i)) + 1
    BY <2>2, OneMore
  <2>3. Cardinality(R(i)) \in Nat /\ Cardinality(R(i + 1)) = Cardinality(R(i)) + 1
    BY <2>1, <2>6
  <2>4. Cardinality(R(i + 1)) % 2 = 1 <=> Cardinality(R(i)) % 2 # 1
    BY <2>3, Parity
  <2>5. /\ Escaped(o, i + 1) <=> Cardinality(R(i + 1)) % 2 = 1
        /\ Escaped(o, i) <=> Cardinality(R(i)) % 2 = 1
    BY DEF Escaped, R
  <2> QED
    BY <1>1, <1>3, <2>4, <2>5
<1> QED
  BY <1>2, <1>3

LEMMA StringStep ==
    ASSUME NEW o, NEW i \in Nat, i >= 1
    PROVE  /\ ~InString(o, 1)
           /\ InString(o, i + 1) <=> IF o[i] = "quote" /\ ~Escaped(o, i) THEN ~InString(o, i) ELSE InString(o, i)
<1> DEFINE Q(k) == {j \in 1..(k - 1) : o[j] = "quote" /\ ~Escaped(o, j)}
<1>1. ~InString(o, 1)
  <2>1. Q(1) = {}
    OBVIOUS
  <2>2. Cardinality(Q(1)) = 0
    BY <2>1, FS_EmptySet
  <2> HIDE DEF Q
  <2>3. Cardinality(Q(1)) % 2 # 1
    BY <2>2
  <2> QED
    BY <2>3 DEF InString, Q
<1>2. Q(i + 1) = IF o[i] = "quote" /\ ~Escaped(o, i) THEN Q(i) \cup {i} ELSE Q(i)
  <2>1. (i + 1) - 1 = i /\ \A j : j \in 1..i <=> (j \in 1..(i - 1) \/ j = i)
    OBVIOUS
  <2> QED
    BY <2>1
<1>3. Q(i) \in SUBSET (1..(i - 1)) /\ i - 1 \in Nat /\ (i - 1) + 1 = i
  OBVIOUS
<1>4. /\ InString(o, i + 1) <=> Cardinality(Q(i + 1)) % 2 = 1
      /\ InString(o, i) <=> Cardinality(Q(i)) % 2 = 1
  BY DEF InString
<1> HIDE DEF Q
<1>5. Cardinality(Q(i)) \in Nat /\ Cardinality(Q(i) \cup {i}) = Cardinality(Q(i)) + 1
  BY <1>3, OneMore
<1>6. Cardinality(Q(i) \cup {i}) % 2 = 1 <=> Cardinality(Q(i)) % 2 # 1
  BY <1>5, Parity
<1> QED
  BY <1>1, <1>2, <1>4, <1>6

LEMMA BraceStep ==
    ASSUME NEW o, NEW brace, NEW i \in Nat
    PROVE  /\ Braces(o, brace, i) \in Nat /\ Braces(o, brace, 0) = 0
           /\ o[i + 1] = brace /\ ~InString(o, i + 1) => Braces(o, brace, i + 1) = Braces(o, brace, i) + 1
           /\ ~(o[i + 1] = brace /\ ~InString(o, i + 1)) => Braces(o, brace, i + 1) = Braces(o, brace, i)
<1> DEFINE B(k) == {j \in 1..k : o[j] = brace /\ ~InString(o, j)}
<1>1. Cardinality(B(0)) = 0
  <2>1. B(0) = {}
    OBVIOUS
  <2> QED
    BY <2>1, FS_EmptySet
<1>2. B(i + 1) = IF o[i + 1] = brace /\ ~InString(o, i + 1) THEN B(i) \cup {i + 1} ELSE B(i)
  <2>1. \A j : j \in 1..(i + 1) <=> (j \in 1..i \/ j = i + 1)
    OBVIOUS
  <2> QED
    BY <2>1
<1>3. B(i) \in SUBSET (1..i)
  OBVIOUS
<1>4. \A k \in {0, i, i + 1} : Braces(o, brace, k) = Cardinality(B(k))
  BY DEF Braces
<1> HIDE DEF B
<1>5. Cardinality(B(i)) \in Nat /\ Cardinality(B(i) \cup {i + 1}) = Cardinality(B(i)) + 1
  BY <1>3, OneMore
<1> QED
  BY <1>1, <1>2, <1>4, <1>5

(* How far ahead the opening braces are while an object lasts.             *)
LEMMA BracesOpen ==
    ASSUME NEW o \in Seq(Symbols), PatternAt(o) = 1, WellFormed(o)
    PROVE  /\ Len(o) >= 2 /\ o[1] = "open" /\ o[2] = "key"
           /\ \A i \in 1..(Len(o) - 1) : Braces(o, "open", i) > Braces(o, "close", i)
           /\ Braces(o, "open", Len(o)) = Braces(o, "close", Len(o))
<1> DEFINE n == Len(o)
           Up(i) == Braces(o, "open", i)
           Down(i) == Braces(o, "close", i)
<1>1. n >= 2 /\ o[1] = "open" /\ o[2] = "key"
  <2> DEFINE is == {i \in 1..(Len(o) - 1) : o[i] = "open" /\ o[i + 1] = "key"}
  <2>1. is # {} /\ Min(is) = 1
    BY DEF PatternAt
  <2>2. is \in SUBSET Nat
    OBVIOUS
  <2>3. Min(is) \in is
    <3>1. \E x \in is : \A y \in is : x <= y
      BY <2>1, <2>2, LeastOf
    <3> HIDE DEF is
    <3> QED
      BY <3>1 DEF Min
  <2>4. 1 \in is
    BY <2>1, <2>3
  <2>5. 1 \in 1..(Len(o) - 1) /\ o[1] = "open" /\ o[1 + 1] = "key"
    BY <2>4
  <2> QED
    BY <2>5
<1>2. ASSUME NEW i \in Nat
      PROVE  /\ Up(i) \in Nat /\ Down(i) \in Nat
             /\ Up(i + 1) = Up(i) \/ Up(i + 1) = Up(i) + 1
             /\ Down(i + 1) = Down(i) \/ Down(i + 1) = Down(i) + 1
  BY BraceStep
<1>3. Up(1) = 1 /\ Down(1) = 0
  <2>1. 0 \in Nat /\ 0 + 1 = 1
    OBVIOUS
  <2>2. Up(0) = 0 /\ Down(0) = 0
    BY <2>1, BraceStep
  <2>3. ~InString(o, 1)
    BY StringStep
  <2>4. Up(0 + 1) = Up(0) + 1 /\ Down(0 + 1) = Down(0)
    BY <1>1, <2>1, <2>3, BraceStep
  <2> QED
    BY <2>1, <2>2, <2>4
<1>4. \A i \in 1..n : Up(i) = Down(i) <=> i = n
  BY DEF WellFormed
<1>6. n \in Nat
  OBVIOUS
<1> HIDE DEF Up, Down, n
<1> DEFINE P == {i \in Nat : i + 1 < n => Up(i + 1) > Down(i + 1)}
<1>7. 0 \in P
  BY <1>3
<1>8. ASSUME NEW i \in Nat, i \in P PROVE i + 1 \in P
  <2>1. SUFFICES ASSUME (i + 1) + 1 < n PROVE Up((i + 1) + 1) > Down((i + 1) + 1)
    OBVIOUS
  <2>2. Up(i + 1) > Down(i + 1) /\ i + 1 \in Nat
    BY <1>6, <1>8, <2>1
  <2> DEFINE l == i + 1
  <2>5. /\ Up(l + 1) \in Nat /\ Down(l + 1) \in Nat /\ Up(l) \in Nat /\ Down(l) \in Nat
        /\ Up(l + 1) = Up(l) \/ Up(l + 1) = Up(l) + 1
        /\ Down(l + 1) = Down(l) \/ Down(l + 1) = Down(l) + 1
    <3>1. l \in Nat /\ l + 1 \in Nat
      OBVIOUS
    <3> HIDE DEF l
    <3> QED
      BY <1>2, <3>1
  <2>3. /\ Up((i + 1) + 1) \in Nat /\ Down((i + 1) + 1) \in Nat /\ Up(i + 1) \in Nat /\ Down(i + 1) \in Nat
        /\ Up((i + 1) + 1) >= Up(i + 1) /\ Down((i + 1) + 1) <= Down(i + 1) + 1
    BY <2>5
  <2>4. Up((i + 1) + 1) # Down((i + 1) + 1)
    <3>1. (i + 1) + 1 \in 1..n /\ (i + 1) + 1 # n
      BY <1>6, <2>1
    <3> QED
      BY <1>4, <3>1
  <2> QED
    BY <2>2, <2>3, <2>4
<1> HIDE DEF P
<1>9. ASSUME NEW i \in 1..(n - 1) PROVE Up(i) > Down(i)
  <2>1. i - 1 \in Nat /\ (i - 1) + 1 = i /\ i < n
    BY <1>6
  <2>2. i - 1 \in P
    BY <1>7, <1>8, <2>1, Upwards
  <2> QED
    BY <2>1, <2>2 DEF P
<1>10. Up(n) = Down(n)
  <2>1. n \in 1..n
    BY <1>1, <1>6
  <2> QED
    BY <1>4, <2>1
<1> QED
  BY <1>1, <1>9, <1>10 DEF Up, Down, n

ScanState == [at : Nat, count : Int, string : BOOLEAN, escape : BOOLEAN, found : BOOLEAN]

LEMMA ScanTypes ==
    ASSUME NEW s \in ScanState, NEW ch
    PROVE  /\ Scan(s, ch) \in ScanState
           /\ s.found => Scan(s, ch) = s
<1> DEFINE u == [s EXCEPT !.at = @ + 1]
<1>0. u \in ScanState
  BY DEF ScanState
<1> HIDE DEF u
<1>1. CASE s.found
  BY <1>1 DEF Scan, u
<1>2. CASE ~s.found /\ s.escape
  <2>1. Scan(s, ch) = [u EXCEPT !.escape = FALSE]
    BY <1>2 DEF Scan, u
  <2>2. Scan(s, ch) \in ScanState
    BY <1>0, <2>1 DEF ScanState
  <2> QED
    BY <1>2, <2>2
<1>3. CASE ~s.found /\ ~s.escape /\ s.string /\ ch = "back"
  <2>1. Scan(s, ch) = [u EXCEPT !.escape = TRUE]
    BY <1>3 DEF Scan, u
  <2>2. Scan(s, ch) \in ScanState
    BY <1>0, <2>1 DEF ScanState
  <2> QED
    BY <1>3, <2>2
<1>4. CASE ~s.found /\ ~s.escape /\ ch = "quote"
  <2>1. Scan(s, ch) = [u EXCEPT !.string = ~s.string]
    BY <1>4 DEF Scan, u
  <2>2. Scan(s, ch) \in ScanState
    BY <1>0, <2>1 DEF ScanState
  <2> QED
    BY <1>4, <2>2
<1>5. CASE ~s.found /\ ~s.escape /\ ~s.string /\ ch = "open"
  <2>1. Scan(s, ch) = [u EXCEPT !.count = s.count + 1]
    BY <1>5 DEF Scan, u
  <2>2. Scan(s, ch) \in ScanState
    BY <1>0, <2>1 DEF ScanState
  <2> QED
    BY <1>5, <2>2
<1>6. CASE ~s.found /\ ~s.escape /\ ~s.string /\ ch = "close"
  <2> DEFINE v == [u EXCEPT !.count = s.count - 1]
  <2>1. Scan(s, ch) = [v EXCEPT !.found = (s.count = 1)]
    BY <1>6 DEF Scan, u
  <2>2. v \in ScanState
    BY <1>0 DEF ScanState
  <2> HIDE DEF v
  <2>3. \A x \in BOOLEAN : [v EXCEPT !.found = x] \in ScanState
    BY <2>2 DEF ScanState
  <2>4. (s.count = 1) \in BOOLEAN
    OBVIOUS
  <2>5. Scan(s, ch) \in ScanState
    BY <2>1, <2>3, <2>4
  <2> QED
    BY <1>6, <2>5
<1>7. CASE /\ ~s.found /\ ~s.escape /\ ~(s.string /\ ch = "back") /\ ch # "quote"
           /\ s.string \/ ch \notin {"open", "close"}
  <2>1. Scan(s, ch) = u
    BY <1>7 DEF Scan, u
  <2>2. Scan(s, ch) \in ScanState
    BY <1>0, <2>1 DEF ScanState
  <2> QED
    BY <1>7, <2>2
<1> QED
  BY <1>1, <1>2, <1>3, <1>4, <1>5, <1>6, <1>7

(* After k symbols of an object the scan knows where they end, how deep it *)
(* is, and whether the next one is in a string or escaped.                 *)
Tracks(s, o, k, a) ==
    /\ s.at = a + k /\ s.count = Braces(o, "open", k) - Braces(o, "close", k) /\ ~s.found
    /\ s.string <=> InString(o, k + 1)
    /\ s.escape <=> Escaped(o, k + 1)

LEMMA ScanStep ==
    ASSUME NEW o \in Seq(Symbols), PatternAt(o) = 1, WellFormed(o),
           NEW s \in ScanState, NEW a \in Nat, NEW k \in Nat, k < Len(o), Tracks(s, o, k, a)
    PROVE  /\ k + 1 < Len(o) => Tracks(Scan(s, o[k + 1]), o, k + 1, a)
           /\ k + 1 = Len(o) => Scan(s, o[k + 1]).found /\ Scan(s, o[k + 1]).at = a + (k + 1)
<1> DEFINE l == k + 1
           ch == o[l]
           t == Scan(s, ch)
           Up(i) == Braces(o, "open", i)
           Down(i) == Braces(o, "close", i)
           In(i) == InString(o, i)
           Esc(i) == Escaped(o, i)
<1>1. /\ l \in Nat /\ l >= 1 /\ Len(o) \in Nat /\ l \in 1..Len(o) /\ ch \in Symbols
  OBVIOUS
<1>2. /\ Up(k) \in Nat /\ Down(k) \in Nat
      /\ ch = "open" /\ ~In(l) => Up(l) = Up(k) + 1
      /\ ~(ch = "open" /\ ~In(l)) => Up(l) = Up(k)
      /\ ch = "close" /\ ~In(l) => Down(l) = Down(k) + 1
      /\ ~(ch = "close" /\ ~In(l)) => Down(l) = Down(k)
  BY BraceStep
<1>3. In(l + 1) <=> IF ch = "quote" /\ ~Esc(l) THEN ~In(l) ELSE In(l)
  BY <1>1, StringStep
<1>4. Esc(l + 1) <=> ch = "back" /\ ~Esc(l)
  BY <1>1, EscapeStep
<1>5. Esc(l) => In(l)
  <2>1. SUFFICES ASSUME Esc(l) PROVE In(l)
    OBVIOUS
  <2>2. k # 0
    <3>1. ~Escaped(o, 1) /\ 0 + 1 = 1
      BY <1>1, EscapeStep
    <3> QED
      BY <2>1, <3>1
  <2>3. k >= 1 /\ k \in 1..Len(o)
    BY <2>2
  <2>4. o[k] = "back"
    BY <2>1, <2>3, EscapeStep
  <2>5. InString(o, k)
    BY <2>3, <2>4 DEF WellFormed
  <2>6. InString(o, k + 1) <=> IF o[k] = "quote" /\ ~Escaped(o, k) THEN ~InString(o, k) ELSE InString(o, k)
    BY <2>3, StringStep
  <2> QED
    BY <2>4, <2>5, <2>6
<1>6. ch = "back" => In(l)
  BY <1>1 DEF WellFormed
<1>7. /\ l < Len(o) => Up(l) > Down(l)
      /\ l = Len(o) => Up(l) = Down(l) /\ k >= 1 /\ Up(k) > Down(k)
  <2>1. l < Len(o) => l \in 1..(Len(o) - 1)
    BY <1>1
  <2>2. l = Len(o) => k >= 1 /\ k \in 1..(Len(o) - 1)
    BY <1>1, BracesOpen
  <2> QED
    BY <2>1, <2>2, BracesOpen
<1>8. /\ s.at = a + k /\ s.count = Up(k) - Down(k) /\ ~s.found
      /\ s.string <=> In(l)
      /\ s.escape <=> Esc(l)
  BY DEF Tracks
<1>9. SUFFICES /\ t.at = a + l
               /\ l < Len(o) => /\ t.count = Up(l) - Down(l) /\ ~t.found
                                /\ t.string <=> In(l + 1)
                                /\ t.escape <=> Esc(l + 1)
               /\ l = Len(o) => t.found
  BY DEF Tracks
<1> HIDE DEF Up, Down, In, Esc, ch, l
<1>10. l = k + 1
  BY DEF l
<1>11. CASE s.escape
  <2>1. t = [s EXCEPT !.at = @ + 1, !.escape = FALSE]
    BY <1>8, <1>11 DEF Scan
  <2>2. In(l) /\ Up(l) = Up(k) /\ Down(l) = Down(k) /\ l # Len(o) /\ ~Esc(l + 1) /\ In(l + 1)
    BY <1>2, <1>3, <1>4, <1>5, <1>7, <1>8, <1>11
  <2> HIDE DEF t
  <2>3. t.at = s.at + 1 /\ t.count = s.count /\ t.found = s.found /\ t.string = s.string /\ ~t.escape
    BY <2>1 DEF ScanState
  <2> QED
    BY <1>8, <1>10, <2>2, <2>3
<1>12. CASE ~s.escape /\ ch = "back"
  <2>1. t = [s EXCEPT !.at = @ + 1, !.escape = TRUE]
    BY <1>6, <1>8, <1>12 DEF Scan
  <2>2. In(l) /\ Up(l) = Up(k) /\ Down(l) = Down(k) /\ l # Len(o) /\ Esc(l + 1) /\ In(l + 1)
    BY <1>2, <1>3, <1>4, <1>6, <1>7, <1>8, <1>12
  <2> HIDE DEF t
  <2>3. t.at = s.at + 1 /\ t.count = s.count /\ t.found = s.found /\ t.string = s.string /\ t.escape
    BY <2>1 DEF ScanState
  <2> QED
    BY <1>8, <1>10, <2>2, <2>3
<1>13. CASE ~s.escape /\ ch = "quote"
  <2>1. t = [s EXCEPT !.at = @ + 1, !.string = ~@]
    BY <1>8, <1>13 DEF Scan
  <2>2. Up(l) = Up(k) /\ Down(l) = Down(k) /\ l # Len(o) /\ ~Esc(l + 1) /\ (In(l + 1) <=> ~In(l))
    BY <1>2, <1>3, <1>4, <1>7, <1>8, <1>13
  <2> HIDE DEF t
  <2>3. t.at = s.at + 1 /\ t.count = s.count /\ t.found = s.found /\ t.escape = s.escape /\ (t.string <=> ~s.string)
    BY <2>1 DEF ScanState
  <2> QED
    BY <1>8, <1>10, <1>13, <2>2, <2>3
<1>14. CASE ~s.escape /\ ~s.string /\ ch = "open"
  <2>1. t = [s EXCEPT !.at = @ + 1, !.count = @ + 1]
    BY <1>8, <1>14 DEF Scan
  <2>2. Up(l) = Up(k) + 1 /\ Down(l) = Down(k) /\ l # Len(o) /\ ~Esc(l + 1) /\ (In(l + 1) <=> In(l))
    BY <1>2, <1>3, <1>4, <1>7, <1>8, <1>14
  <2> HIDE DEF t
  <2>3. t.at = s.at + 1 /\ t.count = s.count + 1 /\ t.found = s.found /\ t.escape = s.escape /\ t.string = s.string
    BY <2>1 DEF ScanState
  <2> QED
    BY <1>2, <1>8, <1>10, <1>14, <2>2, <2>3
<1>15. CASE ~s.escape /\ ~s.string /\ ch = "close"
  <2>1. t = [s EXCEPT !.at = @ + 1, !.count = @ - 1, !.found = (s.count = 1)]
    BY <1>8, <1>15 DEF Scan
  <2>2. Up(l) = Up(k) /\ Down(l) = Down(k) + 1 /\ ~Esc(l + 1) /\ (In(l + 1) <=> In(l))
    BY <1>2, <1>3, <1>4, <1>8, <1>15
  <2> HIDE DEF t
  <2>3. t.at = s.at + 1 /\ t.count = s.count - 1 /\ (t.found <=> s.count = 1) /\ t.escape = s.escape /\ t.string = s.string
    BY <2>1 DEF ScanState
  <2>4. l < Len(o) => s.count # 1
    BY <1>2, <1>7, <1>8, <2>2
  <2>5. l = Len(o) => s.count = 1
    BY <1>2, <1>7, <1>8, <2>2
  <2> QED
    BY <1>2, <1>8, <1>10, <1>15, <2>2, <2>3, <2>4, <2>5
<1>16. CASE ~s.escape /\ ch \notin {"back", "quote"} /\ (s.string \/ ch \notin {"open", "close"})
  <2>1. t = [s EXCEPT !.at = @ + 1]
    BY <1>8, <1>16 DEF Scan
  <2>2. Up(l) = Up(k) /\ Down(l) = Down(k) /\ l # Len(o) /\ ~Esc(l + 1) /\ (In(l + 1) <=> In(l))
    BY <1>2, <1>3, <1>4, <1>7, <1>8, <1>16
  <2> HIDE DEF t
  <2>3. t.at = s.at + 1 /\ t.count = s.count /\ t.found = s.found /\ t.escape = s.escape /\ t.string = s.string
    BY <2>1 DEF ScanState
  <2> QED
    BY <1>8, <1>10, <1>16, <2>2, <2>3
<1> QED
  BY <1>11, <1>12, <1>13, <1>14, <1>15, <1>16

(* find_matching_brace as a run of its steps.                              *)
NoScan(i) == [at |-> i - 1, count |-> 0, string |-> FALSE, escape |-> FALSE, found |-> FALSE]

Scanning(b, i, scan) ==
    /\ scan[0] = NoScan(i)
    /\ \A k \in 1..(Len(b) + 1 - i) : scan[k] \in ScanState /\ scan[k] = Scan(scan[k - 1], b[i + k - 1])

LEMMA BraceScanned ==
    ASSUME NEW b \in Seq(Symbols), NEW i \in 1..Len(b)
    PROVE  \E scan : /\ Scanning(b, i, scan)
                     /\ find_matching_brace(b, i) =
                           IF scan[Len(b) + 1 - i].found THEN scan[Len(b) + 1 - i].at ELSE 0
<1> DEFINE n == Len(b) + 1 - i
           S == ScanState
           step == [k \in 1..n |-> [s \in S |-> Scan(s, b[i + k - 1])]]
           After(f) == [k \in 0..n |-> IF k = 0 THEN NoScan(i) ELSE Scan(f[k - 1], b[i + k - 1])]
           scan == CHOOSE f : f = After(f)
<1>1. n \in Nat /\ NoScan(i) \in S
  BY DEF NoScan, ScanState
<1>2. \A k \in 1..n : \A s \in S : Scan(s, b[i + k - 1]) \in S
  BY ScanTypes
<1>3. find_matching_brace(b, i) = IF scan[n].found THEN scan[n].at ELSE 0
  BY Zenon DEF find_matching_brace, NoScan
<1> HIDE DEF S, n
<1>4. step \in Steps(S, n)
  BY <1>2 DEF Steps
<1>5. PICK f : Visits(f, S, NoScan(i), step, n)
  <2> HIDE DEF step
  <2> QED
    BY <1>1, <1>4, Iterates
<1>6. f \in [0..n -> S] /\ f[0] = NoScan(i) /\ \A k \in 1..n : f[k] = step[k][f[k - 1]]
  BY <1>5 DEF Visits
<1>7. f = After(f)
  <2>1. ASSUME NEW k \in 0..n PROVE f[k] = After(f)[k]
    <3>1. CASE k = 0
      BY <1>6, <3>1
    <3>2. CASE k # 0
      <4>1. k \in 1..n /\ k - 1 \in 0..n
        BY <1>1, <3>2
      <4>2. f[k - 1] \in S
        BY <1>6, <4>1
      <4> QED
        BY <1>6, <3>2, <4>1, <4>2
    <3> QED
      BY <3>1, <3>2
  <2> QED
    BY <1>6, <2>1
<1>8. scan = After(scan)
  BY <1>7, Zenon
<1> HIDE DEF scan
<1>9. /\ scan[0] = NoScan(i)
      /\ \A k \in 1..n : scan[k] = Scan(scan[k - 1], b[i + k - 1])
  BY <1>1, <1>8
<1> DEFINE P == {k \in Nat : k <= n => scan[k] \in S}
<1>10. 0 \in P
  BY <1>1, <1>9
<1>11. ASSUME NEW k \in Nat, k \in P PROVE k + 1 \in P
  <2>1. SUFFICES ASSUME k + 1 <= n PROVE scan[k + 1] \in S
    OBVIOUS
  <2>2. k + 1 \in 1..n /\ (k + 1) - 1 = k /\ scan[k] \in S
    BY <1>1, <1>11, <2>1
  <2>3. scan[k + 1] = Scan(scan[k], b[i + (k + 1) - 1])
    BY <1>9, <2>2
  <2> QED
    BY <1>2, <2>2, <2>3
<1> HIDE DEF P
<1>12. \A k \in 1..n : scan[k] \in S
  <2>1. Nat \subseteq P
    BY <1>10, <1>11, Upwards
  <2> QED
    BY <1>1, <2>1 DEF P
<1> QED
  BY <1>3, <1>9, <1>12 DEF Scanning, S, n

(* The scan of a buffer with an object at i, or the beginning of one, ends *)
(* with the object or not at all.                                          *)
LEMMA BraceMatched ==
    ASSUME NEW b \in Seq(Symbols), NEW i \in 1..Len(b), NEW o \in Seq(Symbols), PatternAt(o) = 1, WellFormed(o),
           \A k \in 1..Len(o) : i + k - 1 <= Len(b) => b[i + k - 1] = o[k]
    PROVE  find_matching_brace(b, i) = IF i + Len(o) - 1 <= Len(b) THEN i + Len(o) - 1 ELSE 0
<1> DEFINE m == Len(b) + 1 - i
           n == Len(o)
           a == i - 1
<1>1. PICK scan : Scanning(b, i, scan) /\ find_matching_brace(b, i) = IF scan[m].found THEN scan[m].at ELSE 0
  BY BraceScanned
<1>2. /\ scan[0] = NoScan(i)
      /\ \A k \in 1..m : scan[k] \in ScanState /\ scan[k] = Scan(scan[k - 1], b[i + k - 1])
  BY <1>1 DEF Scanning
<1>3. n \in Nat /\ m \in Nat /\ a \in Nat /\ m >= 1 /\ n >= 2
  BY BracesOpen
<1>4. \A k \in 1..n : k <= m => b[i + k - 1] = o[k]
  BY <1>3
<1>5. NoScan(i) \in ScanState /\ Tracks(NoScan(i), o, 0, a)
  <2>1. 0 \in Nat /\ Braces(o, "open", 0) = 0 /\ Braces(o, "close", 0) = 0
    BY BraceStep
  <2>2. ~Escaped(o, 1) /\ ~InString(o, 1) /\ 0 + 1 = 1
    BY EscapeStep, StringStep, SMTT(60)
  <2>3. NoScan(i) \in ScanState
    BY DEF NoScan, ScanState
  <2> QED
    BY <2>1, <2>2, <2>3 DEF NoScan, Tracks
<1>6. (i + n - 1 <= Len(b)) <=> n <= m
  BY <1>3
<1>7. a + n = i + n - 1
  BY <1>3
<1> HIDE DEF m, n, a
<1> DEFINE P == {k \in Nat : k <= m => /\ scan[k] \in ScanState
                                       /\ k < n => Tracks(scan[k], o, k, a)
                                       /\ k >= n => scan[k].found /\ scan[k].at = a + n}
<1>8. 0 \in P
  BY <1>2, <1>3, <1>5
<1>9. ASSUME NEW k \in Nat, k \in P PROVE k + 1 \in P
  <2> DEFINE l == k + 1
             s == scan[k]
  <2>1. SUFFICES ASSUME l <= m
                 PROVE  /\ scan[l] \in ScanState
                        /\ l < n => Tracks(scan[l], o, l, a)
                        /\ l >= n => scan[l].found /\ scan[l].at = a + n
    OBVIOUS
  <2>2. l \in 1..m /\ l - 1 = k /\ l \in Nat /\ k <= m
    BY <1>3, <2>1
  <2>3. /\ s \in ScanState
        /\ k < n => Tracks(s, o, k, a)
        /\ k >= n => s.found /\ s.at = a + n
    BY <1>9, <2>2
  <2>4. scan[l] \in ScanState /\ scan[l] = Scan(s, b[i + l - 1])
    BY <1>2, <2>2
  <2>5. CASE k < n
    <3>1. l \in 1..n
      BY <1>3, <2>2, <2>5
    <3>2. b[i + l - 1] = o[l]
      BY <1>4, <2>1, <3>1
    <3> HIDE DEF s
    <3>3. /\ k + 1 < n => Tracks(Scan(s, o[k + 1]), o, k + 1, a)
          /\ k + 1 = n => Scan(s, o[k + 1]).found /\ Scan(s, o[k + 1]).at = a + (k + 1)
      BY <1>3, <2>3, <2>5, ScanStep DEF n
    <3>4. l >= n => k + 1 = n /\ a + (k + 1) = a + n
      BY <1>3, <3>1
    <3> QED
      BY <2>4, <3>2, <3>3, <3>4
  <2>6. CASE k >= n
    <3>1. Scan(s, b[i + l - 1]) = s
      BY <2>3, <2>6, ScanTypes
    <3>2. ~(l < n)
      BY <1>3, <2>6
    <3> QED
      BY <2>3, <2>4, <2>6, <3>1, <3>2
  <2> QED
    BY <1>3, <2>5, <2>6
<1> HIDE DEF P
<1>10. m \in P
  BY <1>3, <1>8, <1>9, Upwards
<1>11. /\ m < n => Tracks(scan[m], o, m, a)
       /\ m >= n => scan[m].found /\ scan[m].at = a + n
  BY <1>3, <1>10 DEF P
<1>12. CASE m < n
  <2>1. ~scan[m].found
    BY <1>11, <1>12 DEF Tracks
  <2> QED
    BY <1>1, <1>3, <1>6, <1>12, <2>1 DEF n
<1>13. CASE m >= n
  BY <1>1, <1>3, <1>6, <1>7, <1>11, <1>13 DEF n
<1> QED
  BY <1>3, <1>12, <1>13

-----------------------------------------------------------------------------
Alike(s, a, t, c, n) ==
    /\ a \in Nat /\ c \in Nat /\ n \in Nat
    /\ 1 <= a /\ a + n <= Len(s) + 1 /\ 1 <= c /\ c + n <= Len(t) + 1
    /\ \A i \in 1..n : s[a + i - 1] = t[c + i - 1]

LEMMA SamePart ==
    ASSUME NEW S, NEW s \in Seq(S), NEW t \in Seq(S), NEW a \in Nat, NEW c \in Nat, NEW n \in Nat,
           Alike(s, a, t, c, n)
    PROVE  SubSeq(s, a, a + n - 1) = SubSeq(t, c, c + n - 1)
<1> DEFINE p == SubSeq(s, a, a + n - 1)
           q == SubSeq(t, c, c + n - 1)
<1> USE DEF Alike
<1>1. p \in Seq(S) /\ Len(p) = n /\ \A i \in 1..n : p[i] = s[a + i - 1]
  OBVIOUS
<1>2. q \in Seq(S) /\ Len(q) = n /\ \A i \in 1..n : q[i] = t[c + i - 1]
  OBVIOUS
<1> HIDE DEF p, q
<1>3. \A i \in 1..n : p[i] = q[i]
  BY <1>1, <1>2
<1>4. p = q
  BY <1>1, <1>2, <1>3
<1> QED
  BY <1>4 DEF p, q

LEMMA Joined ==
    ASSUME NEW S, NEW p \in Seq(S), NEW q \in Seq(S), NEW r \in Seq(S)
    PROVE  (p \o q) \o r \in Seq(S) /\ Joins(p, q, r, (p \o q) \o r)
<1> DEFINE u == p \o q
           v == u \o r
<1>0. u \in Seq(S) /\ Joins(p, q, <<>>, u) /\ Len(<<>>) = 0
  BY Concat
<1>1. /\ u \in Seq(S) /\ Len(u) = Len(p) + Len(q)
      /\ \A i \in 1..Len(p) : u[i] = p[i]
      /\ \A i \in 1..Len(q) : u[Len(p) + i] = q[i]
  BY <1>0 DEF Joins
<1> HIDE DEF u
<1>2. /\ v \in Seq(S) /\ Len(v) = Len(u) + Len(r)
      /\ \A i \in 1..Len(u) : v[i] = u[i]
      /\ \A i \in 1..Len(r) : v[Len(u) + i] = r[i]
  <2>1. v \in Seq(S) /\ Joins(u, r, <<>>, v) /\ Len(<<>>) = 0
    BY <1>1, Concat
  <2> HIDE DEF v
  <2> QED
    BY <1>1, <2>1 DEF Joins
<1> HIDE DEF v
<1>3. Len(p) \in Nat /\ Len(q) \in Nat
  OBVIOUS
<1>4. \A i \in 1..Len(p) : i \in 1..Len(u)
  BY <1>1, <1>3
<1>5. \A i \in 1..Len(q) : Len(p) + i \in 1..Len(u)
  BY <1>1, <1>3
<1>6. /\ v \in Seq(S) /\ Len(v) = Len(p) + Len(q) + Len(r)
      /\ \A i \in 1..Len(p) : v[i] = p[i]
      /\ \A i \in 1..Len(q) : v[Len(p) + i] = q[i]
      /\ \A i \in 1..Len(r) : v[Len(p) + Len(q) + i] = r[i]
  BY <1>1, <1>2, <1>4, <1>5
<1> QED
  BY <1>6 DEF v, u, Joins

PatternIn(b, i) == b[i] = "open" /\ b[i + 1] = "key"

LEMMA FirstPattern ==
    ASSUME NEW b \in Seq(Symbols)
    PROVE  /\ PatternAt(b) \in Nat
           /\ PatternAt(b) = 0 <=> \A i \in 1..(Len(b) - 1) : ~PatternIn(b, i)
           /\ \A i \in 1..(Len(b) - 1) :
                 PatternIn(b, i) /\ (\A j \in 1..(i - 1) : ~PatternIn(b, j)) => PatternAt(b) = i
<1> DEFINE is == {i \in 1..(Len(b) - 1) : PatternIn(b, i)}
<1>1. PatternAt(b) = IF is = {} THEN 0 ELSE Min(is)
  BY DEF PatternAt, PatternIn
<1>2. is \in SUBSET Nat /\ \A i \in is : i >= 1
  OBVIOUS
<1>3. is # {} => Min(is) \in is /\ \A y \in is : Min(is) <= y
  <2> SUFFICES ASSUME is # {} PROVE Min(is) \in is /\ \A y \in is : Min(is) <= y
    OBVIOUS
  <2>1. \E x \in is : \A y \in is : x <= y
    BY <1>2, LeastOf
  <2> HIDE DEF is
  <2> QED
    BY <2>1 DEF Min
<1>4. is = {} <=> \A i \in 1..(Len(b) - 1) : ~PatternIn(b, i)
  OBVIOUS
<1>5. ASSUME NEW i \in 1..(Len(b) - 1), PatternIn(b, i), \A j \in 1..(i - 1) : ~PatternIn(b, j)
      PROVE  PatternAt(b) = i
  <2>1. i \in is
    BY <1>5
  <2>2. \A y \in is : ~(y < i)
    <3>1. \A y \in 1..(Len(b) - 1) : y < i => y \in 1..(i - 1)
      OBVIOUS
    <3> QED
      BY <1>5, <3>1
  <2> HIDE DEF is
  <2>3. Min(is) \in is /\ Min(is) <= i /\ Min(is) \in Nat
    BY <1>2, <1>3, <2>1
  <2> QED
    BY <1>1, <2>1, <2>2, <2>3
<1> HIDE DEF is
<1>6. is # {} => PatternAt(b) \in Nat /\ PatternAt(b) >= 1
  BY <1>1, <1>2, <1>3
<1>7. is = {} => PatternAt(b) = 0
  BY <1>1
<1> QED
  BY <1>4, <1>5, <1>6, <1>7

(* Where the objects of a wire begin and end, and that nothing before them *)
(* looks like one.                                                         *)
End(ends, k) == IF k = 0 THEN 0 ELSE ends[k]

(* What an object is like, whatever its characters. *)
Written == {o \in Seq(Symbols) : PatternAt(o) = 1 /\ WellFormed(o)}

LaidAt(O, w, ends, start, k) ==
    /\ start[k] \in Nat /\ ends[k] \in Nat /\ End(ends, k - 1) \in Nat
    /\ End(ends, k - 1) < start[k] /\ start[k] < ends[k] /\ ends[k] <= Len(w)
    /\ SubSeq(w, start[k], ends[k]) \in O
    /\ \A i \in (End(ends, k - 1) + 1)..(start[k] - 1) : ~PatternIn(w, i)

Laid(O, w, ends, start) ==
    /\ w \in Seq(Symbols) /\ ends \in Seq(Nat) /\ start \in Seq(Nat)
    /\ Len(start) = Len(ends)
    /\ Len(w) = End(ends, Len(ends))
    /\ \A k \in 1..Len(ends) : LaidAt(O, w, ends, start, k)

LEMMA LaidOn ==
    ASSUME NEW w, NEW ends, NEW start, Laid(Objects, w, ends, start), NEW f \in Framing, NEW o \in Objects
    PROVE  LET v == (w \o f) \o o IN
           Laid(Objects, v, Append(ends, Len(v)), Append(start, Len(w) + Len(f) + 1))
<1> DEFINE v == (w \o f) \o o
           n == Len(ends)
           ends2 == Append(ends, Len(v))
           s == Len(w) + Len(f) + 1
           start2 == Append(start, s)
<1>1. /\ w \in Seq(Symbols) /\ ends \in Seq(Nat) /\ start \in Seq(Nat)
      /\ Len(start) = n /\ Len(w) = End(ends, n) /\ n \in Nat
      /\ \A k \in 1..n : LaidAt(Objects, w, ends, start, k)
  BY DEF Laid
<1>2. f \in Seq(Symbols) /\ PatternAt(f) = 0 /\ o \in Seq(Symbols) /\ PatternAt(o) = 1 /\ WellFormed(o)
  <2>1. f \in Seq(Symbols \ {"lead", "trail"})
    BY FramesAssumption
  <2>2. f \in Seq(Symbols)
    BY <2>1, Symbols \ {"lead", "trail"} \subseteq Symbols
  <2> QED
    BY <2>2, FramesAssumption
<1>3. Len(o) >= 2 /\ o[1] = "open"
  BY <1>2, BracesOpen
<1>4. \A i \in 1..(Len(f) - 1) : ~PatternIn(f, i)
  BY <1>2, FirstPattern
<1>5. /\ v \in Seq(Symbols) /\ Len(v) = Len(w) + Len(f) + Len(o)
      /\ \A i \in 1..Len(w) : v[i] = w[i]
      /\ \A i \in 1..Len(f) : v[Len(w) + i] = f[i]
      /\ \A i \in 1..Len(o) : v[Len(w) + Len(f) + i] = o[i]
  <2>1. v \in Seq(Symbols) /\ Joins(w, f, o, v)
    BY <1>1, <1>2, Joined
  <2> HIDE DEF v
  <2> QED
    BY <2>1 DEF Joins
<1> HIDE DEF v
<1>6. /\ ends2 \in Seq(Nat) /\ start2 \in Seq(Nat) /\ Len(ends2) = n + 1 /\ Len(start2) = n + 1
      /\ \A k \in 1..n : ends2[k] = ends[k] /\ start2[k] = start[k]
      /\ ends2[n + 1] = Len(v) /\ start2[n + 1] = s
  BY <1>1, <1>2, <1>5
<1>7. /\ Len(w) \in Nat /\ Len(f) \in Nat /\ Len(o) \in Nat /\ Len(v) \in Nat /\ s = Len(w) + Len(f) + 1
  BY <1>1, <1>2, <1>5
<1> HIDE DEF ends2, start2, n, s
<1>8. \A k \in 0..n : End(ends2, k) = End(ends, k)
  BY <1>1, <1>6 DEF End
<1>9. ASSUME NEW k \in 1..n PROVE LaidAt(Objects, v, ends2, start2, k)
  <2>1. /\ LaidAt(Objects, w, ends, start, k) /\ k - 1 \in 0..n /\ k \in 0..n
    BY <1>1
  <2>2. /\ start[k] \in Nat /\ ends[k] \in Nat /\ End(ends, k - 1) \in Nat
        /\ End(ends, k - 1) < start[k] /\ start[k] < ends[k] /\ ends[k] <= Len(w)
        /\ SubSeq(w, start[k], ends[k]) \in Objects
        /\ \A i \in (End(ends, k - 1) + 1)..(start[k] - 1) : ~PatternIn(w, i)
    BY <2>1 DEF LaidAt
  <2>3. start2[k] = start[k] /\ ends2[k] = ends[k] /\ End(ends2, k - 1) = End(ends, k - 1)
    BY <1>6, <1>8, <2>1
  <2>4. SubSeq(v, start[k], ends[k]) = SubSeq(w, start[k], ends[k])
    <3> DEFINE a == start[k]
               m == ends[k] + 1 - a
    <3>1. m \in Nat /\ a + m - 1 = ends[k] /\ 1 <= a /\ a \in Nat /\ a + m <= Len(w) + 1
      <4>1. /\ a \in Nat /\ ends[k] \in Nat /\ End(ends, k - 1) \in Nat /\ Len(w) \in Nat
            /\ End(ends, k - 1) < a /\ a < ends[k] /\ ends[k] <= Len(w)
        BY <1>7, <2>2
      <4> HIDE DEF a
      <4>2. /\ ends[k] + 1 - a \in Nat /\ a + (ends[k] + 1 - a) - 1 = ends[k] /\ 1 <= a
            /\ a + (ends[k] + 1 - a) <= Len(w) + 1
        BY ONLY <4>1, SMTT(30)
      <4> QED
        BY ONLY <4>1, <4>2
    <3> HIDE DEF m, a
    <3>2. a + m <= Len(v) + 1
      BY <1>5, <1>7, <3>1
    <3>3. \A i \in 1..m : a + i - 1 \in 1..Len(w)
      BY <1>7, <3>1
    <3>4. \A i \in 1..m : v[a + i - 1] = w[a + i - 1]
      BY <1>5, <3>3
    <3>5. Alike(v, a, w, a, m)
      BY <3>1, <3>2, <3>4 DEF Alike
    <3>6. v \in Seq(Symbols) /\ w \in Seq(Symbols)
      BY <1>1, <1>5
    <3>7. SubSeq(v, a, a + m - 1) = SubSeq(w, a, a + m - 1)
      BY <3>1, <3>5, <3>6, SamePart
    <3> QED
      BY <3>1, <3>7 DEF a
  <2>5. ASSUME NEW i \in (End(ends, k - 1) + 1)..(start[k] - 1) PROVE ~PatternIn(v, i)
    <3>1. i \in 1..Len(w) /\ i + 1 \in 1..Len(w)
      BY <1>7, <2>2, SMTT(60)
    <3> QED
      BY <1>5, <2>2, <3>1 DEF PatternIn
  <2> QED
    BY <1>7, <1>5, <2>2, <2>3, <2>4, <2>5 DEF LaidAt
<1>10. LaidAt(Objects, v, ends2, start2, n + 1)
  <2>1. End(ends2, (n + 1) - 1) = Len(w)
    BY <1>1, <1>8
  <2>2. SubSeq(v, s, Len(v)) = o
    <3> DEFINE e == Len(v)
               u == SubSeq(v, s, e)
    <3>1. /\ v \in Seq(Symbols) /\ e \in Nat /\ s \in Nat /\ 1 <= s /\ s <= e + 1 /\ e <= Len(v)
          /\ e + 1 - s = Len(o)
      BY <1>5, <1>7
    <3> HIDE DEF e
    <3>2. u \in Seq(Symbols) /\ Len(u) = e + 1 - s /\ \A k \in 1..(e + 1 - s) : u[k] = v[s + k - 1]
      BY <3>1, PartOf
    <3> HIDE DEF u
    <3>3. \A k \in 1..Len(o) : s + k - 1 = Len(w) + Len(f) + k
      BY <1>7
    <3>4. \A k \in 1..Len(o) : u[k] = o[k]
      BY <1>5, <3>1, <3>2, <3>3
    <3>6. u \in Seq(Symbols) /\ o \in Seq(Symbols) /\ Len(u) = Len(o)
      BY <1>2, <3>1, <3>2
    <3>5. u = o
      BY ONLY <3>4, <3>6
    <3> QED
      BY <3>5 DEF u, e
  <2>3. ASSUME NEW i \in (Len(w) + 1)..(s - 1) PROVE ~PatternIn(v, i)
    <3> DEFINE j == i - Len(w)
    <3>1. j \in 1..Len(f) /\ Len(w) + j = i
      BY <1>7
    <3>2. CASE j = Len(f)
      <4>1. i + 1 = Len(w) + Len(f) + 1 /\ 1 \in 1..Len(o)
        BY <1>3, <1>7, <3>1, <3>2
      <4>2. v[i + 1] = o[1]
        <5>1. v[Len(w) + Len(f) + 1] = o[1]
          BY <1>5, <4>1
        <5> QED
          BY <4>1, <5>1
      <4> QED
        BY <1>3, <4>2 DEF PatternIn
    <3>3. CASE j # Len(f)
      <4>1. j \in 1..(Len(f) - 1) /\ j + 1 \in 1..Len(f) /\ Len(w) + (j + 1) = i + 1
        BY <1>7, <3>1, <3>3
      <4>2. v[Len(w) + j] = f[j] /\ v[Len(w) + (j + 1)] = f[j + 1]
        BY <1>5, <3>1, <4>1
      <4> HIDE DEF j
      <4> QED
        BY <1>4, <3>1, <4>1, <4>2 DEF PatternIn
    <3> QED
      BY <3>2, <3>3
  <2>4. start2[n + 1] = s /\ ends2[n + 1] = Len(v) /\ Len(w) < s /\ s < Len(v) /\ s \in Nat
    BY <1>3, <1>5, <1>6, <1>7
  <2>5. SubSeq(v, start2[n + 1], ends2[n + 1]) \in Objects
    BY <2>2, <2>4
  <2> QED
    BY <1>7, <2>1, <2>3, <2>4, <2>5 DEF LaidAt
<1>11. Len(v) = End(ends2, n + 1)
  BY <1>1, <1>6 DEF End
<1>12. \A k \in 1..(n + 1) : LaidAt(Objects, v, ends2, start2, k)
  <2>1. \A k \in 1..(n + 1) : k \in 1..n \/ k = n + 1
    BY <1>1
  <2> QED
    BY <1>9, <1>10, <2>1
<1>13. Laid(Objects, v, ends2, start2)
  BY <1>5, <1>6, <1>11, <1>12 DEF Laid
<1> QED
  BY <1>13 DEF v, ends2, start2, s

(* Characters stay whole where texts are put together. *)
LEMMA PairedOn ==
    ASSUME NEW w \in Seq(Symbols), Paired(w), NEW f \in Framing, NEW o \in Objects
    PROVE  Paired((w \o f) \o o)
<1> DEFINE v == (w \o f) \o o
<1>1. /\ f \in Seq(Symbols) /\ o \in Seq(Symbols) /\ Paired(o)
      /\ \A i \in 1..Len(f) : f[i] # "lead" /\ f[i] # "trail"
  <2>1. f \in Seq(Symbols \ {"lead", "trail"})
    BY FramesAssumption
  <2>2. f \in Seq(Symbols)
    BY <2>1, Symbols \ {"lead", "trail"} \subseteq Symbols
  <2>3. \A i \in 1..Len(f) : f[i] \in Symbols \ {"lead", "trail"}
    BY <2>1
  <2> QED
    BY <2>2, <2>3, FramesAssumption
<1>2. /\ v \in Seq(Symbols) /\ Len(v) = Len(w) + Len(f) + Len(o)
      /\ \A i \in 1..Len(w) : v[i] = w[i]
      /\ \A i \in 1..Len(f) : v[Len(w) + i] = f[i]
      /\ \A i \in 1..Len(o) : v[Len(w) + Len(f) + i] = o[i]
  <2>1. v \in Seq(Symbols) /\ Joins(w, f, o, v)
    BY <1>1, Joined
  <2> HIDE DEF v
  <2> QED
    BY <2>1 DEF Joins
<1> HIDE DEF v
<1> DEFINE a == Len(w)
           c == Len(w) + Len(f)
           n == Len(v)
<1>3. a \in Nat /\ c \in Nat /\ n \in Nat /\ a <= c /\ c <= n /\ Len(f) = c - a /\ Len(o) = n - c
  BY <1>1, <1>2
<1>4. /\ \A i \in 1..a : v[i] = w[i]
      /\ \A i \in 1..(c - a) : v[a + i] = f[i]
      /\ \A i \in 1..(n - c) : v[c + i] = o[i]
  BY <1>2, <1>3
<1>5. /\ \A i \in 1..a : w[i] = "lead" => i < a /\ w[i + 1] = "trail"
      /\ \A i \in 1..a : w[i] = "trail" => i > 1 /\ w[i - 1] = "lead"
  BY DEF Paired
<1>6. /\ \A i \in 1..(n - c) : o[i] = "lead" => i < n - c /\ o[i + 1] = "trail"
      /\ \A i \in 1..(n - c) : o[i] = "trail" => i > 1 /\ o[i - 1] = "lead"
  BY <1>1, <1>3 DEF Paired
<1>7. \A i \in 1..(c - a) : f[i] # "lead" /\ f[i] # "trail"
  BY <1>1, <1>3
<1> HIDE DEF a, c
<1>8. ASSUME NEW i \in 1..n
      PROVE  /\ v[i] = "lead" => i < n /\ v[i + 1] = "trail"
             /\ v[i] = "trail" => i > 1 /\ v[i - 1] = "lead"
  <2> HIDE DEF n
  <2>1. CASE i <= a
    <3>1. i \in 1..a /\ v[i] = w[i]
      BY <1>3, <1>4, <2>1
    <3>2. i < a => i + 1 \in 1..a /\ i < n
      BY <1>3, <3>1
    <3>3. i > 1 => i - 1 \in 1..a
      BY <1>3, <3>1
    <3> QED
      BY <1>4, <1>5, <3>1, <3>2, <3>3
  <2>2. CASE a < i /\ i <= c
    <3>1. i - a \in 1..(c - a) /\ a + (i - a) = i
      BY <1>3, <2>2
    <3> QED
      BY <1>4, <1>7, <3>1
  <2>3. CASE c < i
    <3> DEFINE j == i - c
    <3>1. j \in 1..(n - c) /\ c + j = i
      BY <1>3, <2>3
    <3>2. v[i] = o[j]
      BY <1>4, <3>1
    <3>3. j < n - c => i < n /\ j + 1 \in 1..(n - c) /\ c + (j + 1) = i + 1
      BY <1>3, <3>1
    <3>4. j > 1 => i > 1 /\ j - 1 \in 1..(n - c) /\ c + (j - 1) = i - 1
      BY <1>3, <3>1
    <3> HIDE DEF j
    <3> QED
      BY <1>4, <1>6, <3>1, <3>2, <3>3, <3>4
  <2> QED
    BY <1>3, <2>1, <2>2, <2>3
<1> QED
  BY <1>8 DEF Paired, v

Wires == [wire : Seq(Symbols), whole : Seq(Nat)]

WireWith(w, f) == LET s == w.wire \o f[1] \o f[2] IN [wire |-> s, whole |-> Append(w.whole, Len(s))]

LaidOut(w, k) == \E start : Laid(Objects, w.wire, w.whole, start) /\ Len(w.whole) = k /\ Paired(w.wire)

LEMMA WireLaid ==
    ASSUME NEW w \in Wires, NEW f \in Framing \X Objects
    PROVE  /\ WireWith(w, f) \in Wires
           /\ \A k \in Nat : LaidOut(w, k) => LaidOut(WireWith(w, f), k + 1)
<1> DEFINE v == (w.wire \o f[1]) \o f[2]
<1>1. f[1] \in Framing /\ f[2] \in Objects
  OBVIOUS
<1>2. f[1] \in Seq(Symbols) /\ f[2] \in Seq(Symbols)
  <2>1. f[1] \in Seq(Symbols \ {"lead", "trail"}) /\ f[2] \in Seq(Symbols)
    BY <1>1, FramesAssumption
  <2>2. Symbols \ {"lead", "trail"} \subseteq Symbols
    OBVIOUS
  <2>3. ASSUME NEW S, NEW T \in SUBSET S, NEW t \in Seq(T) PROVE t \in Seq(S)
    BY <2>3
  <2> QED
    BY <2>1, <2>2, <2>3
<1>3. w.wire \in Seq(Symbols) /\ w.whole \in Seq(Nat) /\ w = [wire |-> w.wire, whole |-> w.whole]
  BY DEF Wires
<1>4. v \in Seq(Symbols)
  BY <1>2, <1>3, Joined
<1>5. WireWith(w, f) = [wire |-> v, whole |-> Append(w.whole, Len(v))]
  BY DEF WireWith
<1>6. WireWith(w, f) \in Wires
  <2> HIDE DEF v
  <2> QED
    BY <1>3, <1>4, <1>5 DEF Wires
<1>7. ASSUME NEW k \in Nat, LaidOut(w, k) PROVE LaidOut(WireWith(w, f), k + 1)
  <2>1. PICK start : Laid(Objects, w.wire, w.whole, start) /\ Len(w.whole) = k /\ Paired(w.wire)
    BY <1>7 DEF LaidOut
  <2>5. Paired(v)
    BY <1>1, <1>3, <2>1, PairedOn
  <2> DEFINE start2 == Append(start, Len(w.wire) + Len(f[1]) + 1)
  <2>2. Laid(Objects, v, Append(w.whole, Len(v)), start2)
    BY <1>1, <2>1, LaidOn
  <2>3. Len(Append(w.whole, Len(v))) = k + 1
    <3> HIDE DEF v
    <3> QED
      BY <1>3, <1>4, <2>1
  <2> HIDE DEF v, start2
  <2>4. WireWith(w, f).wire = v /\ WireWith(w, f).whole = Append(w.whole, Len(v))
    BY <1>5
  <2> QED
    BY <2>2, <2>3, <2>4, <2>5 DEF LaidOut
<1> QED
  BY <1>6, <1>7

LEMMA FramedLaid ==
    ASSUME NEW fs \in Seq(Framing \X Objects)
    PROVE  Framed(fs) \in Wires /\ LaidOut(Framed(fs), Len(fs))
<1> DEFINE n == Len(fs)
           none == [wire |-> <<>>, whole |-> <<>>]
           step == [k \in 1..n |-> [w \in Wires |-> WireWith(w, fs[k])]]
           After(f) == [k \in 0..n |-> IF k = 0 THEN none ELSE WireWith(f[k - 1], fs[k])]
           upto == CHOOSE f : f = After(f)
<1>1. n \in Nat /\ none \in Wires
  BY DEF Wires
<1>2. \A k \in 1..n : \A w \in Wires : WireWith(w, fs[k]) \in Wires
  BY WireLaid
<1>3. Framed(fs) = upto[n]
  BY Zenon DEF Framed, WireWith
<1>4. LaidOut(none, 0)
  <2> DEFINE e == <<>>
  <2>1. e \in Seq(Symbols) /\ e \in Seq(Nat) /\ Len(e) = 0 /\ 1..0 = {}
    OBVIOUS
  <2>2. none.wire = e /\ none.whole = e
    OBVIOUS
  <2> HIDE DEF e, none
  <2>3. Laid(Objects, e, e, e) /\ Paired(e)
    BY <2>1 DEF Laid, End, Paired
  <2> QED
    BY <2>1, <2>2, <2>3 DEF LaidOut
<1> HIDE DEF n, none
<1>5. step \in Steps(Wires, n)
  BY <1>2 DEF Steps
<1>6. PICK f : Visits(f, Wires, none, step, n)
  <2> HIDE DEF step
  <2> QED
    BY <1>1, <1>5, Iterates
<1>7. f \in [0..n -> Wires] /\ f[0] = none /\ \A k \in 1..n : f[k] = step[k][f[k - 1]]
  BY <1>6 DEF Visits
<1>8. f = After(f)
  <2>1. ASSUME NEW k \in 0..n PROVE f[k] = After(f)[k]
    <3>1. CASE k = 0
      BY <1>7, <3>1
    <3>2. CASE k # 0
      <4>1. k \in 1..n /\ k - 1 \in 0..n
        BY <1>1, <3>2
      <4>2. f[k - 1] \in Wires
        BY <1>7, <4>1
      <4> QED
        BY <1>7, <3>2, <4>1, <4>2
    <3> QED
      BY <3>1, <3>2
  <2> QED
    BY <1>7, <2>1
<1>9. upto = After(upto)
  BY <1>8, Zenon
<1> HIDE DEF upto
<1>10. /\ upto[0] = none
       /\ \A k \in 1..n : upto[k] = WireWith(upto[k - 1], fs[k])
  BY <1>1, <1>9
<1> DEFINE P == {k \in Nat : k <= n => upto[k] \in Wires /\ LaidOut(upto[k], k)}
<1>11. 0 \in P
  BY <1>1, <1>4, <1>10
<1>12. ASSUME NEW k \in Nat, k \in P PROVE k + 1 \in P
  <2>1. SUFFICES ASSUME k + 1 <= n PROVE upto[k + 1] \in Wires /\ LaidOut(upto[k + 1], k + 1)
    OBVIOUS
  <2>2. k + 1 \in 1..n /\ (k + 1) - 1 = k /\ upto[k] \in Wires /\ LaidOut(upto[k], k)
    BY <1>1, <1>12, <2>1
  <2>3. upto[k + 1] = WireWith(upto[k], fs[k + 1])
    BY <1>10, <2>2
  <2>4. fs[k + 1] \in Framing \X Objects
    BY <2>2 DEF n
  <2> QED
    BY <2>2, <2>3, <2>4, WireLaid
<1> HIDE DEF P
<1>13. n \in P
  BY <1>1, <1>11, <1>12, Upwards
<1> QED
  BY <1>1, <1>3, <1>13 DEF P, n

-----------------------------------------------------------------------------
(* What the transport makes of an object is still one: only characters     *)
(* change, which neither patterns nor braces look at.                      *)
LEMMA SameForm ==
    ASSUME NEW o \in Seq(Symbols), NEW u \in Seq(Symbols), Len(u) = Len(o), o \in Written,
           \A i \in 1..Len(o) : u[i] = o[i] \/ (o[i] \in {"lead", "trail"} /\ u[i] = "lost")
    PROVE  u \in Written
<1> DEFINE n == Len(o)
<1>1. n \in Nat /\ PatternAt(o) = 1 /\ WellFormed(o)
  BY DEF Written
<1>2. \A i \in 1..n : \A c \in {"open", "close", "key", "quote", "back"} : u[i] = c <=> o[i] = c
  OBVIOUS
<1> HIDE DEF n
<1>3. ASSUME NEW i \in 1..n PROVE Escaped(u, i) <=> Escaped(o, i)
  <2>1. \A j \in 1..(i - 1) : \A l \in j..(i - 1) : u[l] = "back" <=> o[l] = "back"
    <3>1. \A j \in 1..(i - 1) : \A l \in j..(i - 1) : l \in 1..n
      BY <1>1
    <3> QED
      BY <1>2, <3>1
  <2>2. {j \in 1..(i - 1) : \A l \in j..(i - 1) : u[l] = "back"}
          = {j \in 1..(i - 1) : \A l \in j..(i - 1) : o[l] = "back"}
    BY <2>1
  <2> QED
    BY <2>2 DEF Escaped
<1>4. ASSUME NEW i \in 1..n PROVE InString(u, i) <=> InString(o, i)
  <2>1. \A j \in 1..(i - 1) : j \in 1..n
    BY <1>1
  <2>2. {j \in 1..(i - 1) : u[j] = "quote" /\ ~Escaped(u, j)}
          = {j \in 1..(i - 1) : o[j] = "quote" /\ ~Escaped(o, j)}
    BY <1>2, <1>3, <2>1
  <2> QED
    BY <2>2 DEF InString
<1>5. ASSUME NEW i \in 1..n, NEW c \in {"open", "close"} PROVE Braces(u, c, i) = Braces(o, c, i)
  <2>1. \A j \in 1..i : j \in 1..n
    BY <1>1
  <2>2. {j \in 1..i : u[j] = c /\ ~InString(u, j)} = {j \in 1..i : o[j] = c /\ ~InString(o, j)}
    BY <1>2, <1>4, <2>1
  <2> QED
    BY <2>2 DEF Braces
<1>6. WellFormed(u)
  <2>1. /\ \A i \in 1..n : o[i] = "back" => InString(o, i)
        /\ \A i \in 1..n : (Braces(o, "open", i) = Braces(o, "close", i)) <=> i = n
    BY <1>1 DEF WellFormed, n
  <2>2. /\ \A i \in 1..n : u[i] = "back" => InString(u, i)
        /\ \A i \in 1..n : (Braces(u, "open", i) = Braces(u, "close", i)) <=> i = n
    BY <1>2, <1>4, <1>5, <2>1
  <2> QED
    BY <2>2 DEF WellFormed, n
<1>7. PatternAt(u) = 1
  <2>1. \A i \in 1..(n - 1) : i \in 1..n /\ i + 1 \in 1..n
    BY <1>1
  <2>2. {i \in 1..(n - 1) : u[i] = "open" /\ u[i + 1] = "key"}
          = {i \in 1..(n - 1) : o[i] = "open" /\ o[i + 1] = "key"}
    BY <1>2, <2>1
  <2>3. Len(u) = n /\ Len(o) = n
    BY DEF n
  <2>4. PatternAt(u) = PatternAt(o)
    BY <2>2, <2>3 DEF PatternAt
  <2> QED
    BY <1>1, <2>4
<1> QED
  BY <1>6, <1>7 DEF Written

(* The text of a wire, some of its characters cut. *)
Cuts(w) == SUBSET {i \in 1..Len(w) : w[i] = "lead"}

LEMMA DecodedText ==
    ASSUME NEW w \in Seq(Symbols), Paired(w), NEW T \in Cuts(w)
    PROVE  LET t == Decoded(w, T) IN
           /\ t \in Seq(Symbols) /\ Len(t) = Len(w)
           /\ \A i \in 1..Len(w) : t[i] = IF i \in T \/ i - 1 \in T THEN "lost" ELSE w[i]
           /\ \A i \in 1..Len(w) : t[i] = w[i] \/ (w[i] \in {"lead", "trail"} /\ t[i] = "lost")
<1> DEFINE t == Decoded(w, T)
           n == Len(w)
<1>1. n \in Nat /\ \A i \in 1..n : w[i] \in Symbols
  OBVIOUS
<1>2. t = [i \in 1..n |-> IF i \in T \/ i - 1 \in T THEN "lost" ELSE w[i]]
  BY DEF Decoded
<1> HIDE DEF t
<1>3. \A i \in 1..n : t[i] = (IF i \in T \/ i - 1 \in T THEN "lost" ELSE w[i]) /\ t[i] \in Symbols
  BY <1>1, <1>2 DEF Symbols
<1>4. t \in [1..n -> Symbols]
  BY <1>2, <1>3
<1>5. t \in Seq(Symbols) /\ Len(t) = n
  <2> HIDE DEF n
  <2> QED
    BY <1>1, <1>4
<1>6. ASSUME NEW i \in 1..n PROVE t[i] = w[i] \/ (w[i] \in {"lead", "trail"} /\ t[i] = "lost")
  <2>1. CASE i \in T
    BY <1>3, <2>1 DEF Cuts
  <2>2. CASE i - 1 \in T
    <3>1. i - 1 \in 1..Len(w) /\ w[i - 1] = "lead"
      BY <2>2 DEF Cuts
    <3>2. w[(i - 1) + 1] = "trail" /\ (i - 1) + 1 = i
      BY <3>1 DEF Paired
    <3> QED
      BY <1>3, <2>2, <3>2
  <2>3. CASE i \notin T /\ i - 1 \notin T
    BY <1>3, <2>3
  <2> QED
    BY <2>1, <2>2, <2>3
<1> QED
  BY <1>3, <1>5, <1>6 DEF t

LEMMA DecodedLaid ==
    ASSUME NEW w, NEW ends, NEW start, Laid(Objects, w, ends, start), Paired(w), NEW T \in Cuts(w)
    PROVE  Laid(Written, Decoded(w, T), ends, start)
<1> DEFINE t == Decoded(w, T)
           n == Len(w)
<1>1. /\ w \in Seq(Symbols) /\ ends \in Seq(Nat) /\ start \in Seq(Nat)
      /\ Len(start) = Len(ends) /\ n = End(ends, Len(ends)) /\ n \in Nat
      /\ \A k \in 1..Len(ends) : LaidAt(Objects, w, ends, start, k)
  BY DEF Laid
<1>2. /\ t \in Seq(Symbols) /\ Len(t) = n
      /\ \A i \in 1..n : t[i] = w[i] \/ (w[i] \in {"lead", "trail"} /\ t[i] = "lost")
  BY <1>1, DecodedText
<1> HIDE DEF t
<1>3. ASSUME NEW k \in 1..Len(ends) PROVE LaidAt(Written, t, ends, start, k)
  <2> DEFINE s == start[k]
             e == ends[k]
             base == End(ends, k - 1)
             m == e + 1 - s
             o == SubSeq(w, s, e)
             u == SubSeq(t, s, e)
  <2>1. /\ s \in Nat /\ e \in Nat /\ base \in Nat
        /\ base < s /\ s < e /\ e <= n /\ o \in Objects
        /\ \A i \in (base + 1)..(s - 1) : ~PatternIn(w, i)
    BY <1>1 DEF LaidAt
  <2> HIDE DEF s, e, base, n
  <2>2. Len(o) = m /\ Len(u) = m /\ u \in Seq(Symbols) /\ m \in Nat
        /\ \A i \in 1..m : o[i] = w[s + i - 1] /\ u[i] = t[s + i - 1]
    <3>1. 1 <= s /\ s <= e + 1 /\ e <= Len(w) /\ e <= Len(t)
      BY <1>1, <1>2, <2>1 DEF n
    <3>2. Len(o) = m /\ \A i \in 1..m : o[i] = w[s + i - 1]
      BY <1>1, <2>1, <3>1, PartOf
    <3>3. u \in Seq(Symbols) /\ Len(u) = m /\ \A i \in 1..m : u[i] = t[s + i - 1]
      BY <1>2, <2>1, <3>1, PartOf
    <3>4. m \in Nat
      BY <2>1
    <3> HIDE DEF o, u, m
    <3> QED
      BY <3>2, <3>3, <3>4
  <2>3. o \in Seq(Symbols) /\ o \in Written
    BY <2>1, FramesAssumption DEF Written
  <2>4. \A i \in 1..m : u[i] = o[i] \/ (o[i] \in {"lead", "trail"} /\ u[i] = "lost")
    <3>1. \A i \in 1..m : s + i - 1 \in 1..n
      BY <1>1, <2>1
    <3> QED
      BY <1>2, <2>2, <3>1
  <2> HIDE DEF o, u, m
  <2>5. u \in Written
    BY <2>2, <2>3, <2>4, SameForm
  <2>6. ASSUME NEW i \in (base + 1)..(s - 1) PROVE ~PatternIn(t, i)
    <3>1. i \in 1..n /\ i + 1 \in 1..n /\ ~PatternIn(w, i)
      BY <1>1, <2>1
    <3> QED
      BY <1>2, <3>1 DEF PatternIn
  <2>7. e <= Len(t)
    BY <1>2, <2>1
  <2> QED
    BY <2>1, <2>5, <2>6, <2>7 DEF LaidAt, s, e, base, u
<1> QED
  BY <1>1, <1>2, <1>3 DEF Laid, t

-----------------------------------------------------------------------------
Parsers == [buffer : Seq(Symbols), events : Seq(Seq(Symbols))]

(* The parser has fed on the first n objects, and holds the rest of what   *)
(* has arrived, q symbols of the wire.                                     *)
Parsed(p, w, ends, start, q, n) ==
    /\ p \in Parsers
    /\ n \in 0..Len(ends) /\ End(ends, n) <= q
    /\ p.buffer = SubSeq(w, End(ends, n) + 1, q)
    /\ Len(p.events) = n
    /\ \A k \in 1..n : p.events[k] = SubSeq(w, start[k], ends[k])

Waiting(ends, q, n) == n < Len(ends) => ends[n + 1] > q

LEMMA ExtractOne ==
    ASSUME NEW w, NEW ends, NEW start, Laid(Written, w, ends, start), NEW q \in 0..Len(w),
           NEW p, NEW n, Parsed(p, w, ends, start, q, n)
    PROVE  /\ Waiting(ends, q, n) => Extract(p) = p
           /\ ~Waiting(ends, q, n) => Parsed(Extract(p), w, ends, start, q, n + 1)
<1> DEFINE b == p.buffer
           base == End(ends, n)
<1>1. /\ w \in Seq(Symbols) /\ ends \in Seq(Nat) /\ start \in Seq(Nat)
      /\ Len(start) = Len(ends) /\ Len(w) = End(ends, Len(ends))
      /\ \A k \in 1..Len(ends) : LaidAt(Written, w, ends, start, k)
  BY DEF Laid
<1>2. /\ p \in Parsers /\ n \in Nat /\ n <= Len(ends) /\ base <= q
      /\ b = SubSeq(w, base + 1, q) /\ Len(p.events) = n
      /\ \A k \in 1..n : p.events[k] = SubSeq(w, start[k], ends[k])
  BY DEF Parsed
<1>3. base \in Nat /\ q \in Nat /\ q <= Len(w) /\ Len(w) \in Nat /\ Len(ends) \in Nat
  BY <1>1, <1>2 DEF End
<1> HIDE DEF base
<1>4. b \in Seq(Symbols) /\ Len(b) = q - base /\ \A i \in 1..(q - base) : b[i] = w[base + i]
  BY <1>1, <1>2, <1>3 DEF Parsers
<1>5. p.events \in Seq(Seq(Symbols)) /\ p = [buffer |-> b, events |-> p.events]
  BY <1>2 DEF Parsers
<1>6. /\ PatternAt(b) = 0 => Extract(p) = p
      /\ \A i \in Nat : i # 0 /\ PatternAt(b) = i =>
            Extract(p) = IF find_matching_brace(b, i) = 0 THEN p
                         ELSE [buffer |-> SubSeq(b, find_matching_brace(b, i) + 1, Len(b)),
                               events |-> Append(p.events, SubSeq(b, i, find_matching_brace(b, i)))]
  BY DEF Extract
<1> HIDE DEF b
<1>7. CASE n = Len(ends)
  <2>1. base = Len(w)
    BY <1>1, <1>7 DEF base
  <2>2. Len(b) = 0
    BY <1>2, <1>3, <1>4, <2>1
  <2>3. PatternAt(b) = 0
    <3>1. 1..(Len(b) - 1) = {}
      BY <2>2
    <3> QED
      BY <1>4, <3>1, FirstPattern
  <2> QED
    BY <1>6, <1>7, <2>3 DEF Waiting
<1>8. CASE n < Len(ends)
  <2> DEFINE s == start[n + 1]
             e == ends[n + 1]
             o == SubSeq(w, s, e)
             i == s - base
             len == e + 1 - s
  <2>1. n + 1 \in 1..Len(ends) /\ (n + 1) - 1 = n
    BY <1>2, <1>3, <1>8
  <2>2. LaidAt(Written, w, ends, start, n + 1) /\ End(ends, (n + 1) - 1) = base
    BY <1>1, <2>1 DEF base
  <2>3. /\ s \in Nat /\ e \in Nat /\ base < s /\ s < e /\ e <= Len(w) /\ o \in Written
        /\ \A j \in (base + 1)..(s - 1) : ~PatternIn(w, j)
    BY <2>2 DEF LaidAt
  <2>4. o \in Seq(Symbols) /\ PatternAt(o) = 1 /\ WellFormed(o)
    BY <2>3 DEF Written
  <2>5. Len(o) = len /\ \A k \in 1..len : o[k] = w[s + k - 1]
    <3>1. w \in Seq(Symbols) /\ s \in Nat /\ e \in Nat /\ 1 <= s /\ s <= e + 1 /\ e <= Len(w)
      BY <1>1, <1>3, <2>3
    <3> HIDE DEF s, e
    <3> QED
      BY <3>1, PartOf
  <2>6. Len(o) >= 2 /\ o[1] = "open" /\ o[2] = "key"
    BY <2>4, BracesOpen
  <2>7. Waiting(ends, q, n) <=> e > q
    BY <1>8 DEF Waiting
  <2>8. len \in Nat /\ s + len - 1 = e /\ i \in Nat /\ i >= 1 /\ base + i = s
    BY <1>3, <2>3, SMTT(60)
  <2> HIDE DEF o, e, s, i, len
  <2>9. PatternIn(w, s)
    <3>1. 1 \in 1..len /\ 2 \in 1..len
      BY <2>5, <2>6, <2>8
    <3>2. w[s + 1 - 1] = "open" /\ w[s + 2 - 1] = "key"
      BY <2>5, <2>6, <3>1
    <3>3. s + 1 - 1 = s /\ s + 2 - 1 = s + 1
      BY <2>3
    <3> QED
      BY <3>2, <3>3 DEF PatternIn
  <2>10. \A j \in 1..(Len(b) - 1) : PatternIn(b, j) <=> PatternIn(w, base + j)
    <3> SUFFICES ASSUME NEW j \in 1..(Len(b) - 1) PROVE PatternIn(b, j) <=> PatternIn(w, base + j)
      OBVIOUS
    <3>1. j \in 1..(q - base) /\ j + 1 \in 1..(q - base) /\ base + (j + 1) = (base + j) + 1
      BY <1>3, <1>4
    <3>2. b[j] = w[base + j] /\ b[j + 1] = w[base + (j + 1)]
      BY <1>4, <3>1
    <3> QED
      BY <3>1, <3>2 DEF PatternIn
  <2>11. \A j \in 1..(i - 1) : ~PatternIn(w, base + j)
    <3> SUFFICES ASSUME NEW j \in 1..(i - 1) PROVE ~PatternIn(w, base + j)
      OBVIOUS
    <3>1. base + j \in (base + 1)..(s - 1)
      BY <1>3, <2>3, <2>8
    <3> QED
      BY <2>3, <3>1
  <2>12. CASE s >= q
    <3>1. \A j \in 1..(Len(b) - 1) : j \in 1..(i - 1)
      BY <1>3, <1>4, <2>3, <2>8, <2>12, SMTT(60)
    <3>2. PatternAt(b) = 0
      BY <1>4, <2>10, <2>11, <3>1, FirstPattern
    <3>3. e > q
      BY <1>3, <2>3, <2>12
    <3> QED
      BY <1>6, <2>7, <3>2, <3>3
  <2>13. CASE s < q
    <3>1. i \in 1..(Len(b) - 1) /\ i \in 1..Len(b)
      BY <1>3, <1>4, <2>3, <2>8, <2>13
    <3>2. PatternIn(b, i)
      BY <2>8, <2>9, <2>10, <3>1
    <3>3. \A j \in 1..(i - 1) : ~PatternIn(b, j)
      <4>1. \A j \in 1..(i - 1) : j \in 1..(Len(b) - 1)
        BY <1>4, <2>8, <3>1
      <4> QED
        BY <2>10, <2>11, <4>1
    <3>4. PatternAt(b) = i
      BY <1>4, <3>1, <3>2, <3>3, FirstPattern
    <3>5. \A k \in 1..Len(o) : i + k - 1 <= Len(b) => b[i + k - 1] = o[k]
      <4> SUFFICES ASSUME NEW k \in 1..Len(o), i + k - 1 <= Len(b) PROVE b[i + k - 1] = o[k]
        OBVIOUS
      <4>1. i + k - 1 \in 1..(q - base) /\ base + (i + k - 1) = s + k - 1 /\ k \in 1..len
        BY <1>3, <1>4, <2>5, <2>8
      <4>2. b[i + k - 1] = w[base + (i + k - 1)]
        BY <1>4, <4>1
      <4> QED
        BY <2>5, <4>1, <4>2
    <3> DEFINE j == i + Len(o) - 1
    <3>6. find_matching_brace(b, i) = IF j <= Len(b) THEN j ELSE 0
      BY <1>4, <2>4, <3>1, <3>5, BraceMatched
    <3>7. j = e - base /\ j \in Nat /\ j # 0 /\ (j <= Len(b) <=> e <= q) /\ i <= j
      BY <1>3, <1>4, <2>3, <2>5, <2>6, <2>8
    <3> HIDE DEF j
    <3>8. CASE e > q
      <4>1. find_matching_brace(b, i) = 0
        BY <1>3, <2>3, <3>6, <3>7, <3>8
      <4> QED
        BY <1>6, <2>7, <2>8, <3>4, <3>8, <4>1
    <3>9. CASE e <= q
      <4>1. find_matching_brace(b, i) = j
        BY <3>6, <3>7, <3>9
      <4> DEFINE rest == SubSeq(b, j + 1, Len(b))
                 obj == SubSeq(b, i, j)
      <4>2. Extract(p) = [buffer |-> rest, events |-> Append(p.events, obj)]
        BY <1>6, <2>8, <3>4, <3>7, <4>1, SMTT(60)
      <4>3. rest = SubSeq(w, e + 1, q)
        <5> DEFINE m == q - e
        <5>1. m \in Nat /\ Len(b) = (j + 1) + m - 1 /\ q = (e + 1) + m - 1 /\ j + 1 \in Nat /\ e + 1 \in Nat
          BY <1>3, <1>4, <2>3, <3>7, <3>9
        <5>2. Alike(b, j + 1, w, e + 1, m)
          <6>1. (j + 1) + m <= Len(b) + 1 /\ (e + 1) + m <= Len(w) + 1 /\ 1 <= j + 1 /\ 1 <= e + 1
            <7> HIDE DEF m
            <7>1. m \in Nat /\ j \in Nat /\ e \in Nat /\ q \in Nat /\ Len(w) \in Nat /\ q <= Len(w)
              BY <1>3, <2>3, <3>7, <5>1
            <7>2. Len(b) = j + m /\ q = e + m
              BY <5>1, <7>1
            <7> QED
              BY <7>1, <7>2
          <6>2. ASSUME NEW k \in 1..m PROVE b[(j + 1) + k - 1] = w[(e + 1) + k - 1]
            <7>1. (j + 1) + k - 1 \in 1..(q - base) /\ base + ((j + 1) + k - 1) = (e + 1) + k - 1
              BY <1>3, <1>4, <2>3, <3>7, <3>9
            <7> QED
              BY <1>4, <7>1
          <6> QED
            BY <5>1, <6>1, <6>2 DEF Alike
        <5> HIDE DEF m
        <5> DEFINE j1 == j + 1
                   e1 == e + 1
        <5>4. b \in Seq(Symbols) /\ w \in Seq(Symbols)
          BY <1>1, <1>4
        <5>5. j1 \in Nat /\ e1 \in Nat /\ m \in Nat /\ Alike(b, j1, w, e1, m)
          BY <5>1, <5>2
        <5> HIDE DEF j1, e1
        <5>6. SubSeq(b, j1, j1 + m - 1) = SubSeq(w, e1, e1 + m - 1)
          BY <5>4, <5>5, SamePart
        <5>3. SubSeq(b, j + 1, (j + 1) + m - 1) = SubSeq(w, e + 1, (e + 1) + m - 1)
          BY <5>6 DEF j1, e1
        <5> QED
          BY <5>1, <5>3
      <4>4. obj = SubSeq(w, s, e) /\ obj \in Seq(Symbols)
        <5>1. i + len - 1 = j /\ s + len - 1 = e
          BY <1>3, <2>3, <2>5, <2>8, <3>7
        <5>2. Alike(b, i, w, s, len)
          <6>1. i + len <= Len(b) + 1 /\ s + len <= Len(w) + 1 /\ 1 <= i /\ 1 <= s
            BY <1>3, <1>4, <2>3, <2>8, <3>7, <3>9
          <6>2. ASSUME NEW k \in 1..len PROVE b[i + k - 1] = w[s + k - 1]
            <7>1. i + k - 1 <= Len(b) /\ k \in 1..Len(o)
              BY <1>3, <1>4, <2>3, <2>5, <2>8, <3>7, <3>9
            <7> QED
              BY <2>5, <3>5, <7>1
          <6> QED
            BY <2>3, <2>8, <6>1, <6>2 DEF Alike
        <5>3. SubSeq(b, i, i + len - 1) = SubSeq(w, s, s + len - 1)
          <6>1. b \in Seq(Symbols) /\ w \in Seq(Symbols)
            BY <1>1, <1>4
          <6>2. i \in Nat /\ s \in Nat /\ len \in Nat
            BY <2>3, <2>8
          <6> QED
            BY <5>2, <6>1, <6>2, SamePart
        <5>4. SubSeq(w, s, e) = o
          BY DEF o
        <5> QED
          BY <2>4, <5>1, <5>3, <5>4
      <4>5. rest \in Seq(Symbols)
        <5>1. w \in Seq(Symbols) /\ e + 1 \in Nat /\ 1 <= e + 1 /\ e + 1 <= q + 1 /\ q <= Len(w) /\ q \in Nat
          BY <1>1, <1>3, <2>3, <3>9
        <5> HIDE DEF rest
        <5> QED
          BY <4>3, <5>1, PartOf
      <4> HIDE DEF rest, obj
      <4> DEFINE events2 == Append(p.events, obj)
      <4>6. /\ events2 \in Seq(Seq(Symbols)) /\ Len(events2) = n + 1
            /\ \A k \in 1..n : events2[k] = p.events[k]
            /\ events2[n + 1] = obj
        BY <1>2, <1>5, <4>4, SMTT(60)
      <4> HIDE DEF events2
      <4>7. ASSUME NEW k \in 1..(n + 1) PROVE events2[k] = SubSeq(w, start[k], ends[k])
        <5>1. CASE k = n + 1
          BY <4>4, <4>6, <5>1 DEF s, e
        <5>2. CASE k # n + 1
          <6>1. k \in 1..n
            BY <1>2, <5>2
          <6> QED
            BY <1>2, <4>6, <6>1
        <5> QED
          BY <5>1, <5>2
      <4>8. End(ends, n + 1) = e
        BY <1>2 DEF End, e
      <4>9. Extract(p) = [buffer |-> rest, events |-> events2]
        BY <4>2 DEF events2
      <4>10. Parsed(Extract(p), w, ends, start, q, n + 1)
        <5>1. Extract(p) \in Parsers /\ Extract(p).buffer = rest /\ Extract(p).events = events2
          BY <4>5, <4>6, <4>9 DEF Parsers
        <5>2. n + 1 \in 0..Len(ends)
          BY <1>2, <1>3, <1>8
        <5> QED
          BY <3>9, <4>3, <4>6, <4>7, <4>8, <5>1, <5>2 DEF Parsed
      <4> QED
        BY <1>3, <2>3, <2>7, <3>9, <4>10
    <3> QED
      BY <1>3, <2>3, <3>8, <3>9
  <2> QED
    BY <1>3, <2>3, <2>12, <2>13
<1> QED
  BY <1>2, <1>3, <1>7, <1>8

(* After that many turns the loop has fed on that many objects or has      *)
(* stopped.                                                                *)
Turned(p, w, ends, start, q, t) ==
    \E n \in Nat : Parsed(p, w, ends, start, q, n) /\ (n >= t \/ Waiting(ends, q, n))

LEMMA TurnOn ==
    ASSUME NEW w, NEW ends, NEW start, Laid(Written, w, ends, start), NEW q \in 0..Len(w),
           NEW p, NEW t \in Nat, Turned(p, w, ends, start, q, t)
    PROVE  /\ Turned(Extract(p), w, ends, start, q, t + 1)
           /\ Turned(Extract(p), w, ends, start, q, 0) /\ Extract(p) \in Parsers
<1>1. PICK n \in Nat : Parsed(p, w, ends, start, q, n) /\ (n >= t \/ Waiting(ends, q, n))
  BY DEF Turned
<1>2. CASE Waiting(ends, q, n)
  <2>1. Extract(p) = p
    BY <1>1, <1>2, ExtractOne
  <2>2. p \in Parsers
    BY <1>1 DEF Parsed
  <2> QED
    BY <1>1, <1>2, <2>1, <2>2 DEF Turned
<1>3. CASE ~Waiting(ends, q, n)
  <2>1. Parsed(Extract(p), w, ends, start, q, n + 1)
    BY <1>1, <1>3, ExtractOne
  <2>2. n + 1 \in Nat /\ n + 1 >= t + 1 /\ n + 1 >= 0
    BY <1>1, <1>3
  <2>3. Extract(p) \in Parsers
    BY <2>1 DEF Parsed
  <2> QED
    BY <2>1, <2>2, <2>3 DEF Turned
<1> QED
  BY <1>2, <1>3

LEMMA ExtractAll ==
    ASSUME NEW w, NEW ends, NEW start, Laid(Written, w, ends, start), NEW q \in 0..Len(w),
           Len(ends) <= MaxObjects, NEW p, Turned(p, w, ends, start, q, 0), p \in Parsers
    PROVE  \E n \in Nat : /\ Parsed(Extracted(p), w, ends, start, q, n)
                          /\ Waiting(ends, q, n)
<1> DEFINE M == MaxObjects
           S == {r \in Parsers : Turned(r, w, ends, start, q, 0)}
           step == [k \in 1..M |-> [r \in S |-> Extract(r)]]
           After(f) == [k \in 0..M |-> IF k = 0 THEN p ELSE Extract(f[k - 1])]
           turn == CHOOSE f : f = After(f)
<1>1. M \in Nat /\ p \in S
  BY FramesAssumption
<1>2. \A r \in S : Extract(r) \in S
  <2> SUFFICES ASSUME NEW r \in S PROVE Extract(r) \in S
    OBVIOUS
  <2>1. Turned(r, w, ends, start, q, 0) /\ 0 \in Nat
    OBVIOUS
  <2> QED
    BY <2>1, TurnOn
<1>3. Extracted(p) = turn[M]
  BY Zenon DEF Extracted
<1> HIDE DEF S
<1>4. step \in Steps(S, M)
  BY <1>2 DEF Steps
<1>5. PICK f : Visits(f, S, p, step, M)
  <2> HIDE DEF step, M
  <2> QED
    BY <1>1, <1>4, Iterates
<1> HIDE DEF M
<1>6. f \in [0..M -> S] /\ f[0] = p /\ \A k \in 1..M : f[k] = step[k][f[k - 1]]
  BY <1>5 DEF Visits
<1>7. f = After(f)
  <2>1. ASSUME NEW k \in 0..M PROVE f[k] = After(f)[k]
    <3>1. CASE k = 0
      BY <1>6, <3>1
    <3>2. CASE k # 0
      <4>1. k \in 1..M /\ k - 1 \in 0..M
        BY <1>1, <3>2
      <4>2. f[k - 1] \in S
        BY <1>6, <4>1
      <4> QED
        BY <1>6, <3>2, <4>1, <4>2
    <3> QED
      BY <3>1, <3>2
  <2> QED
    BY <1>6, <2>1
<1>8. turn = After(turn)
  BY <1>7, Zenon
<1> HIDE DEF turn
<1>9. turn[0] = p /\ \A k \in 1..M : turn[k] = Extract(turn[k - 1])
  BY <1>1, <1>8
<1> DEFINE P == {k \in Nat : k <= M => Turned(turn[k], w, ends, start, q, k)}
<1>10. 0 \in P
  BY <1>1, <1>9
<1>11. ASSUME NEW k \in Nat, k \in P PROVE k + 1 \in P
  <2>1. SUFFICES ASSUME k + 1 <= M PROVE Turned(turn[k + 1], w, ends, start, q, k + 1)
    OBVIOUS
  <2>2. k + 1 \in 1..M /\ (k + 1) - 1 = k /\ Turned(turn[k], w, ends, start, q, k)
    BY <1>1, <1>11, <2>1
  <2>3. turn[k + 1] = Extract(turn[k])
    BY <1>9, <2>2
  <2> QED
    BY <2>2, <2>3, TurnOn
<1> HIDE DEF P
<1>12. M \in P
  BY <1>1, <1>10, <1>11, Upwards
<1>13. Turned(turn[M], w, ends, start, q, M)
  BY <1>1, <1>12 DEF P
<1>14. PICK n \in Nat : Parsed(turn[M], w, ends, start, q, n) /\ (n >= M \/ Waiting(ends, q, n))
  BY <1>13 DEF Turned
<1>15. n \in 0..Len(ends) /\ Len(ends) <= M /\ Len(ends) \in Nat
  BY <1>14 DEF Parsed, M, Laid
<1>16. Waiting(ends, q, n)
  BY <1>1, <1>14, <1>15 DEF Waiting
<1> QED
  BY <1>3, <1>14, <1>16

LEMMA Rest ==
    ASSUME NEW S, NEW t \in Seq(S), NEW a \in Nat, NEW c \in Nat, NEW d \in Nat,
           1 <= a, a <= c + 1, c <= d, d <= Len(t)
    PROVE  SubSeq(t, a, c) \o SubSeq(t, c + 1, d) = SubSeq(t, a, d)
<1> DEFINE x == SubSeq(t, a, c)
           c1 == c + 1
           y == SubSeq(t, c1, d)
           z == SubSeq(t, a, d)
<1>1. c1 \in Nat /\ 1 <= c1 /\ c1 <= d + 1 /\ c <= Len(t) /\ a <= d + 1 /\ c1 = c + 1 /\ d + 1 - c1 = d - c
  OBVIOUS
<1> HIDE DEF c1
<1>2. x \in Seq(S) /\ Len(x) = c + 1 - a /\ \A k \in 1..(c + 1 - a) : x[k] = t[a + k - 1]
  BY <1>1, PartOf
<1>3. y \in Seq(S) /\ Len(y) = d + 1 - c1 /\ \A k \in 1..(d + 1 - c1) : y[k] = t[c1 + k - 1]
  BY <1>1, PartOf
<1>4. z \in Seq(S) /\ Len(z) = d + 1 - a /\ \A k \in 1..(d + 1 - a) : z[k] = t[a + k - 1]
  BY <1>1, PartOf
<1> HIDE DEF x, y, z
<1>5. x \o y \in Seq(S) /\ Len(x \o y) = Len(z)
  <2>1. x \o y \in Seq(S) /\ Len(x \o y) = Len(x) + Len(y)
    <3>1. x \o y \in Seq(S) /\ Joins(x, y, <<>>, x \o y)
      BY <1>2, <1>3, Concat
    <3>2. Len(<<>>) = 0 /\ Len(x) \in Nat /\ Len(y) \in Nat
      BY <1>2, <1>3
    <3> QED
      BY <3>1, <3>2 DEF Joins
  <2>2. Len(x) + Len(y) = Len(z)
    BY <1>1, <1>2, <1>3, <1>4
  <2> QED
    BY <2>1, <2>2
<1>6. ASSUME NEW k \in 1..Len(z) PROVE (x \o y)[k] = z[k]
  <2>1. k \in 1..(d + 1 - a) /\ z[k] = t[a + k - 1]
    BY <1>4
  <2>2. CASE k <= Len(x)
    <3>1. k \in 1..(c + 1 - a)
      BY <1>2, <2>1, <2>2
    <3> QED
      BY <1>2, <1>3, <2>1, <2>2, <3>1
  <2>3. CASE k > Len(x)
    <3> DEFINE m == k - Len(x)
    <3>1. m \in 1..(d + 1 - c1) /\ c1 + m - 1 = a + k - 1
      BY <1>1, <1>2, <2>1, <2>3
    <3>2. (x \o y)[k] = y[m]
      BY <1>2, <1>3, <1>5, <1>4, <2>3
    <3> HIDE DEF m
    <3> QED
      BY <1>3, <2>1, <3>1, <3>2
  <2>4. k \in Nat /\ Len(x) \in Nat
    BY <1>2, <2>1
  <2>5. k <= Len(x) \/ k > Len(x)
    BY <2>4
  <2> QED
    BY Zenon, <2>2, <2>3, <2>5
<1>7. x \o y = z
  <2> DEFINE u == x \o y
  <2>1. u \in Seq(S) /\ z \in Seq(S) /\ Len(u) = Len(z)
    BY <1>4, <1>5
  <2>3. \A k \in 1..Len(z) : u[k] = z[k]
    BY <1>6
  <2> HIDE DEF u
  <2>2. u = z
    BY <2>1, <2>3
  <2> QED
    BY <2>2 DEF u
<1> QED
  BY <1>7 DEF x, y, z, c1

LEMMA EndsIncrease ==
    ASSUME NEW w, NEW ends, NEW start, Laid(Objects, w, ends, start)
    PROVE  \A j \in 1..Len(ends) : \A i \in 1..j : ends[i] <= ends[j]
<1> DEFINE P == {j \in Nat : j <= Len(ends) => \A i \in 1..j : ends[i] <= ends[j]}
<1>1. /\ ends \in Seq(Nat) /\ Len(ends) \in Nat
      /\ \A k \in 1..Len(ends) : LaidAt(Objects, w, ends, start, k)
  BY DEF Laid
<1>2. 0 \in P
  OBVIOUS
<1>3. ASSUME NEW j \in Nat, j \in P PROVE j + 1 \in P
  <2>1. SUFFICES ASSUME j + 1 <= Len(ends), NEW i \in 1..(j + 1) PROVE ends[i] <= ends[j + 1]
    OBVIOUS
  <2>2. j + 1 \in 1..Len(ends) /\ (j + 1) - 1 = j
    BY <1>1, <2>1
  <2>3. ends[j + 1] \in Nat
    BY <1>1, <2>2
  <2>4. CASE i = j + 1
    BY <2>3, <2>4
  <2>5. CASE i # j + 1
    <3>1. i \in 1..j /\ j \in 1..Len(ends) /\ j # 0
      BY <1>1, <2>1, <2>5
    <3>2. ends[i] <= ends[j] /\ ends[i] \in Nat /\ ends[j] \in Nat
      BY <1>1, <1>3, <2>1, <3>1
    <3>3. LaidAt(Objects, w, ends, start, j + 1) /\ End(ends, (j + 1) - 1) = ends[j]
      BY <1>1, <2>2, <3>1 DEF End
    <3>4. ends[j] < start[j + 1] /\ start[j + 1] < ends[j + 1] /\ start[j + 1] \in Nat
      BY <3>3 DEF LaidAt
    <3> QED
      BY <2>3, <3>2, <3>4
  <2> QED
    BY <2>4, <2>5
<1> HIDE DEF P
<1>4. \A j \in Nat : j \in P
  BY <1>2, <1>3, Upwards
<1> QED
  BY <1>1, <1>4 DEF P

(* The objects fed on are those that have arrived. *)
LEMMA EndsArrived ==
    ASSUME NEW w, NEW ends, NEW start, Laid(Objects, w, ends, start), NEW q \in 0..Len(w),
           NEW p, NEW v, NEW n, Parsed(p, v, ends, start, q, n), Waiting(ends, q, n)
    PROVE  /\ \A k \in 1..Len(ends) : ends[k] <= q <=> k <= n
           /\ \A k \in 1..n : ends[k] <= q
<1>1. w \in Seq(Symbols) /\ ends \in Seq(Nat) /\ Len(ends) \in Nat /\ q \in Nat
  BY DEF Laid
<1>2. n \in 0..Len(ends) /\ End(ends, n) <= q
  BY DEF Parsed
<1>3. \A j \in 1..Len(ends) : \A i \in 1..j : ends[i] <= ends[j]
  BY EndsIncrease
<1>4. ASSUME NEW k \in 1..Len(ends) PROVE ends[k] <= q <=> k <= n
  <2>1. ends[k] \in Nat
    BY <1>1
  <2>2. CASE k <= n
    <3>1. n \in 1..Len(ends) /\ k \in 1..n /\ n # 0
      BY <1>1, <1>2, <2>2
    <3>2. ends[k] <= ends[n] /\ End(ends, n) = ends[n] /\ ends[n] \in Nat
      BY <1>1, <1>3, <3>1 DEF End
    <3> QED
      BY <1>1, <1>2, <2>1, <2>2, <3>2
  <2>3. CASE ~(k <= n)
    <3>1. n < Len(ends) /\ n + 1 \in 1..k /\ n + 1 \in 1..Len(ends)
      BY <1>1, <1>2, <2>3
    <3>2. ends[n + 1] > q /\ ends[n + 1] <= ends[k] /\ ends[n + 1] \in Nat
      BY <1>1, <1>3, <3>1 DEF Waiting
    <3> QED
      BY <1>1, <2>1, <2>3, <3>2
  <2> QED
    BY <2>2, <2>3
<1>5. \A k \in 1..n : k \in 1..Len(ends) /\ k <= n
  BY <1>1, <1>2
<1> QED
  BY <1>4, <1>5

(* Two texts alike so far have the same parts so far. *)
LEMMA SameSub ==
    ASSUME NEW S, NEW t \in Seq(S), NEW u \in Seq(S), NEW q \in Nat, q <= Len(t), q <= Len(u),
           \A i \in 1..q : t[i] = u[i], NEW a \in Nat, NEW c \in Nat, 1 <= a, a <= c + 1, c <= q
    PROVE  SubSeq(t, a, c) = SubSeq(u, a, c)
<1> DEFINE n == c + 1 - a
<1>1. n \in Nat /\ a + n - 1 = c /\ a + n <= Len(t) + 1 /\ a + n <= Len(u) + 1
  OBVIOUS
<1>2. \A i \in 1..n : t[a + i - 1] = u[a + i - 1]
  <2>1. \A i \in 1..n : a + i - 1 \in 1..q
    OBVIOUS
  <2> QED
    BY <2>1
<1> HIDE DEF n
<1>3. Alike(t, a, u, a, n)
  BY <1>1, <1>2 DEF Alike
<1>4. SubSeq(t, a, a + n - 1) = SubSeq(u, a, a + n - 1)
  BY <1>1, <1>3, SamePart
<1> QED
  BY <1>1, <1>4

(* What has been parsed of one text has been parsed of any text alike so   *)
(* far.                                                                    *)
LEMMA ParsedAlike ==
    ASSUME NEW w, NEW v, NEW ends, NEW start, Laid(Written, w, ends, start), v \in Seq(Symbols), Len(v) = Len(w),
           NEW q \in 0..Len(w), \A i \in 1..q : w[i] = v[i],
           NEW p, NEW n, Parsed(p, w, ends, start, q, n),
           \A k \in 1..n : ends[k] <= q
    PROVE  Parsed(p, v, ends, start, q, n)
<1>1. /\ w \in Seq(Symbols) /\ ends \in Seq(Nat)
      /\ \A k \in 1..Len(ends) : LaidAt(Written, w, ends, start, k)
  BY DEF Laid
<1>2. /\ p \in Parsers /\ n \in 0..Len(ends) /\ End(ends, n) <= q
      /\ p.buffer = SubSeq(w, End(ends, n) + 1, q) /\ Len(p.events) = n
      /\ \A k \in 1..n : p.events[k] = SubSeq(w, start[k], ends[k])
  BY DEF Parsed
<1>3. q \in Nat /\ q <= Len(w) /\ q <= Len(v) /\ End(ends, n) \in Nat
  BY <1>1, <1>2 DEF End
<1>4. SubSeq(w, End(ends, n) + 1, q) = SubSeq(v, End(ends, n) + 1, q)
  <2> DEFINE a == End(ends, n) + 1
  <2>1. a \in Nat /\ 1 <= a /\ a <= q + 1
    BY <1>2, <1>3
  <2> HIDE DEF a
  <2>2. SubSeq(w, a, q) = SubSeq(v, a, q)
    BY <1>1, <1>3, <2>1, SameSub
  <2> QED
    BY <2>2 DEF a
<1>5. ASSUME NEW k \in 1..n PROVE SubSeq(w, start[k], ends[k]) = SubSeq(v, start[k], ends[k])
  <2> DEFINE s == start[k]
             e == ends[k]
  <2>1. k \in 1..Len(ends)
    BY <1>1, <1>2
  <2>2. s \in Nat /\ e \in Nat /\ End(ends, k - 1) \in Nat /\ End(ends, k - 1) < s /\ s < e /\ e <= q
    BY <1>1, <2>1 DEF LaidAt
  <2>3. 1 <= s /\ s <= e + 1
    BY <2>2
  <2> HIDE DEF s, e
  <2>4. SubSeq(w, s, e) = SubSeq(v, s, e)
    BY <1>1, <1>3, <2>2, <2>3, SameSub
  <2> QED
    BY <2>4 DEF s, e
<1> QED
  BY <1>2, <1>4, <1>5 DEF Parsed

(* The characters cut: those whose first bytes have arrived in a chunk     *)
(* that ended there.                                                       *)
Tearing(w, q, T) ==
    /\ T \subseteq {i \in 1..q : w[i] = "lead"}
    /\ q \in T <=> q > 0 /\ w[q] = "lead"

(* What a chunk is decoded to is its part of the decoded text.             *)
ChunkRight(w, q, T, d, T2) ==
    /\ T \in Cuts(w) /\ T2 \in Cuts(w) /\ Tearing(w, d, T2)
    /\ \A i \in 1..q : Decoded(w, T)[i] = Decoded(w, T2)[i]
    /\ from_utf8_lossy(SubSeq(w, q + 1, d)) = SubSeq(Decoded(w, T2), q + 1, d)

LEMMA ChunkDecoded ==
    ASSUME NEW w \in Seq(Symbols), Paired(w), NEW q \in 0..Len(w), NEW T, Tearing(w, q, T),
           NEW d \in (q + 1)..Len(w), NEW T2, T2 = T \cup {i \in {d} : w[i] = "lead"}
    PROVE  ChunkRight(w, q, T, d, T2)
<1> DEFINE N == Len(w)
           m == d - q
           a == q + 1
<1>1. N \in Nat /\ q \in Nat /\ d \in Nat /\ q < d /\ d <= N /\ m \in Nat /\ m >= 1 /\ a \in Nat
  OBVIOUS
<1>2. T \subseteq {i \in 1..q : w[i] = "lead"} /\ (q \in T <=> q > 0 /\ w[q] = "lead")
  BY DEF Tearing
<1>3. \A i : i \in T2 <=> i \in T \/ (i = d /\ w[d] = "lead")
  OBVIOUS
<1>16. \A i : i \in T => i \in 1..q /\ i \in 1..N /\ i \in 1..d /\ w[i] = "lead"
  <2> HIDE DEF N, m, a
  <2> QED
    BY <1>1, <1>2
<1>17. d \in 1..N /\ d \in 1..d /\ d > 0 /\ d \notin T
  <2> HIDE DEF N, m, a
  <2> QED
    BY <1>1, <1>16
<1>18. \A i : i \in T2 => i \in 1..N /\ i \in 1..d /\ w[i] = "lead"
  <2> HIDE DEF N, m, a
  <2> QED
    BY <1>3, <1>16, <1>17
<1>4. T \in Cuts(w) /\ T2 \in Cuts(w)
  BY <1>16, <1>18 DEF Cuts, N
<1>5. Tearing(w, d, T2)
  <2>1. T2 \subseteq {i \in 1..d : w[i] = "lead"}
    BY <1>18
  <2>2. d \in T2 <=> d > 0 /\ w[d] = "lead"
    BY <1>3, <1>17
  <2> QED
    BY <2>1, <2>2 DEF Tearing
<1>6. \A i \in 1..N : /\ Decoded(w, T)[i] = IF i \in T \/ i - 1 \in T THEN "lost" ELSE w[i]
                      /\ Decoded(w, T2)[i] = IF i \in T2 \/ i - 1 \in T2 THEN "lost" ELSE w[i]
  BY DEF Decoded
<1>7. ASSUME NEW i \in 1..q PROVE Decoded(w, T)[i] = Decoded(w, T2)[i]
  <2>1. i \in 1..N /\ i # d /\ i - 1 # d
    BY <1>1
  <2> QED
    BY <1>3, <1>6, <2>1
<1> DEFINE c == SubSeq(w, a, d)
           t == Decoded(w, T2)
           u == SubSeq(t, a, d)
           l == from_utf8_lossy(c)
<1>8. t \in Seq(Symbols) /\ Len(t) = N
  BY <1>4, DecodedText
<1>9. d + 1 - a = m /\ 1 <= a /\ a <= d + 1 /\ d <= Len(w)
  BY <1>1
<1> HIDE DEF m, a, t, N
<1>10. c \in Seq(Symbols) /\ Len(c) = m /\ \A i \in 1..m : c[i] = w[a + i - 1]
  <2>1. c \in Seq(Symbols) /\ Len(c) = d + 1 - a /\ \A i \in 1..(d + 1 - a) : c[i] = w[a + i - 1]
    BY <1>1, <1>9, PartOf
  <2> HIDE DEF c
  <2> QED
    BY <1>9, <2>1
<1>11. u \in Seq(Symbols) /\ Len(u) = m /\ \A i \in 1..m : u[i] = t[a + i - 1]
  <2>1. d <= Len(t)
    BY <1>1, <1>8
  <2>2. u \in Seq(Symbols) /\ Len(u) = d + 1 - a /\ \A i \in 1..(d + 1 - a) : u[i] = t[a + i - 1]
    BY <1>1, <1>8, <1>9, <2>1, PartOf
  <2> HIDE DEF u
  <2> QED
    BY <1>9, <2>2
<1>12. DOMAIN c = 1..m
  BY <1>10
<1>13. l = [i \in 1..m |-> IF (c[i] = "lead" /\ i = m) \/ (c[i] = "trail" /\ i = 1) THEN "lost" ELSE c[i]]
  BY <1>10, <1>12 DEF from_utf8_lossy
<1> HIDE DEF c, u, l
<1>14. ASSUME NEW i \in 1..m PROVE l[i] = u[i]
  <2> DEFINE x == a + i - 1
  <2>1. x \in 1..N /\ x = q + i /\ x <= d /\ x > q /\ (x = d <=> i = m) /\ (x - 1 = q <=> i = 1) /\ x - 1 # d
    BY <1>1 DEF a, m
  <2> HIDE DEF x
  <2>2. c[i] = w[x] /\ u[i] = t[x]
    BY <1>10, <1>11 DEF x
  <2>3. x \in T2 <=> w[x] = "lead" /\ i = m
    <3>1. x \notin T
      BY <1>1, <1>2, <2>1
    <3> QED
      BY <1>3, <2>1, <3>1
  <2>4. x - 1 \in T2 <=> w[x] = "trail" /\ i = 1
    <3>1. x - 1 \in T2 <=> i = 1 /\ q \in T
      BY <1>1, <1>2, <1>3, <2>1
    <3>2. i = 1 => x = q + 1 /\ x - 1 = q
      BY <2>1
    <3>3. q > 0 /\ w[q] = "lead" => w[q + 1] = "trail"
      BY <1>1 DEF Paired, N
    <3>4. w[q + 1] = "trail" => q > 0 /\ w[q] = "lead"
      <4>1. q + 1 \in 1..Len(w) /\ (q + 1) - 1 = q
        BY <1>1 DEF N
      <4>2. w[q + 1] = "trail" => q + 1 > 1 /\ w[(q + 1) - 1] = "lead"
        BY <4>1 DEF Paired
      <4> QED
        BY <1>1, <4>1, <4>2
    <3> QED
      BY <1>2, <3>1, <3>2, <3>3, <3>4
  <2>5. t[x] = IF x \in T2 \/ x - 1 \in T2 THEN "lost" ELSE w[x]
    BY <1>6, <2>1 DEF t
  <2> QED
    BY <1>13, <2>2, <2>3, <2>4, <2>5
<1>15. l = u
  <2>1. l \in [1..m -> Symbols]
    <3>1. \A i \in 1..m : l[i] \in Symbols
      BY <1>11, <1>14
    <3> QED
      BY <1>13, <3>1
  <2>2. l \in Seq(Symbols) /\ Len(l) = m
    BY <1>1, <2>1
  <2> QED
    BY <1>11, <1>14, <2>2
<1> QED
  BY <1>4, <1>5, <1>7, <1>15 DEF l, u, c, t, a, ChunkRight

(* The inductive invariant: the wire is laid out in whole characters, the  *)
(* parser has fed on the objects that have arrived, as the transport has   *)
(* cut them, and waits for the next.                                       *)
FrameAt(start, n) ==
    /\ Laid(Objects, wire, whole, start) /\ Paired(wire)
    /\ Len(whole) <= MaxObjects /\ pos \in 0..Len(wire) /\ Tearing(wire, pos, torn)
    /\ Parsed(parser, Decoded(wire, torn), whole, start, pos, n) /\ Waiting(whole, pos, n)

FrameInv == \E start : \E n \in Nat : FrameAt(start, n)

LEMMA FrameInitInv == FrameInit => FrameInv
<1> SUFFICES ASSUME FrameInit PROVE FrameInv
  OBVIOUS
<1>1. PICK fs \in SeqOf(Framing \X Objects, MaxObjects) :
         wire = Framed(fs).wire /\ whole = Framed(fs).whole
  BY DEF FrameInit
<1>2. pos = 0 /\ parser = [buffer |-> <<>>, events |-> <<>>] /\ torn = {}
  BY DEF FrameInit
<1>3. fs \in Seq(Framing \X Objects) /\ Len(fs) <= MaxObjects
  <2>1. PICK m \in 0..MaxObjects : fs \in [1..m -> Framing \X Objects]
    BY <1>1 DEF SeqOf
  <2>2. m \in Nat /\ m <= MaxObjects
    <3>1. MaxObjects \in Nat
      BY FramesAssumption
    <3> QED
      BY <2>1, <3>1
  <2>3. fs \in Seq(Framing \X Objects) /\ Len(fs) = m
    BY <2>1, <2>2
  <2> QED
    BY <2>2, <2>3
<1>4. Framed(fs) \in Wires /\ LaidOut(Framed(fs), Len(fs))
  BY <1>3, FramedLaid
<1>5. PICK start : Laid(Objects, wire, whole, start) /\ Len(whole) = Len(fs) /\ Paired(wire)
  BY <1>1, <1>4 DEF LaidOut
<1>6. wire \in Seq(Symbols) /\ whole \in Seq(Nat) /\ \A k \in 1..Len(whole) : LaidAt(Objects, wire, whole, start, k)
  BY <1>5 DEF Laid
<1> DEFINE t == Decoded(wire, torn)
<1>7. Parsed(parser, t, whole, start, 0, 0)
  <2>1. <<>> \in Seq(Symbols) /\ <<>> \in Seq(Seq(Symbols)) /\ Len(<<>>) = 0
    OBVIOUS
  <2>2. parser \in Parsers /\ parser.buffer = <<>> /\ parser.events = <<>>
    BY <1>2, <2>1 DEF Parsers
  <2>3. t \in Seq(Symbols)
    <3>1. torn \in Cuts(wire)
      BY <1>2 DEF Cuts
    <3> QED
      BY <1>5, <1>6, <3>1, DecodedText
  <2> HIDE DEF t
  <2>4. End(whole, 0) = 0 /\ 0 \in 0..Len(whole) /\ SubSeq(t, 0 + 1, 0) = <<>> /\ 1..0 = {}
    BY <1>6, <2>3 DEF End
  <2> QED
    BY <2>1, <2>2, <2>4 DEF Parsed
<1>8. Waiting(whole, 0, 0)
  <2>1. SUFFICES ASSUME 0 < Len(whole) PROVE whole[1] > 0
    BY DEF Waiting
  <2>2. 1 \in 1..Len(whole)
    BY <1>6, <2>1
  <2>3. LaidAt(Objects, wire, whole, start, 1)
    BY <1>6, <2>2
  <2> QED
    BY <2>3 DEF LaidAt, End
<1>9. 0 \in 0..Len(wire) /\ 0 \in Nat
  BY <1>6
<1>10. Tearing(wire, 0, torn)
  BY <1>2 DEF Tearing
<1>11. FrameAt(start, 0)
  BY <1>2, <1>3, <1>5, <1>7, <1>8, <1>9, <1>10 DEF FrameAt
<1> QED
  BY <1>9, <1>11 DEF FrameInv

LEMMA FrameStepInv == FrameInv /\ [FrameNext]_frameVars => FrameInv'
<1> SUFFICES ASSUME FrameInv, [FrameNext]_frameVars PROVE FrameInv'
  OBVIOUS
<1>1. PICK start : \E n \in Nat : FrameAt(start, n)
  BY DEF FrameInv
<1>2. PICK n \in Nat : FrameAt(start, n)
  BY <1>1
<1>3. CASE UNCHANGED frameVars
  BY <1>3 DEF FrameInv, FrameAt, frameVars
<1>4. CASE Feed
  <2>1. PICK m \in 1..(Len(wire) - pos) :
          /\ pos' = pos + m
          /\ torn' = torn \cup {i \in {pos + m} : wire[i] = "lead"}
          /\ parser' = Extracted([parser EXCEPT !.buffer = @ \o from_utf8_lossy(SubSeq(wire, pos + 1, pos + m))])
          /\ wire' = wire /\ whole' = whole
    BY <1>4 DEF Feed
  <2> DEFINE d == pos + m
             t == Decoded(wire, torn')
             p == [parser EXCEPT !.buffer = @ \o from_utf8_lossy(SubSeq(wire, pos + 1, d))]
             base == End(whole, n)
  <2>2. /\ Laid(Objects, wire, whole, start) /\ Paired(wire)
        /\ Len(whole) <= MaxObjects /\ pos \in 0..Len(wire) /\ Tearing(wire, pos, torn)
        /\ Parsed(parser, Decoded(wire, torn), whole, start, pos, n) /\ Waiting(whole, pos, n)
    BY <1>2 DEF FrameAt
  <2>3. wire \in Seq(Symbols) /\ whole \in Seq(Nat) /\ Len(wire) \in Nat /\ Len(whole) \in Nat
    BY <2>2 DEF Laid
  <2>4. /\ pos \in Nat /\ d \in 0..Len(wire) /\ d \in Nat /\ pos <= d /\ d <= Len(wire)
        /\ d \in (pos + 1)..Len(wire)
    BY <2>1, <2>2, <2>3
  <2>5. torn' = torn \cup {i \in {d} : wire[i] = "lead"}
    BY <2>1
  <2> HIDE DEF d
  <2>6. /\ torn \in Cuts(wire) /\ torn' \in Cuts(wire) /\ Tearing(wire, d, torn')
        /\ \A i \in 1..pos : Decoded(wire, torn)[i] = t[i]
        /\ from_utf8_lossy(SubSeq(wire, pos + 1, d)) = SubSeq(t, pos + 1, d)
    <3> DEFINE T2 == torn'
    <3>1. T2 = torn \cup {i \in {d} : wire[i] = "lead"}
      BY <2>5
    <3> HIDE DEF T2
    <3>2. ChunkRight(wire, pos, torn, d, T2)
      BY <2>2, <2>3, <2>4, <3>1, ChunkDecoded
    <3> QED
      BY <3>2 DEF ChunkRight, T2
  <2>7. t \in Seq(Symbols) /\ Len(t) = Len(wire) /\ Decoded(wire, torn) \in Seq(Symbols)
        /\ Len(Decoded(wire, torn)) = Len(wire)
    BY <2>2, <2>3, <2>6, DecodedText
  <2>8. Laid(Written, t, whole, start) /\ Laid(Written, Decoded(wire, torn), whole, start)
    BY <2>2, <2>6, DecodedLaid
  <2> HIDE DEF t
  <2>9. Parsed(parser, t, whole, start, pos, n)
    <3>1. \A k \in 1..n : whole[k] <= pos
      BY <2>2, EndsArrived
    <3> QED
      BY <2>2, <2>6, <2>7, <2>8, <3>1, ParsedAlike
  <2>10. /\ parser \in Parsers /\ n \in 0..Len(whole) /\ base <= pos
         /\ parser.buffer = SubSeq(t, base + 1, pos)
         /\ Len(parser.events) = n
         /\ \A k \in 1..n : parser.events[k] = SubSeq(t, start[k], whole[k])
    BY <2>9 DEF Parsed
  <2>11. base \in Nat
    BY <2>3, <2>10 DEF End
  <2> DEFINE b == SubSeq(t, base + 1, d)
  <2>12. p = [buffer |-> parser.buffer \o SubSeq(t, pos + 1, d), events |-> parser.events]
    <3>1. ASSUME NEW v
          PROVE  [parser EXCEPT !.buffer = v] = [buffer |-> v, events |-> parser.events]
      <4>1. parser = [buffer |-> parser.buffer, events |-> parser.events]
        BY <2>10 DEF Parsers
      <4> QED
        BY <4>1
    <3> QED
      BY <2>6, <3>1
  <2>13. parser.buffer \o SubSeq(t, pos + 1, d) = b
    <3> DEFINE a == base + 1
    <3>1. a \in Nat /\ 1 <= a /\ a <= pos + 1 /\ d <= Len(t)
      BY <2>4, <2>7, <2>10, <2>11
    <3> HIDE DEF a, base
    <3>2. SubSeq(t, a, pos) \o SubSeq(t, pos + 1, d) = SubSeq(t, a, d)
      BY <2>4, <2>7, <3>1, Rest
    <3> QED
      BY <2>10, <3>2 DEF a
  <2>14. b \in Seq(Symbols)
    <3> DEFINE a == base + 1
    <3>1. a \in Nat /\ 1 <= a /\ a <= d + 1 /\ d <= Len(t)
      BY <2>4, <2>7, <2>10, <2>11
    <3> HIDE DEF a, base
    <3>2. SubSeq(t, a, d) \in Seq(Symbols)
      BY <2>4, <2>7, <3>1, PartOf
    <3> QED
      BY <3>2 DEF a
  <2> HIDE DEF p, b
  <2>15. p \in Parsers /\ p.buffer = b /\ p.events = parser.events
    BY <2>10, <2>12, <2>13, <2>14 DEF Parsers
  <2>16. base <= d
    BY <2>4, <2>10, <2>11
  <2> HIDE DEF base
  <2>17. Parsed(p, t, whole, start, d, n)
    BY <2>10, <2>15, <2>16 DEF Parsed, b, base
  <2>18. Turned(p, t, whole, start, d, 0)
    <3>1. n >= 0
      OBVIOUS
    <3> QED
      BY <2>17, <3>1 DEF Turned
  <2>19. PICK k \in Nat : Parsed(Extracted(p), t, whole, start, d, k) /\ Waiting(whole, d, k)
    <3>1. d \in 0..Len(t)
      BY <2>4, <2>7
    <3> QED
      BY <2>2, <2>8, <2>15, <2>18, <3>1, ExtractAll
  <2>20. parser' = Extracted(p) /\ pos' = d
    BY <2>1 DEF p, d
  <2>21. FrameAt(start, k)'
    <3>1. Parsed(parser', Decoded(wire', torn'), whole', start, pos', k) /\ Waiting(whole', pos', k)
      BY <2>1, <2>19, <2>20 DEF t
    <3>2. /\ Laid(Objects, wire', whole', start) /\ Paired(wire')
          /\ Len(whole') <= MaxObjects /\ pos' \in 0..Len(wire') /\ Tearing(wire', pos', torn')
      BY <2>1, <2>2, <2>4, <2>6, <2>20
    <3> QED
      BY <3>1, <3>2 DEF FrameAt
  <2> QED
    BY <2>21 DEF FrameInv
<1> QED
  BY <1>3, <1>4 DEF FrameNext

LEMMA FrameInvParsed == FrameInv => EveryObjectParsed
<1> SUFFICES ASSUME FrameInv PROVE EveryObjectParsed
  OBVIOUS
<1>1. PICK start : \E n \in Nat : FrameAt(start, n)
  BY DEF FrameInv
<1>2. PICK n \in Nat : FrameAt(start, n)
  BY <1>1
<1> DEFINE t == Decoded(wire, torn)
<1>3. /\ Laid(Objects, wire, whole, start) /\ Paired(wire) /\ pos \in 0..Len(wire) /\ Tearing(wire, pos, torn)
      /\ Parsed(parser, t, whole, start, pos, n) /\ Waiting(whole, pos, n)
  BY <1>2 DEF FrameAt
<1>4. /\ wire \in Seq(Symbols) /\ whole \in Seq(Nat) /\ Len(wire) \in Nat /\ Len(whole) \in Nat
      /\ \A k \in 1..Len(whole) : LaidAt(Objects, wire, whole, start, k)
  BY <1>3 DEF Laid
<1>5. t \in Seq(Symbols) /\ Len(t) = Len(wire)
  <2>1. torn \in Cuts(wire)
    BY <1>3, <1>4 DEF Tearing, Cuts
  <2> QED
    BY <1>3, <1>4, <2>1, DecodedText
<1> HIDE DEF t
<1>6. /\ n \in 0..Len(whole) /\ Len(parser.events) = n
      /\ \A k \in 1..n : parser.events[k] = SubSeq(t, start[k], whole[k])
  BY <1>3 DEF Parsed
<1>7. {k \in 1..Len(whole) : whole[k] <= pos} = 1..n
  <2>1. \A k : k \in 1..Len(whole) /\ k <= n <=> k \in 1..n
    BY <1>4, <1>6
  <2>2. \A k \in 1..Len(whole) : whole[k] <= pos <=> k <= n
    BY <1>3, EndsArrived
  <2> QED
    BY <2>1, <2>2
<1>8. Cardinality(1..n) = n
  <2>1. Cardinality(1..n) = IF 1 > n THEN 0 ELSE n - 1 + 1
    BY FS_Interval, 1 \in Int, n \in Int
  <2> QED
    BY <2>1
<1>9. ASSUME NEW k \in 1..Len(parser.events)
      PROVE  LET e == parser.events[k]
                 first == whole[k] - Len(e) + 1
             IN SubSeq(wire, first, whole[k]) \in Objects /\ e = SubSeq(t, first, whole[k])
  <2> DEFINE s == start[k]
             d == whole[k]
             e == SubSeq(t, s, d)
  <2>1. k \in 1..n /\ k \in 1..Len(whole) /\ k - 1 \in 0..Len(whole)
    BY <1>4, <1>6
  <2>2. parser.events[k] = e
    BY <1>6, <2>1
  <2>3. LaidAt(Objects, wire, whole, start, k) /\ End(whole, k - 1) \in Nat
    BY <1>4, <2>1 DEF End
  <2>4. /\ s \in Nat /\ d \in Nat /\ s < d /\ End(whole, k - 1) < s /\ d <= Len(t)
        /\ SubSeq(wire, s, d) \in Objects
    BY <1>5, <2>3 DEF LaidAt
  <2>5. 1 <= s /\ s <= d + 1
    BY <2>3, <2>4
  <2> HIDE DEF s, d
  <2>6. Len(e) = d + 1 - s
    BY <1>5, <2>4, <2>5, PartOf
  <2>7. d - Len(e) + 1 = s
    BY <2>4, <2>6
  <2> QED
    BY <2>2, <2>4, <2>7 DEF d
<1> QED
  BY <1>6, <1>7, <1>8, <1>9 DEF EveryObjectParsed, t

(* However the transport cuts the event stream, SseParser::feed has handed *)
(* on the JSON objects that have arrived whole, and only those, in order   *)
(* and each as it was written but for the characters that a chunk ended    *)
(* in, which the conversion of each chunk alone has replaced.              *)
THEOREM ObjectsParsed == FrameSpec => []EveryObjectParsed
  BY FrameInitInv, FrameStepInv, FrameInvParsed, PTL DEF FrameSpec

-----------------------------------------------------------------------------
-----------------------------------------------------------------------------
(***************************************************************************)
(* Conversations on their way to Kiro.                                     *)
(***************************************************************************)
Answers == CallIds \X BOOLEAN
Tokens == ({"text", "system"} \X Nat) \cup ({"call"} \X CallIds) \cup ({"result"} \X Answers)

UnifiedMessages ==
    [role : {"user", "assistant", "developer"}, text : Seq(Tokens), calls : Seq(CallIds),
     results : Seq(Answers) \cup {None}, blocks : Seq(CallIds)]

KiroEntries ==
    [who : {"user", "assistant"}, text : Seq(Tokens), uses : Seq(CallIds), results : Seq(Answers)]

LEMMA UnifiedIs ==
    ASSUME NEW role, NEW text, NEW calls, NEW results, NEW blocks
    PROVE  LET u == Unified(role, text, calls, results, blocks) IN
           /\ u.role = role /\ u.text = text /\ u.calls = calls /\ u.results = results /\ u.blocks = blocks
           /\ role \in {"user", "assistant", "developer"} /\ text \in Seq(Tokens) /\ calls \in Seq(CallIds)
                /\ results \in Seq(Answers) \cup {None} /\ blocks \in Seq(CallIds) => u \in UnifiedMessages
  BY DEF Unified, UnifiedMessages

LEMMA EntryIs ==
    ASSUME NEW who, NEW text, NEW uses, NEW results
    PROVE  LET e == Entry(who, text, uses, results) IN
           /\ e.who = who /\ e.text = text /\ e.uses = uses /\ e.results = results
           /\ who \in {"user", "assistant"} /\ text \in Seq(Tokens) /\ uses \in Seq(CallIds)
                /\ results \in Seq(Answers) => e \in KiroEntries
  BY DEF Entry, KiroEntries

LEMMA FieldTypes ==
    ASSUME NEW u \in UnifiedMessages
    PROVE  /\ u.role \in {"user", "assistant", "developer"} /\ u.text \in Seq(Tokens)
           /\ u.calls \in Seq(CallIds) /\ u.results \in Seq(Answers) \cup {None}
           /\ u.blocks \in Seq(CallIds) /\ Results(u) \in Seq(Answers)
<1>1. <<>> \in Seq(Answers)
  OBVIOUS
<1> QED
  BY <1>1 DEF UnifiedMessages, Results

LEMMA MergedIs ==
    ASSUME NEW u \in UnifiedMessages, NEW v \in UnifiedMessages
    PROVE  /\ Merged(u, v) \in UnifiedMessages
           /\ Merged(u, v).role = u.role /\ Merged(u, v).blocks = <<>>
           /\ Merged(u, v).text = u.text \o v.text
           /\ Merged(u, v).calls = IF v.role = "assistant" THEN u.calls \o v.calls ELSE u.calls
           /\ Merged(u, v).results =
                IF v.role = "user" /\ v.results # None THEN Results(u) \o v.results ELSE u.results
<1> DEFINE text == u.text \o v.text
           calls == IF v.role = "assistant" THEN u.calls \o v.calls ELSE u.calls
           results == IF v.role = "user" /\ v.results # None THEN Results(u) \o v.results ELSE u.results
           none == <<>>
<1>1. Merged(u, v) = Unified(u.role, text, calls, results, none)
  BY DEF Merged
<1>2. u.role \in {"user", "assistant", "developer"} /\ none \in Seq(CallIds)
  BY FieldTypes
<1>3. text \in Seq(Tokens)
  BY FieldTypes, ConcatProperties
<1>4. calls \in Seq(CallIds)
  BY FieldTypes, ConcatProperties
<1>5. results \in Seq(Answers) \cup {None}
  <2>1. CASE v.role = "user" /\ v.results # None
    <3>1. v.results \in Seq(Answers) /\ Results(u) \in Seq(Answers)
      BY <2>1, FieldTypes
    <3> QED
      BY <2>1, <3>1, ConcatProperties
  <2>2. CASE ~(v.role = "user" /\ v.results # None)
    BY <2>2, FieldTypes
  <2> QED
    BY <2>1, <2>2
<1> HIDE DEF text, calls, results, none
<1>6. Merged(u, v) \in UnifiedMessages /\ Merged(u, v).role = u.role /\ Merged(u, v).blocks = none
      /\ Merged(u, v).text = text /\ Merged(u, v).calls = calls /\ Merged(u, v).results = results
  BY <1>1, <1>2, <1>3, <1>4, <1>5, UnifiedIs
<1> QED
  BY <1>6 DEF text, calls, results, none

LEMMA TakenType ==
    ASSUME NEW acc \in Seq(UnifiedMessages), NEW u \in UnifiedMessages
    PROVE  Taken(acc, u) \in Seq(UnifiedMessages)
<1>1. CASE acc # <<>> /\ Last(acc).role = u.role
  <2>1. Front(acc) \in Seq(UnifiedMessages) /\ Merged(Last(acc), u) \in UnifiedMessages
    BY <1>1, LastOf, MergedIs
  <2> QED
    BY <1>1, <2>1, AppendProperties DEF Taken
<1>2. CASE ~(acc # <<>> /\ Last(acc).role = u.role)
  BY <1>2, AppendProperties DEF Taken
<1> QED
  BY <1>1, <1>2

LEMMA MergeNext ==
    /\ merge_adjacent_messages(<<>>) = <<>>
    /\ \A us \in Seq(UnifiedMessages) : merge_adjacent_messages(us) \in Seq(UnifiedMessages)
    /\ \A us \in Seq(UnifiedMessages) : \A u \in UnifiedMessages :
         merge_adjacent_messages(Append(us, u)) = Taken(merge_adjacent_messages(us), u)
<1> DEFINE U == UnifiedMessages
           S == Seq(U)
           none == <<>>
           act == [p \in S \X U |-> Taken(p[1], p[2])]
<1>1. none \in S
  OBVIOUS
<1>2. \A acc \in S : \A u \in U : Taken(acc, u) \in S
  BY TakenType
<1> HIDE DEF U, S
<1>3. act \in Acting(S, U) /\ \A acc \in S : \A u \in U : act[<<acc, u>>] = Taken(acc, u)
  <2>1. \A p \in S \X U : p[1] \in S /\ p[2] \in U
    OBVIOUS
  <2>2. act \in Acting(S, U)
    BY <1>2, <2>1 DEF Acting
  <2>3. ASSUME NEW acc \in S, NEW u \in U PROVE act[<<acc, u>>] = Taken(acc, u)
    <3>1. <<acc, u>> \in S \X U
      OBVIOUS
    <3> QED
      BY <3>1
  <2> QED
    BY <2>2, <2>3
<1> HIDE DEF act, none
<1>4. ASSUME NEW us \in Seq(U) PROVE merge_adjacent_messages(us) = Outcome(S, none, act, us)
  <2> DEFINE n == Len(us)
             After(f) == [i \in 0..n |-> IF i = 0 THEN <<>> ELSE Taken(f[i - 1], us[i])]
             upto == CHOOSE f : f = After(f)
  <2>1. merge_adjacent_messages(us) = upto[n]
    BY Zenon DEF merge_adjacent_messages
  <2>2. n \in Nat /\ \A k \in 1..n : us[k] \in U
    OBVIOUS
  <2>3. PICK f \in [0..n -> S] : Acts(f, none, act, us)
    BY <1>1, <1>3, OneAct
  <2>4. f = After(f)
    <3>1. ASSUME NEW k \in 0..n PROVE f[k] = After(f)[k]
      <4>1. CASE k = 0
        BY <2>3, <4>1 DEF Acts, none
      <4>2. CASE k # 0
        <5>1. k \in 1..n /\ k - 1 \in 0..n
          BY <2>2, <4>2
        <5>2. f[k - 1] \in S /\ us[k] \in U
          BY <2>2, <2>3, <5>1
        <5>3. f[k] = act[<<f[k - 1], us[k]>>]
          BY <2>3, <5>1 DEF Acts
        <5> QED
          BY <1>3, <4>2, <5>2, <5>3
      <4> QED
        BY <4>1, <4>2
    <3> QED
      BY <2>3, <3>1
  <2>5. upto = After(upto)
    BY <2>4, Zenon
  <2> HIDE DEF upto
  <2>6. upto[0] = none /\ \A k \in 1..n : upto[k] = Taken(upto[k - 1], us[k])
    BY <2>2, <2>5 DEF none
  <2>7. \A k \in 1..n : upto[k - 1] \in S => upto[k] = act[<<upto[k - 1], us[k]>>]
    BY <1>3, <2>2, <2>6
  <2>8. upto[n] = Outcome(S, none, act, us)
    BY <1>1, <1>3, <2>6, <2>7, LoopIs
  <2> QED
    BY <2>1, <2>8
<1>5. <<>> \in Seq(U)
  OBVIOUS
<1>6. \A us \in Seq(U) : \A u \in U : Append(us, u) \in Seq(U)
  BY AppendProperties
<1>7. /\ Outcome(S, none, act, <<>>) = none
      /\ \A xs \in Seq(U) : Outcome(S, none, act, xs) \in S
      /\ \A xs \in Seq(U) : \A x \in U :
           Outcome(S, none, act, Append(xs, x)) = act[<<Outcome(S, none, act, xs), x>>]
  BY <1>1, <1>3, OutcomeNext
<1>8. merge_adjacent_messages(<<>>) = none
  BY <1>4, <1>5, <1>7
<1>9. \A us \in Seq(U) : merge_adjacent_messages(us) \in S
  BY <1>4, <1>7
<1>10. ASSUME NEW us \in Seq(U), NEW u \in U
       PROVE merge_adjacent_messages(Append(us, u)) = Taken(merge_adjacent_messages(us), u)
  BY <1>3, <1>4, <1>6, <1>7, ZenonT(60)
<1> QED
  BY <1>8, <1>9, <1>10 DEF S, U, none

LEMMA SetListed ==
    ASSUME NEW S, IsFiniteSet(S)
    PROVE  /\ SetToSeq(S) \in Seq(S) /\ IsInjective(SetToSeq(S)) /\ Range(SetToSeq(S)) = S
           /\ S = {} => SetToSeq(S) = <<>>
<1> DEFINE n == Cardinality(S)
           s == SetToSeq(S)
<1>1. n \in Nat /\ ExistsBijection(1..n, S)
  BY FS_CardinalityType
<1>2. \E f \in [1..n -> S] : IsInjective(f)
  BY <1>1 DEF ExistsBijection, Bijection, Injection
<1>3. s \in [1..n -> S] /\ IsInjective(s)
  BY <1>2 DEF SetToSeq
<1>4. IsFiniteSet(1..n) /\ Cardinality(1..n) = n
  <2>1. IsFiniteSet(1..n) /\ Cardinality(1..n) = IF 1 > n THEN 0 ELSE n - 1 + 1
    BY <1>1, FS_Interval, 1 \in Int, n \in Int
  <2> QED
    BY <1>1, <2>1
<1> HIDE DEF s
<1>5. s \in Injection(1..n, S)
  BY <1>3 DEF Injection
<1>6. s \in Surjection(1..n, S)
  BY <1>4, <1>5, FS_Injection
<1>7. s \in Seq(S)
  BY <1>1, <1>3
<1>8. Range(s) = S
  BY <1>3, <1>6 DEF Surjection, Range
<1>9. S = {} => s = <<>>
  <2> SUFFICES ASSUME S = {} PROVE s = <<>>
    OBVIOUS
  <2>1. n = 0
    BY FS_EmptySet
  <2>2. Len(s) = 0
    BY <1>3, <2>1
  <2> QED
    BY <1>7, <2>2, EmptySeq
<1> QED
  BY <1>3, <1>7, <1>8, <1>9 DEF s

LEMMA UsesListed ==
    ASSUME NEW u \in UnifiedMessages
    PROVE  LET uses == extract_tool_uses_from_message(u) IN
           /\ uses \in Seq(CallIds) /\ IsInjective(uses)
           /\ \A c : c \in Range(u.calls) => c \in Range(uses)
           /\ u.calls # <<>> => uses # <<>>
           /\ u.calls = <<>> /\ u.blocks = <<>> => uses = <<>>
<1> DEFINE both == u.calls \o u.blocks
           R == Range(both)
           uses == SetToSeq(R)
<1>1. u.calls \in Seq(CallIds) /\ u.blocks \in Seq(CallIds)
  BY FieldTypes
<1>2. /\ both \in Seq(CallIds)
      /\ R = Range(u.calls) \cup Range(u.blocks)
  BY <1>1, ConcatProperties, RangeConcatenation
<1>3. both \in [1..Len(both) -> CallIds] /\ Len(both) \in Nat
  BY <1>2, LenProperties
<1>4. IsFiniteSet(R) /\ R \subseteq CallIds
  <2>1. IsFiniteSet(1..Len(both))
    BY <1>3, FS_Interval, 1 \in Int, Len(both) \in Int
  <2> HIDE DEF both
  <2>2. both \in Surjection(1..Len(both), R)
    BY <1>3 DEF Surjection, Range
  <2>3. R \subseteq CallIds
    BY <1>3 DEF Range
  <2> QED
    BY <2>1, <2>2, <2>3, FS_Surjection
<1>5. extract_tool_uses_from_message(u) = uses
  BY DEF extract_tool_uses_from_message
<1> HIDE DEF both
<1>6. uses \in Seq(R) /\ IsInjective(uses) /\ Range(uses) = R /\ (R = {} => uses = <<>>)
  BY <1>4, SetListed
<1> HIDE DEF uses, R
<1>7. uses \in Seq(CallIds)
  BY <1>4, <1>6, SeqMonotonic
<1>8. u.calls # <<>> => uses # <<>>
  <2> SUFFICES ASSUME u.calls # <<>> PROVE uses # <<>>
    OBVIOUS
  <2>1. 1 \in DOMAIN u.calls
    BY <1>1
  <2>2. u.calls[1] \in R
    BY <1>2, <2>1 DEF Range
  <2>3. Range(<<>>) = {}
    BY DEF Range
  <2> QED
    BY <1>6, <2>2, <2>3
<1>9. u.calls = <<>> /\ u.blocks = <<>> => uses = <<>>
  <2>1. Range(<<>>) = {}
    BY DEF Range
  <2> QED
    BY <1>2, <1>6, <2>1
<1> QED
  BY <1>2, <1>5, <1>6, <1>7, <1>8, <1>9

(* Results read from content blocks.                                       *)
LEMMA ResultsRead ==
    ASSUME NEW ids \in Seq(CallIds)
    PROVE  /\ ResultsOf(ids) \in Seq(Answers) /\ Len(ResultsOf(ids)) = Len(ids)
           /\ ids = <<>> <=> ResultsOf(ids) = <<>>
<1> DEFINE n == Len(ids)
           rs == [i \in 1..n |-> <<ids[i], TRUE>>]
<1>1. n \in Nat /\ \A i \in 1..n : ids[i] \in CallIds
  OBVIOUS
<1>2. \A c \in CallIds : <<c, TRUE>> \in Answers
  BY DEF Answers
<1>3. ResultsOf(ids) = rs
  BY DEF ResultsOf
<1> HIDE DEF n
<1>4. rs \in [1..n -> Answers]
  BY <1>1, <1>2
<1> HIDE DEF rs
<1>5. rs \in Seq(Answers) /\ Len(rs) = n
  BY <1>1, <1>4
<1>6. (ids = <<>> <=> n = 0) /\ (rs = <<>> <=> n = 0)
  BY <1>5, EmptySeq DEF n
<1> QED
  BY <1>3, <1>4, <1>5, <1>6 DEF n

LEMMA InputIs ==
    ASSUME NEW u \in UnifiedMessages
    PROVE  /\ ToolResults(u) \in Seq(Answers)
           /\ build_kiro_user_input(u) \in KiroEntries
           /\ build_kiro_user_input(u).who = "user" /\ build_kiro_user_input(u).text = u.text
           /\ build_kiro_user_input(u).uses = <<>> /\ build_kiro_user_input(u).results = ToolResults(u)
           /\ build_kiro_assistant_response(u) \in KiroEntries
           /\ build_kiro_assistant_response(u).who = "assistant"
           /\ build_kiro_assistant_response(u).text = u.text
           /\ build_kiro_assistant_response(u).uses = extract_tool_uses_from_message(u)
           /\ build_kiro_assistant_response(u).results = <<>>
           /\ synthetic_user_input \in KiroEntries /\ synthetic_user_input.who = "user"
           /\ synthetic_user_input.text = <<>> /\ synthetic_user_input.uses = <<>>
           /\ synthetic_user_input.results = <<>>
<1> DEFINE none == <<>>
           uses == extract_tool_uses_from_message(u)
<1>1. none \in Seq(CallIds) /\ none \in Seq(Tokens) /\ none \in Seq(Answers)
  OBVIOUS
<1>2. ToolResults(u) \in Seq(Answers)
  BY <1>1, FieldTypes, ResultsRead DEF ToolResults
<1>3. u.text \in Seq(Tokens) /\ uses \in Seq(CallIds)
  BY FieldTypes, UsesListed
<1>4. /\ build_kiro_user_input(u) = Entry("user", u.text, none, ToolResults(u))
      /\ build_kiro_assistant_response(u) = Entry("assistant", u.text, uses, none)
      /\ synthetic_user_input = Entry("user", none, none, none)
  BY DEF build_kiro_user_input, build_kiro_assistant_response, synthetic_user_input
<1> HIDE DEF none, uses
<1>5. /\ build_kiro_user_input(u) \in KiroEntries
      /\ build_kiro_user_input(u).who = "user" /\ build_kiro_user_input(u).text = u.text
      /\ build_kiro_user_input(u).uses = none /\ build_kiro_user_input(u).results = ToolResults(u)
  BY <1>1, <1>2, <1>3, <1>4, EntryIs
<1>6. /\ build_kiro_assistant_response(u) \in KiroEntries
      /\ build_kiro_assistant_response(u).who = "assistant"
      /\ build_kiro_assistant_response(u).text = u.text
      /\ build_kiro_assistant_response(u).uses = uses
      /\ build_kiro_assistant_response(u).results = none
  BY <1>1, <1>3, <1>4, EntryIs
<1>7. /\ synthetic_user_input \in KiroEntries /\ synthetic_user_input.who = "user"
      /\ synthetic_user_input.text = none /\ synthetic_user_input.uses = none
      /\ synthetic_user_input.results = none
  BY <1>1, <1>4, EntryIs
<1> QED
  BY <1>2, <1>5, <1>6, <1>7 DEF none, uses

LEMMA EnteredType ==
    ASSUME NEW acc \in Seq(KiroEntries), NEW u \in UnifiedMessages
    PROVE  Entered(acc, u) \in Seq(KiroEntries)
<1>1. CASE u.role = "user"
  BY <1>1, InputIs, AppendProperties DEF Entered
<1>2. CASE u.role = "assistant"
  <2> DEFINE before == IF acc # <<>> /\ Last(acc).who = "user" THEN acc ELSE Append(acc, synthetic_user_input)
  <2>1. before \in Seq(KiroEntries)
    BY InputIs, AppendProperties
  <2>2. Entered(acc, u) = Append(before, build_kiro_assistant_response(u))
    BY <1>2 DEF Entered
  <2> HIDE DEF before
  <2> QED
    BY <2>1, <2>2, InputIs, AppendProperties
<1>3. CASE u.role \notin {"user", "assistant"}
  BY <1>3 DEF Entered
<1> QED
  BY <1>1, <1>2, <1>3

LEMMA HistoryNext ==
    /\ build_kiro_history(<<>>) = <<>>
    /\ \A us \in Seq(UnifiedMessages) : build_kiro_history(us) \in Seq(KiroEntries)
    /\ \A us \in Seq(UnifiedMessages) : \A u \in UnifiedMessages :
         build_kiro_history(Append(us, u)) = Entered(build_kiro_history(us), u)
<1> DEFINE U == UnifiedMessages
           S == Seq(KiroEntries)
           none == <<>>
           act == [p \in S \X U |-> Entered(p[1], p[2])]
<1>1. none \in S
  OBVIOUS
<1>2. \A acc \in S : \A u \in U : Entered(acc, u) \in S
  BY EnteredType
<1> HIDE DEF U, S
<1>3. act \in Acting(S, U) /\ \A acc \in S : \A u \in U : act[<<acc, u>>] = Entered(acc, u)
  <2>1. \A p \in S \X U : p[1] \in S /\ p[2] \in U
    OBVIOUS
  <2>2. act \in Acting(S, U)
    BY <1>2, <2>1 DEF Acting
  <2>3. ASSUME NEW acc \in S, NEW u \in U PROVE act[<<acc, u>>] = Entered(acc, u)
    <3>1. <<acc, u>> \in S \X U
      OBVIOUS
    <3> QED
      BY <3>1
  <2> QED
    BY <2>2, <2>3
<1> HIDE DEF act, none
<1>4. ASSUME NEW us \in Seq(U) PROVE build_kiro_history(us) = Outcome(S, none, act, us)
  <2> DEFINE n == Len(us)
             After(f) == [i \in 0..n |-> IF i = 0 THEN <<>> ELSE Entered(f[i - 1], us[i])]
             upto == CHOOSE f : f = After(f)
  <2>1. build_kiro_history(us) = upto[n]
    BY Zenon DEF build_kiro_history
  <2>2. n \in Nat /\ \A k \in 1..n : us[k] \in U
    OBVIOUS
  <2>3. PICK f \in [0..n -> S] : Acts(f, none, act, us)
    BY <1>1, <1>3, OneAct
  <2>4. f = After(f)
    <3>1. ASSUME NEW k \in 0..n PROVE f[k] = After(f)[k]
      <4>1. CASE k = 0
        BY <2>3, <4>1 DEF Acts, none
      <4>2. CASE k # 0
        <5>1. k \in 1..n /\ k - 1 \in 0..n
          BY <2>2, <4>2
        <5>2. f[k - 1] \in S /\ us[k] \in U
          BY <2>2, <2>3, <5>1
        <5>3. f[k] = act[<<f[k - 1], us[k]>>]
          BY <2>3, <5>1 DEF Acts
        <5> QED
          BY <1>3, <4>2, <5>2, <5>3
      <4> QED
        BY <4>1, <4>2
    <3> QED
      BY <2>3, <3>1
  <2>5. upto = After(upto)
    BY <2>4, Zenon
  <2> HIDE DEF upto
  <2>6. upto[0] = none /\ \A k \in 1..n : upto[k] = Entered(upto[k - 1], us[k])
    BY <2>2, <2>5 DEF none
  <2>7. \A k \in 1..n : upto[k - 1] \in S => upto[k] = act[<<upto[k - 1], us[k]>>]
    BY <1>3, <2>2, <2>6
  <2>8. upto[n] = Outcome(S, none, act, us)
    BY <1>1, <1>3, <2>6, <2>7, LoopIs
  <2> QED
    BY <2>1, <2>8
<1>5. <<>> \in Seq(U)
  OBVIOUS
<1>6. \A us \in Seq(U) : \A u \in U : Append(us, u) \in Seq(U)
  BY AppendProperties
<1>7. /\ Outcome(S, none, act, <<>>) = none
      /\ \A xs \in Seq(U) : Outcome(S, none, act, xs) \in S
      /\ \A xs \in Seq(U) : \A x \in U :
           Outcome(S, none, act, Append(xs, x)) = act[<<Outcome(S, none, act, xs), x>>]
  BY <1>1, <1>3, OutcomeNext
<1>8. build_kiro_history(<<>>) = none
  BY <1>4, <1>5, <1>7
<1>9. \A us \in Seq(U) : build_kiro_history(us) \in S
  BY <1>4, <1>7
<1>10. ASSUME NEW us \in Seq(U), NEW u \in U
       PROVE build_kiro_history(Append(us, u)) = Entered(build_kiro_history(us), u)
  BY <1>3, <1>4, <1>6, <1>7, ZenonT(60)
<1> QED
  BY <1>8, <1>9, <1>10 DEF S, U, none

(* Messages with their places, and what the loop over them has come to.    *)
Tagged == OpenAIMessages \X Nat
Working == [done : Seq(UnifiedMessages), pending : Seq(Answers)]
Start == [done |-> <<>>, pending |-> <<>>]
Worked(xs) == Outcome(Working, Start, [p \in Working \X Tagged |-> Unify(p[1], p[2][1], p[2][2])], xs)
Numbered(ms) == [i \in 1..Len(ms) |-> <<ms[i], i>>]

LEMMA TextForms ==
    ASSUME NEW calls \in Seq(CallIds), NEW results \in Seq(Answers)
    PROVE  /\ tool_calls_to_text(calls) \in Seq(Tokens) /\ Len(tool_calls_to_text(calls)) = Len(calls)
           /\ tool_results_to_text(results) \in Seq(Tokens)
           /\ Len(tool_results_to_text(results)) = Len(results)
<1> DEFINE n == Len(calls)
           k == Len(results)
<1>1. /\ n \in Nat /\ \A i \in 1..n : calls[i] \in CallIds
      /\ k \in Nat /\ \A i \in 1..k : results[i] \in Answers
  OBVIOUS
<1>2. (\A c \in CallIds : <<"call", c>> \in Tokens) /\ (\A a \in Answers : <<"result", a>> \in Tokens)
  BY DEF Tokens
<1> HIDE DEF n, k
<1> DEFINE cs == [i \in 1..n |-> <<"call", calls[i]>>]
           rs == [i \in 1..k |-> <<"result", results[i]>>]
<1>3. cs \in [1..n -> Tokens] /\ rs \in [1..k -> Tokens]
  BY <1>1, <1>2
<1>4. tool_calls_to_text(calls) = cs /\ tool_results_to_text(results) = rs
  BY DEF tool_calls_to_text, tool_results_to_text, n, k
<1> HIDE DEF cs, rs
<1>5. cs \in Seq(Tokens) /\ Len(cs) = n /\ rs \in Seq(Tokens) /\ Len(rs) = k
  BY <1>1, <1>3
<1> QED
  BY <1>4, <1>5 DEF n, k

LEMMA MessageTypes ==
    ASSUME NEW m \in OpenAIMessages \cup AnthropicMessages, NEW i \in Nat
    PROVE  /\ Spoken(m, i) \in Seq(Tokens) /\ Tool(m) \in Seq(CallIds)
           /\ extract_text_content(m, i) \in Seq(Tokens)
           /\ m.role \in {"user", "assistant", "tool", "developer"}
           /\ m.role = "tool" => m.tool \in CallIds /\ <<m.tool, m.text>> \in Answers
           /\ m.tool # None => m.tool \in CallIds /\ Tool(m) = <<m.tool>>
           /\ m.tool = None => Tool(m) = <<>>
<1>1. m.role \in {"user", "assistant", "tool", "developer"} /\ m.tool \in CallIds \cup {None} /\ m.text \in BOOLEAN
  BY DEF OpenAIMessages, AnthropicMessages, Message
<1>2. m.role = "tool" => m.tool # None
  BY DEF OpenAIMessages, AnthropicMessages, Message
<1>3. <<"text", i>> \in Tokens
  BY DEF Tokens
<1>4. Spoken(m, i) \in Seq(Tokens)
  <2> DEFINE t == <<"text", i>>
  <2> HIDE DEF t
  <2>1. t \in Tokens
    BY <1>3 DEF t
  <2>2. <<t>> \in Seq(Tokens) /\ <<>> \in Seq(Tokens)
    BY <2>1
  <2> QED
    BY <2>2 DEF Spoken, t
<1>5. Tool(m) \in Seq(CallIds)
  BY <1>1 DEF Tool
<1>6. extract_text_content(m, i) \in Seq(Tokens)
  <2>1. tool_results_to_text(ResultsOf(Tool(m))) \in Seq(Tokens)
    BY <1>5, ResultsRead, TextForms
  <2> QED
    BY <1>4, <2>1, ConcatProperties DEF extract_text_content
<1>7. m.role = "tool" => <<m.tool, m.text>> \in Answers
  BY <1>1, <1>2 DEF Answers
<1> QED
  BY <1>1, <1>2, <1>4, <1>5, <1>6, <1>7 DEF Tool

LEMMA FlushedType ==
    ASSUME NEW done \in Seq(UnifiedMessages), NEW pending \in Seq(Answers)
    PROVE  /\ Flushed(done, pending) \in Seq(UnifiedMessages)
           /\ pending = <<>> => Flushed(done, pending) = done
           /\ pending # <<>> =>
                LET u == Unified("user", <<>>, <<>>, pending, <<>>)
                IN u \in UnifiedMessages /\ Flushed(done, pending) = Append(done, u)
<1> DEFINE none == <<>>
           u == Unified("user", none, none, pending, none)
<1>1. none \in Seq(CallIds) /\ none \in Seq(Tokens)
  OBVIOUS
<1> HIDE DEF none
<1>2. u \in UnifiedMessages
  BY <1>1, UnifiedIs
<1> HIDE DEF u
<1>3. Flushed(done, pending) = IF pending = <<>> THEN done ELSE Append(done, u)
  BY DEF Flushed, u, none
<1>4. Append(done, u) \in Seq(UnifiedMessages)
  BY <1>2, AppendProperties
<1> QED
  BY <1>2, <1>3, <1>4 DEF u, none

LEMMA UnifyType ==
    ASSUME NEW acc \in Working, NEW x \in Tagged
    PROVE  Unify(acc, x[1], x[2]) \in Working
<1> DEFINE m == x[1]
           none == <<>>
           calls == IF m.role = "assistant" THEN Tool(m) ELSE none
           u == Unified(m.role, Spoken(m, x[2]), calls, None, none)
<1>1. m \in OpenAIMessages /\ x[2] \in Nat
  BY DEF Tagged
<1>2. acc.done \in Seq(UnifiedMessages) /\ acc.pending \in Seq(Answers)
  BY DEF Working
<1>3. CASE m.role = "tool"
  <2>1. <<m.tool, m.text>> \in Answers
    BY <1>1, <1>3, MessageTypes
  <2>2. Append(acc.pending, <<m.tool, m.text>>) \in Seq(Answers)
    BY <1>2, <2>1, AppendProperties
  <2> QED
    BY <1>2, <1>3, <2>2 DEF Unify, Working
<1>4. CASE m.role # "tool"
  <2>1. none \in Seq(CallIds) /\ none \in Seq(Answers)
    OBVIOUS
  <2> HIDE DEF none
  <2>2. calls \in Seq(CallIds)
    BY <1>1, <2>1, MessageTypes
  <2>3. Spoken(m, x[2]) \in Seq(Tokens) /\ m.role \in {"user", "assistant", "developer"}
    BY <1>1, <1>4, MessageTypes
  <2> HIDE DEF calls
  <2>4. u \in UnifiedMessages
    BY <2>1, <2>2, <2>3, UnifiedIs
  <2>5. Unify(acc, m, x[2]) = [done |-> Append(Flushed(acc.done, acc.pending), u), pending |-> none]
    BY <1>4 DEF Unify, calls, none
  <2> HIDE DEF u
  <2>6. Append(Flushed(acc.done, acc.pending), u) \in Seq(UnifiedMessages)
    BY <1>2, <2>4, FlushedType, AppendProperties
  <2> QED
    BY <2>1, <2>5, <2>6 DEF Working
<1> QED
  BY <1>3, <1>4

LEMMA WorkedNext ==
    /\ Worked(<<>>) = Start
    /\ \A xs \in Seq(Tagged) : Worked(xs) \in Working
    /\ \A xs \in Seq(Tagged) : \A x \in Tagged :
         Worked(Append(xs, x)) = Unify(Worked(xs), x[1], x[2])
    /\ \A ms \in Seq(OpenAIMessages) :
         /\ Numbered(ms) \in Seq(Tagged)
         /\ convert_openai_messages_to_unified(ms) =
              Flushed(Worked(Numbered(ms)).done, Worked(Numbered(ms)).pending)
<1> DEFINE S == Working
           X == Tagged
           act == [p \in S \X X |-> Unify(p[1], p[2][1], p[2][2])]
<1>1. Start \in S
  <2> DEFINE none == <<>>
  <2>1. none \in Seq(UnifiedMessages) /\ none \in Seq(Answers)
    OBVIOUS
  <2>2. Start = [done |-> none, pending |-> none]
    BY DEF Start
  <2> HIDE DEF none
  <2> QED
    BY <2>1, <2>2 DEF Working
<1>2. \A acc \in S : \A x \in X : Unify(acc, x[1], x[2]) \in S
  BY UnifyType
<1>3. \A xs : Worked(xs) = Outcome(S, Start, act, xs)
  BY DEF Worked
<1>4. \A m \in OpenAIMessages : \A i \in Nat : <<m, i>> \in X
  BY DEF Tagged
<1> HIDE DEF S, X
<1>5. act \in Acting(S, X) /\ \A acc \in S : \A x \in X : act[<<acc, x>>] = Unify(acc, x[1], x[2])
  <2>1. \A p \in S \X X : p[1] \in S /\ p[2] \in X
    OBVIOUS
  <2>2. act \in Acting(S, X)
    BY <1>2, <2>1 DEF Acting
  <2>3. ASSUME NEW acc \in S, NEW x \in X PROVE act[<<acc, x>>] = Unify(acc, x[1], x[2])
    <3>1. <<acc, x>> \in S \X X
      OBVIOUS
    <3> QED
      BY <3>1
  <2> QED
    BY <2>2, <2>3
<1> HIDE DEF act
<1>6. /\ Outcome(S, Start, act, <<>>) = Start
      /\ \A xs \in Seq(X) : Outcome(S, Start, act, xs) \in S
      /\ \A xs \in Seq(X) : \A x \in X :
           Outcome(S, Start, act, Append(xs, x)) = act[<<Outcome(S, Start, act, xs), x>>]
  BY <1>1, <1>5, OutcomeNext
<1>7. ASSUME NEW ms \in Seq(OpenAIMessages)
      PROVE  /\ Numbered(ms) \in Seq(X)
             /\ convert_openai_messages_to_unified(ms) =
                  Flushed(Worked(Numbered(ms)).done, Worked(Numbered(ms)).pending)
  <2> DEFINE n == Len(ms)
             xs == Numbered(ms)
             After(f) == [i \in 0..n |-> IF i = 0 THEN [done |-> <<>>, pending |-> <<>>]
                                         ELSE Unify(f[i - 1], ms[i], i)]
             upto == CHOOSE f : f = After(f)
             all == upto[n]
  <2>1. convert_openai_messages_to_unified(ms) = Flushed(all.done, all.pending)
    BY Zenon DEF convert_openai_messages_to_unified
  <2>2. n \in Nat /\ \A k \in 1..n : ms[k] \in OpenAIMessages /\ k \in Nat
    OBVIOUS
  <2>3. xs \in Seq(X) /\ Len(xs) = n /\ \A k \in 1..n : xs[k] = <<ms[k], k>> /\ xs[k] \in X
    <3>1. xs = [i \in 1..n |-> <<ms[i], i>>]
      BY DEF Numbered
    <3>2. \A k \in 1..n : xs[k] = <<ms[k], k>> /\ xs[k] \in X
      BY <1>4, <2>2, <3>1
    <3>3. xs \in [1..n -> X]
      BY <3>1, <3>2
    <3> HIDE DEF xs, n
    <3> QED
      BY <2>2, <3>2, <3>3
  <2> HIDE DEF xs, n
  <2>4. PICK f \in [0..n -> S] : Acts(f, Start, act, xs)
    BY <1>1, <1>5, <2>3, OneAct
  <2>5. \A x \in X : \A acc \in S : act[<<acc, x>>] = Unify(acc, x[1], x[2])
    BY <1>5
  <2>6. \A k \in 1..n : \A acc \in S : act[<<acc, xs[k]>>] = Unify(acc, ms[k], k)
    <3> SUFFICES ASSUME NEW k \in 1..n, NEW acc \in S PROVE act[<<acc, xs[k]>>] = Unify(acc, ms[k], k)
      OBVIOUS
    <3>1. xs[k] \in X /\ xs[k][1] = ms[k] /\ xs[k][2] = k
      BY <2>3
    <3> QED
      BY <2>5, <3>1
  <2>7. f = After(f)
    <3>1. ASSUME NEW k \in 0..n PROVE f[k] = After(f)[k]
      <4>1. CASE k = 0
        BY <2>4, <4>1 DEF Acts, Start
      <4>2. CASE k # 0
        <5>1. k \in 1..n /\ k - 1 \in 0..n
          BY <2>2, <4>2
        <5>2. f[k - 1] \in S
          BY <2>4, <5>1
        <5>3. f[k] = act[<<f[k - 1], xs[k]>>]
          BY <2>3, <2>4, <5>1 DEF Acts
        <5> QED
          BY <2>6, <4>2, <5>1, <5>2, <5>3
      <4> QED
        BY <4>1, <4>2
    <3> QED
      BY <2>4, <3>1
  <2>8. upto = After(upto)
    BY <2>7, Zenon
  <2> HIDE DEF upto
  <2>9. upto[0] = Start /\ \A k \in 1..n : upto[k] = Unify(upto[k - 1], ms[k], k)
    BY <2>2, <2>8 DEF Start
  <2>10. \A k \in 1..Len(xs) : upto[k - 1] \in S => upto[k] = act[<<upto[k - 1], xs[k]>>]
    BY <2>3, <2>6, <2>9
  <2>11. upto[Len(xs)] = Outcome(S, Start, act, xs)
    BY <1>1, <1>5, <2>3, <2>9, <2>10, LoopIs
  <2> QED
    BY <1>3, <2>1, <2>3, <2>11 DEF xs
<1> HIDE DEF X
<1>8. \A xs \in Seq(X) : \A x \in X : Worked(Append(xs, x)) = Unify(Worked(xs), x[1], x[2])
  BY <1>3, <1>5, <1>6
<1>9. Worked(<<>>) = Start /\ \A xs \in Seq(X) : Worked(xs) \in S
  BY <1>3, <1>6
<1> QED
  BY <1>7, <1>8, <1>9 DEF S, X

-----------------------------------------------------------------------------
(* What becomes of roles and of tool content.                              *)
Bare(u) == u.calls = <<>> /\ Results(u) = <<>> /\ u.blocks = <<>>
AllBare(us) == \A i \in 1..Len(us) : Bare(us[i])

(* Adjacent messages are of different roles.                               *)
Apart(us) == \A i \in 2..Len(us) : us[i - 1].role # us[i].role

NoDeveloper(us) == \A i \in 1..Len(us) : us[i].role # "developer"

(* Results follow the calls of an assistant, and are nowhere else.         *)
AfterCalls(us) == us # <<>> /\ Last(us).role = "assistant" /\ Last(us).calls # <<>>
Following(us) ==
    \A i \in 1..Len(us) :
      /\ us[i].blocks = <<>>
      /\ Results(us[i]) # <<>> =>
           us[i].role = "user" /\ i > 1 /\ us[i - 1].role = "assistant" /\ us[i - 1].calls # <<>>

LEMMA OneMoreMessage ==
    ASSUME NEW us \in Seq(UnifiedMessages), NEW u \in UnifiedMessages
    PROVE  /\ AllBare(Append(us, u)) <=> AllBare(us) /\ Bare(u)
           /\ Apart(Append(us, u)) <=> Apart(us) /\ (us # <<>> => Last(us).role # u.role)
           /\ NoDeveloper(Append(us, u)) <=> NoDeveloper(us) /\ u.role # "developer"
           /\ Following(Append(us, u)) <=>
                /\ Following(us) /\ u.blocks = <<>>
                /\ Results(u) # <<>> => u.role = "user" /\ AfterCalls(us)
<1> DEFINE t == Append(us, u)
           n == Len(us)
<1>1. /\ Len(t) = n + 1 /\ n \in Nat /\ t[n + 1] = u /\ \A i \in 1..n : t[i] = us[i]
  BY AppendProperties
<1>2. us # <<>> <=> n # 0
  BY EmptySeq
<1>3. Last(us) = us[n]
  BY DEF Last
<1> HIDE DEF t
<1>4. AllBare(t) <=> AllBare(us) /\ Bare(u)
  <2>1. \A i : i \in 1..(n + 1) <=> i \in 1..n \/ i = n + 1
    BY <1>1
  <2> HIDE DEF n
  <2>2. \A i \in 1..n : Bare(t[i]) <=> Bare(us[i])
    BY <1>1
  <2> QED
    BY <1>1, <2>1, <2>2 DEF AllBare, n
<1>5. NoDeveloper(t) <=> NoDeveloper(us) /\ u.role # "developer"
  <2>1. \A i : i \in 1..(n + 1) <=> i \in 1..n \/ i = n + 1
    BY <1>1
  <2> QED
    BY <1>1, <2>1 DEF NoDeveloper
<1>6. Apart(t) <=> Apart(us) /\ (us # <<>> => Last(us).role # u.role)
  <2>1. \A i : i \in 2..(n + 1) <=> i \in 2..n \/ (n # 0 /\ i = n + 1)
    BY <1>1
  <2>2. \A i \in 2..n : t[i] = us[i] /\ t[i - 1] = us[i - 1]
    BY <1>1
  <2>3. n # 0 => t[(n + 1) - 1] = us[n]
    BY <1>1
  <2> QED
    BY <1>1, <1>2, <1>3, <2>1, <2>2, <2>3 DEF Apart
<1>7. Following(t) <=>
        /\ Following(us) /\ u.blocks = <<>>
        /\ Results(u) # <<>> => u.role = "user" /\ AfterCalls(us)
  <2> DEFINE At(s, i) == /\ s[i].blocks = <<>>
                         /\ Results(s[i]) # <<>> =>
                              s[i].role = "user" /\ i > 1 /\ s[i - 1].role = "assistant" /\ s[i - 1].calls # <<>>
  <2>1. \A i : i \in 1..(n + 1) <=> i \in 1..n \/ i = n + 1
    BY <1>1
  <2>2. ASSUME NEW i \in 1..n PROVE At(t, i) <=> At(us, i)
    <3>1. t[i] = us[i]
      BY <1>1
    <3>2. i > 1 => t[i - 1] = us[i - 1]
      BY <1>1
    <3> QED
      BY <3>1, <3>2
  <2>3. At(t, n + 1) <=> u.blocks = <<>> /\ (Results(u) # <<>> => u.role = "user" /\ AfterCalls(us))
    <3>1. t[n + 1] = u /\ (n + 1 > 1 <=> us # <<>>) /\ (n + 1) - 1 = n
      BY <1>1, <1>2
    <3>2. n + 1 > 1 => t[(n + 1) - 1] = us[n]
      BY <1>1, <1>2
    <3> QED
      BY <1>3, <3>1, <3>2 DEF AfterCalls
  <2>4. /\ Following(t) <=> \A i \in 1..(n + 1) : At(t, i)
        /\ Following(us) <=> \A i \in 1..n : At(us, i)
    BY <1>1 DEF Following
  <2> HIDE DEF At
  <2> QED
    BY <2>1, <2>2, <2>3, <2>4
<1> QED
  BY <1>4, <1>5, <1>6, <1>7 DEF t

Settled(us, acc) ==
    /\ us = <<>> <=> acc = <<>>
    /\ us # <<>> => /\ Last(acc).role = Last(us).role
                    /\ Last(us).calls # <<>> /\ Last(us).role = "assistant" => Last(acc).calls # <<>>
    /\ Apart(acc)
    /\ AllBare(us) => AllBare(acc)
    /\ NoDeveloper(us) => NoDeveloper(acc)
    /\ Following(us) => Following(acc)

LEMMA SettledNext ==
    ASSUME NEW us \in Seq(UnifiedMessages), NEW acc \in Seq(UnifiedMessages), NEW u \in UnifiedMessages,
           Settled(us, acc)
    PROVE  Settled(Append(us, u), Taken(acc, u))
<1>1. Append(us, u) # <<>> /\ Last(Append(us, u)) = u
  BY LastOf
<1>2. CASE acc # <<>> /\ Last(acc).role = u.role
  <2> DEFINE front == Front(acc)
             last == Last(acc)
             m == Merged(last, u)
  <2>1. front \in Seq(UnifiedMessages) /\ last \in UnifiedMessages /\ acc = Append(front, last)
    BY <1>2, LastOf
  <2>2. Taken(acc, u) = Append(front, m)
    BY <1>2 DEF Taken
  <2>3. last.role = u.role
    BY <1>2
  <2> HIDE DEF front, last
  <2>4. /\ m \in UnifiedMessages /\ m.role = last.role /\ m.blocks = <<>>
        /\ m.calls = IF u.role = "assistant" THEN last.calls \o u.calls ELSE last.calls
        /\ m.results = IF u.role = "user" /\ u.results # None THEN Results(last) \o u.results ELSE last.results
    BY <2>1, MergedIs
  <2> HIDE DEF m
  <2>5. Results(u) = <<>> => Results(m) = Results(last)
    <3> SUFFICES ASSUME Results(u) = <<>> PROVE Results(m) = Results(last)
      OBVIOUS
    <3>1. Results(last) \in Seq(Answers)
      BY <2>1, FieldTypes
    <3>2. CASE u.role = "user" /\ u.results # None
      <4>1. u.results = <<>>
        BY <3>2 DEF Results
      <4>2. m.results = Results(last)
        BY <2>4, <3>1, <3>2, <4>1, ConcatEmptySeq
      <4> QED
        BY <4>2 DEF Results
    <3>3. CASE ~(u.role = "user" /\ u.results # None)
      BY <2>4, <3>3 DEF Results
    <3> QED
      BY <3>2, <3>3
  <2>6. us # <<>> /\ Last(us).role = u.role
    BY <1>2 DEF Settled
  <2>7. Append(front, m) # <<>> /\ Last(Append(front, m)) = m
    BY <2>1, <2>4, LastOf
  <2>8. u.calls # <<>> /\ u.role = "assistant" => m.calls # <<>>
    <3>1. last.calls \in Seq(CallIds) /\ u.calls \in Seq(CallIds)
      BY <2>1, FieldTypes
    <3> QED
      BY <2>4, <3>1, ConcatEqualIffEmpty
  <2>9. Apart(Append(front, m))
    BY <2>1, <2>4, OneMoreMessage DEF Settled
  <2>10. AllBare(Append(us, u)) => AllBare(Append(front, m))
    <3> SUFFICES ASSUME AllBare(Append(us, u)) PROVE AllBare(Append(front, m))
      OBVIOUS
    <3>1. AllBare(us) /\ Bare(u)
      BY OneMoreMessage
    <3>2. AllBare(front) /\ Bare(last)
      BY <2>1, <3>1, OneMoreMessage DEF Settled
    <3>3. Bare(m)
      <4>1. <<>> \o <<>> = <<>>
        OBVIOUS
      <4> QED
        BY <2>4, <2>5, <3>1, <3>2, <4>1 DEF Bare
    <3> QED
      BY <2>1, <2>4, <3>2, <3>3, OneMoreMessage
  <2>11. NoDeveloper(Append(us, u)) => NoDeveloper(Append(front, m))
    BY <2>1, <2>4, OneMoreMessage DEF Settled
  <2>12. Following(Append(us, u)) => Following(Append(front, m))
    <3> SUFFICES ASSUME Following(Append(us, u)) PROVE Following(Append(front, m))
      OBVIOUS
    <3>1. Following(us) /\ (Results(u) # <<>> => u.role = "user" /\ AfterCalls(us))
      BY OneMoreMessage
    <3>2. Results(u) = <<>>
      BY <2>6, <3>1 DEF AfterCalls
    <3>3. Following(front) /\ (Results(last) # <<>> => last.role = "user" /\ AfterCalls(front))
      BY <2>1, <3>1, OneMoreMessage DEF Settled
    <3>4. Results(m) # <<>> => m.role = "user" /\ AfterCalls(front)
      BY <2>4, <2>5, <3>2, <3>3 DEF AfterCalls
    <3> QED
      BY <2>1, <2>4, <3>3, <3>4, OneMoreMessage
  <2> QED
    BY <1>1, <2>2, <2>3, <2>4, <2>7, <2>8, <2>9, <2>10, <2>11, <2>12 DEF Settled
<1>3. CASE ~(acc # <<>> /\ Last(acc).role = u.role)
  <2>1. Taken(acc, u) = Append(acc, u)
    BY <1>3 DEF Taken
  <2>2. Append(acc, u) # <<>> /\ Last(Append(acc, u)) = u
    BY LastOf
  <2>3. /\ AllBare(Append(us, u)) => AllBare(Append(acc, u))
        /\ NoDeveloper(Append(us, u)) => NoDeveloper(Append(acc, u))
        /\ Apart(Append(acc, u))
    BY <1>3, OneMoreMessage DEF Settled
  <2>4. Following(Append(us, u)) => Following(Append(acc, u))
    <3> SUFFICES ASSUME Following(Append(us, u)) PROVE Following(Append(acc, u))
      OBVIOUS
    <3>1. Following(us) /\ u.blocks = <<>> /\ (Results(u) # <<>> => u.role = "user" /\ AfterCalls(us))
      BY OneMoreMessage
    <3>2. AfterCalls(us) => AfterCalls(acc)
      BY DEF AfterCalls, Settled
    <3>3. Following(acc)
      BY <3>1 DEF Settled
    <3> QED
      BY <3>1, <3>2, <3>3, OneMoreMessage
  <2> QED
    BY <1>1, <2>1, <2>2, <2>3, <2>4 DEF Settled
<1> QED
  BY <1>2, <1>3

LEMMA MergeSettles == \A us \in Seq(UnifiedMessages) : Settled(us, merge_adjacent_messages(us))
<1> DEFINE P == {us \in Seq(UnifiedMessages) : Settled(us, merge_adjacent_messages(us))}
<1>1. <<>> \in P
  <2>1. <<>> \in Seq(UnifiedMessages) /\ 2..Len(<<>>) = {}
    OBVIOUS
  <2>2. Apart(<<>>)
    BY <2>1 DEF Apart
  <2> QED
    BY <2>1, <2>2, MergeNext DEF Settled
<1>2. ASSUME NEW us \in Seq(UnifiedMessages), NEW u \in UnifiedMessages, us \in P
      PROVE  Append(us, u) \in P
  BY <1>2, MergeNext, SettledNext, AppendProperties
<1> HIDE DEF P
<1>3. Seq(UnifiedMessages) \subseteq P
  BY <1>1, <1>2, OneByOne
<1> QED
  BY <1>3 DEF P

(* The same of entries.                                                    *)
Empty(e) == e.results = <<>> /\ e.uses = <<>>
AllEmpty(es) == \A i \in 1..Len(es) : Empty(es[i])
Alternates(es) == \A i \in 1..Len(es) : es[i].who = IF i % 2 = 1 THEN "user" ELSE "assistant"
AfterUses(es) == es # <<>> /\ Last(es).who = "assistant" /\ Last(es).uses # <<>>
Allowed(es) ==
    \A i \in 1..Len(es) :
      es[i].results # <<>> => i > 1 /\ es[i - 1].who = "assistant" /\ es[i - 1].uses # <<>>

LEMMA OneMoreEntry ==
    ASSUME NEW es \in Seq(KiroEntries), NEW e \in KiroEntries
    PROVE  /\ AllEmpty(Append(es, e)) <=> AllEmpty(es) /\ Empty(e)
           /\ Allowed(Append(es, e)) <=> Allowed(es) /\ (e.results # <<>> => AfterUses(es))
           /\ Alternates(es) /\ (IF es = <<>> THEN e.who = "user" ELSE Last(es).who # e.who)
                => Alternates(Append(es, e))
<1> DEFINE t == Append(es, e)
           n == Len(es)
<1>1. /\ Len(t) = n + 1 /\ n \in Nat /\ t[n + 1] = e /\ \A i \in 1..n : t[i] = es[i]
  BY AppendProperties
<1>2. es # <<>> <=> n # 0
  BY EmptySeq
<1>3. Last(es) = es[n]
  BY DEF Last
<1>4. e.who \in {"user", "assistant"} /\ \A i \in 1..n : es[i] \in KiroEntries
  <2>1. \A i \in 1..n : es[i] \in KiroEntries
    OBVIOUS
  <2> QED
    BY <2>1 DEF KiroEntries
<1> HIDE DEF t, n
<1>5. \A i : i \in 1..(n + 1) <=> i \in 1..n \/ i = n + 1
  BY <1>1
<1>6. AllEmpty(t) <=> AllEmpty(es) /\ Empty(e)
  <2>1. \A i \in 1..n : Empty(t[i]) <=> Empty(es[i])
    BY <1>1
  <2> QED
    BY <1>1, <1>5, <2>1 DEF AllEmpty, n
<1>7. Allowed(t) <=> Allowed(es) /\ (e.results # <<>> => AfterUses(es))
  <2> DEFINE At(s, i) == s[i].results # <<>> => i > 1 /\ s[i - 1].who = "assistant" /\ s[i - 1].uses # <<>>
  <2>1. ASSUME NEW i \in 1..n PROVE At(t, i) <=> At(es, i)
    <3>1. t[i] = es[i]
      BY <1>1
    <3>2. i > 1 => t[i - 1] = es[i - 1]
      BY <1>1
    <3> QED
      BY <3>1, <3>2
  <2>2. At(t, n + 1) <=> (e.results # <<>> => AfterUses(es))
    <3>1. t[n + 1] = e /\ (n + 1 > 1 <=> es # <<>>) /\ (n + 1) - 1 = n
      BY <1>1, <1>2
    <3>2. n + 1 > 1 => t[(n + 1) - 1] = es[n]
      BY <1>1, <1>2
    <3> QED
      BY <1>3, <3>1, <3>2 DEF AfterUses
  <2>3. /\ Allowed(t) <=> \A i \in 1..(n + 1) : At(t, i)
        /\ Allowed(es) <=> \A i \in 1..n : At(es, i)
    BY <1>1 DEF Allowed, n
  <2> HIDE DEF At
  <2> QED
    BY <1>5, <2>1, <2>2, <2>3
<1>8. ASSUME Alternates(es), IF es = <<>> THEN e.who = "user" ELSE Last(es).who # e.who
      PROVE  Alternates(t)
  <2>1. \A i \in 1..n : t[i].who = IF i % 2 = 1 THEN "user" ELSE "assistant"
    BY <1>1, <1>8 DEF Alternates, n
  <2>2. t[n + 1].who = IF (n + 1) % 2 = 1 THEN "user" ELSE "assistant"
    <3>1. (n + 1) % 2 = 1 <=> n % 2 # 1
      BY <1>1, Parity
    <3>2. CASE es = <<>>
      <4>1. n = 0 /\ 0 % 2 = 0
        BY <1>2, <3>2
      <4> QED
        BY <1>1, <1>8, <3>1, <3>2, <4>1
    <3>3. CASE es # <<>>
      <4>1. n \in 1..n
        BY <1>1, <1>2, <3>3
      <4>2. es[n].who = IF n % 2 = 1 THEN "user" ELSE "assistant"
        BY <1>8, <4>1 DEF Alternates, n
      <4> QED
        BY <1>1, <1>3, <1>4, <1>8, <3>1, <3>3, <4>1, <4>2
    <3> QED
      BY <3>2, <3>3
  <2> QED
    BY <1>1, <1>5, <2>1, <2>2 DEF Alternates
<1> QED
  BY <1>6, <1>7, <1>8 DEF t

Related(us, es) ==
    /\ Apart(us) /\ NoDeveloper(us) =>
         /\ Alternates(es)
         /\ us = <<>> <=> es = <<>>
         /\ us # <<>> => Last(es).who = Last(us).role
    /\ AllBare(us) => AllEmpty(es)
    /\ Following(us) => Allowed(es)
    /\ us # <<>> /\ Last(us).role = "assistant" =>
         es # <<>> /\ Last(es).who = "assistant" /\ (Last(us).calls # <<>> => Last(es).uses # <<>>)

LEMMA RelatedNext ==
    ASSUME NEW us \in Seq(UnifiedMessages), NEW es \in Seq(KiroEntries), NEW u \in UnifiedMessages,
           Related(us, es)
    PROVE  Related(Append(us, u), Entered(es, u))
<1> DEFINE t == Append(us, u)
<1>1. t # <<>> /\ Last(t) = u
  BY LastOf
<1>2. /\ AllBare(t) <=> AllBare(us) /\ Bare(u)
      /\ Apart(t) <=> Apart(us) /\ (us # <<>> => Last(us).role # u.role)
      /\ NoDeveloper(t) <=> NoDeveloper(us) /\ u.role # "developer"
      /\ Following(t) <=> /\ Following(us) /\ u.blocks = <<>>
                          /\ Results(u) # <<>> => u.role = "user" /\ AfterCalls(us)
  BY OneMoreMessage
<1>3. u.role \in {"user", "assistant", "developer"} /\ (us # <<>> => Last(us).role \in {"user", "assistant", "developer"})
  BY FieldTypes, LastOf
<1> HIDE DEF t
<1>4. CASE u.role = "user"
  <2> DEFINE e == build_kiro_user_input(u)
  <2>1. e \in KiroEntries /\ e.who = "user" /\ e.uses = <<>> /\ e.results = ToolResults(u)
    BY InputIs
  <2>2. Entered(es, u) = Append(es, e)
    BY <1>4 DEF Entered
  <2> HIDE DEF e
  <2>3. Append(es, e) # <<>> /\ Last(Append(es, e)) = e
    BY <2>1, LastOf
  <2>4. Apart(t) /\ NoDeveloper(t) => Alternates(Append(es, e))
    <3> SUFFICES ASSUME Apart(t), NoDeveloper(t) PROVE Alternates(Append(es, e))
      OBVIOUS
    <3>1. Alternates(es) /\ (us = <<>> <=> es = <<>>) /\ (us # <<>> => Last(es).who = Last(us).role)
      BY <1>2 DEF Related
    <3>2. us # <<>> => Last(us).role # "user"
      BY <1>2, <1>4
    <3> QED
      BY <2>1, <3>1, <3>2, OneMoreEntry
  <2>5. AllBare(t) => AllEmpty(Append(es, e))
    <3> SUFFICES ASSUME AllBare(t) PROVE AllEmpty(Append(es, e))
      OBVIOUS
    <3>1. AllEmpty(es) /\ Bare(u)
      BY <1>2 DEF Related
    <3>2. ToolResults(u) = <<>>
      BY <3>1, FieldTypes, ResultsRead DEF Bare, ToolResults, Results
    <3> QED
      BY <2>1, <3>1, <3>2, OneMoreEntry DEF Empty
  <2>6. Following(t) => Allowed(Append(es, e))
    <3> SUFFICES ASSUME Following(t) PROVE Allowed(Append(es, e))
      OBVIOUS
    <3>1. Allowed(es) /\ u.blocks = <<>> /\ (Results(u) # <<>> => AfterCalls(us))
      BY <1>2 DEF Related
    <3>2. ToolResults(u) = Results(u)
      BY <1>4, <3>1, FieldTypes, ResultsRead DEF ToolResults, Results
    <3>3. AfterCalls(us) => AfterUses(es)
      BY DEF AfterCalls, AfterUses, Related
    <3> QED
      BY <2>1, <3>1, <3>2, <3>3, OneMoreEntry
  <2> QED
    BY <1>1, <1>4, <2>1, <2>2, <2>3, <2>4, <2>5, <2>6 DEF Related, t
<1>5. CASE u.role = "assistant"
  <2> DEFINE syn == synthetic_user_input
             before == IF es # <<>> /\ Last(es).who = "user" THEN es ELSE Append(es, syn)
             e == build_kiro_assistant_response(u)
  <2>1. /\ e \in KiroEntries /\ e.who = "assistant" /\ e.uses = extract_tool_uses_from_message(u) /\ e.results = <<>>
        /\ syn \in KiroEntries /\ syn.who = "user" /\ syn.uses = <<>> /\ syn.results = <<>>
    BY InputIs
  <2>2. Entered(es, u) = Append(before, e)
    BY <1>5 DEF Entered
  <2>3. (u.calls # <<>> => e.uses # <<>>) /\ (Bare(u) => e.uses = <<>>)
    BY <2>1, UsesListed DEF Bare
  <2> HIDE DEF e, syn
  <2>4. before \in Seq(KiroEntries) /\ before # <<>> /\ Last(before).who = "user"
    BY <2>1, LastOf, AppendProperties
  <2>5. (AllEmpty(es) => AllEmpty(before)) /\ (Allowed(es) => Allowed(before))
    BY <2>1, OneMoreEntry DEF Empty
  <2>6. Apart(t) /\ NoDeveloper(t) => Alternates(before)
    <3> SUFFICES ASSUME Apart(t), NoDeveloper(t) PROVE Alternates(before)
      OBVIOUS
    <3>1. Alternates(es) /\ (us = <<>> <=> es = <<>>) /\ (us # <<>> => Last(es).who = Last(us).role)
      BY <1>2 DEF Related
    <3>2. us # <<>> => Last(us).role = "user"
      <4> SUFFICES ASSUME us # <<>> PROVE Last(us).role = "user"
        OBVIOUS
      <4>1. Last(us).role # "developer"
        <5>1. NoDeveloper(us)
          BY <1>2
        <5>2. Len(us) \in 1..Len(us)
          BY EmptySeq
        <5> QED
          BY <5>1, <5>2 DEF NoDeveloper, Last
      <4> QED
        BY <1>2, <1>3, <1>5, <4>1
    <3> QED
      BY <2>1, <3>1, <3>2, OneMoreEntry
  <2> HIDE DEF before
  <2>7. Append(before, e) # <<>> /\ Last(Append(before, e)) = e
    <3>1. before \in Seq(KiroEntries) /\ e \in KiroEntries
      BY <2>1, <2>4
    <3> QED
      BY <3>1, LastOf
  <2>8. Alternates(before) => Alternates(Append(before, e))
    BY <2>1, <2>4, OneMoreEntry
  <2>9. AllBare(t) => AllEmpty(Append(before, e))
    <3> SUFFICES ASSUME AllBare(t) PROVE AllEmpty(Append(before, e))
      OBVIOUS
    <3>1. AllEmpty(es) /\ Bare(u)
      BY <1>2 DEF Related
    <3>2. AllEmpty(before) /\ Empty(e)
      BY <2>1, <2>3, <2>5, <3>1 DEF Empty
    <3> QED
      BY <2>1, <2>4, <3>2, OneMoreEntry
  <2>10. Following(t) => Allowed(Append(before, e))
    <3> SUFFICES ASSUME Following(t) PROVE Allowed(Append(before, e))
      OBVIOUS
    <3>1. Allowed(before)
      BY <1>2, <2>5 DEF Related
    <3> QED
      BY <2>1, <2>4, <3>1, OneMoreEntry
  <2> QED
    BY <1>1, <1>5, <2>1, <2>2, <2>3, <2>6, <2>7, <2>8, <2>9, <2>10 DEF Related, t
<1>6. CASE u.role = "developer"
  <2>1. Entered(es, u) = es
    BY <1>6 DEF Entered
  <2> QED
    BY <1>1, <1>2, <1>6, <2>1 DEF Related, t
<1> QED
  BY <1>3, <1>4, <1>5, <1>6 DEF t

LEMMA HistoryRelates == \A us \in Seq(UnifiedMessages) : Related(us, build_kiro_history(us))
<1> DEFINE P == {us \in Seq(UnifiedMessages) : Related(us, build_kiro_history(us))}
<1>1. <<>> \in P
  <2>1. <<>> \in Seq(UnifiedMessages) /\ 1..Len(<<>>) = {}
    OBVIOUS
  <2>2. Alternates(<<>>) /\ AllEmpty(<<>>) /\ Allowed(<<>>)
    BY <2>1 DEF Alternates, AllEmpty, Allowed
  <2> QED
    BY <2>1, <2>2, HistoryNext DEF Related
<1>2. ASSUME NEW us \in Seq(UnifiedMessages), NEW u \in UnifiedMessages, us \in P
      PROVE  Append(us, u) \in P
  BY <1>2, HistoryNext, RelatedNext, AppendProperties
<1> HIDE DEF P
<1>3. Seq(UnifiedMessages) \subseteq P
  BY <1>1, <1>2, OneByOne
<1> QED
  BY <1>3 DEF P

(* What the conversions of the two APIs promise.                           *)
Plain(u) == u.blocks = <<>> /\ (Results(u) # <<>> => u.role = "user")
AllPlain(us) == \A i \in 1..Len(us) : Plain(us[i])
Copied(us) == \A i \in 1..Len(us) : us[i].calls = <<>> /\ Results(us[i]) = <<>> => us[i].blocks = <<>>

LEMMA OneMorePlain ==
    ASSUME NEW us \in Seq(UnifiedMessages), NEW u \in UnifiedMessages
    PROVE  AllPlain(Append(us, u)) <=> AllPlain(us) /\ Plain(u)
<1> DEFINE t == Append(us, u)
           n == Len(us)
<1>1. /\ Len(t) = n + 1 /\ n \in Nat /\ t[n + 1] = u /\ \A i \in 1..n : t[i] = us[i]
  BY AppendProperties
<1> HIDE DEF t, n
<1>2. \A i : i \in 1..(n + 1) <=> i \in 1..n \/ i = n + 1
  BY <1>1
<1>3. \A i \in 1..n : Plain(t[i]) <=> Plain(us[i])
  BY <1>1
<1>4. AllPlain(t) <=> AllPlain(us) /\ Plain(u)
  BY <1>1, <1>2, <1>3 DEF AllPlain, n
<1> QED
  BY <1>4 DEF t

HandledIs(us, vs, tools) ==
    /\ vs \in Seq(UnifiedMessages) /\ Len(vs) = Len(us)
    /\ \A i \in 1..Len(us) : vs[i].role = us[i].role
    /\ ~tools /\ Copied(us) => AllBare(vs)
    /\ tools /\ AllPlain(us) => Following(vs)

LEMMA Handles ==
    ASSUME NEW us \in Seq(UnifiedMessages), NEW tools \in BOOLEAN
    PROVE  HandledIs(us, ToolsHandled(us, tools), tools)
<1> DEFINE n == Len(us)
           vs == ToolsHandled(us, tools)
<1>1. n \in Nat /\ \A i \in 1..n : us[i] \in UnifiedMessages
  OBVIOUS
<1>2. CASE tools
  <2> DEFINE apart(i) == i > 1 /\ us[i - 1].role = "assistant" /\ us[i - 1].calls # <<>>
             new(i) == IF Results(us[i]) # <<>> /\ ~apart(i) THEN [us[i] EXCEPT !.results = None] ELSE us[i]
  <2>1. vs = [i \in 1..n |-> new(i)]
    BY <1>2 DEF ToolsHandled, ensure_assistant_before_tool_results
  <2>2. ASSUME NEW i \in 1..n
        PROVE  /\ new(i) \in UnifiedMessages /\ new(i).role = us[i].role /\ new(i).calls = us[i].calls
               /\ new(i).blocks = us[i].blocks
               /\ Results(new(i)) # <<>> => Results(us[i]) # <<>> /\ apart(i)
    <3>1. us[i] \in UnifiedMessages
      BY <1>1
    <3>2. CASE Results(us[i]) # <<>> /\ ~apart(i)
      <4>1. new(i) = [us[i] EXCEPT !.results = None]
        BY <3>2
      <4> HIDE DEF new
      <4>2. new(i) \in UnifiedMessages /\ new(i).role = us[i].role /\ new(i).calls = us[i].calls
            /\ new(i).blocks = us[i].blocks /\ new(i).results = None
        BY <3>1, <4>1 DEF UnifiedMessages
      <4> QED
        BY <4>2 DEF Results
    <3>3. CASE ~(Results(us[i]) # <<>> /\ ~apart(i))
      BY <3>1, <3>3
    <3> QED
      BY <3>2, <3>3
  <2>3. vs \in [1..n -> UnifiedMessages] /\ \A i \in 1..n : vs[i] = new(i)
    BY <2>1, <2>2
  <2> HIDE DEF vs, n, new
  <2>4. vs \in Seq(UnifiedMessages) /\ Len(vs) = n
    BY <1>1, <2>3
  <2>5. \A i \in 1..n : vs[i].role = us[i].role
    BY <2>2, <2>3
  <2>6. AllPlain(us) => Following(vs)
    <3> SUFFICES ASSUME AllPlain(us) PROVE Following(vs)
      OBVIOUS
    <3>1. ASSUME NEW i \in 1..n
          PROVE  /\ vs[i].blocks = <<>>
                 /\ Results(vs[i]) # <<>> =>
                      vs[i].role = "user" /\ i > 1 /\ vs[i - 1].role = "assistant" /\ vs[i - 1].calls # <<>>
      <4>1. Plain(us[i])
        BY DEF AllPlain, n
      <4>2. vs[i].blocks = <<>>
        BY <2>2, <2>3, <4>1 DEF Plain
      <4>3. ASSUME Results(vs[i]) # <<>>
            PROVE  vs[i].role = "user" /\ i > 1 /\ vs[i - 1].role = "assistant" /\ vs[i - 1].calls # <<>>
        <5>1. Results(us[i]) # <<>> /\ apart(i)
          BY <2>2, <2>3, <4>3
        <5>2. vs[i].role = "user"
          BY <2>5, <4>1, <5>1 DEF Plain
        <5>3. i - 1 \in 1..n
          BY <1>1, <5>1
        <5>4. vs[i - 1].role = us[i - 1].role /\ vs[i - 1].calls = us[i - 1].calls
          BY <2>2, <2>3, <5>3
        <5> QED
          BY <5>1, <5>2, <5>4
      <4> QED
        BY <4>2, <4>3
    <3> QED
      BY <2>4, <3>1 DEF Following
  <2> QED
    BY <1>2, <2>4, <2>5, <2>6 DEF HandledIs, vs, n
<1>3. CASE ~tools
  <2> DEFINE text(u) == u.text \o tool_calls_to_text(u.calls) \o tool_results_to_text(Results(u))
             none == <<>>
             bare(u) == Unified(u.role, text(u), none, None, none)
             new(i) == IF us[i].calls = <<>> /\ Results(us[i]) = <<>> THEN us[i] ELSE bare(us[i])
  <2>1. vs = [i \in 1..n |-> new(i)]
    BY <1>3 DEF ToolsHandled, strip_all_tool_content
  <2>2. ASSUME NEW u \in UnifiedMessages
        PROVE  bare(u) \in UnifiedMessages /\ bare(u).role = u.role /\ Bare(bare(u))
    <3>1. text(u) \in Seq(Tokens)
      BY FieldTypes, TextForms, ConcatProperties
    <3>2. none \in Seq(CallIds) /\ u.role \in {"user", "assistant", "developer"}
      BY FieldTypes
    <3> HIDE DEF text, none
    <3>3. bare(u) \in UnifiedMessages /\ bare(u).role = u.role /\ bare(u).calls = none
          /\ bare(u).results = None /\ bare(u).blocks = none
      BY <3>1, <3>2, UnifiedIs
    <3> HIDE DEF bare
    <3> QED
      BY <3>3 DEF Bare, Results, none
  <2> HIDE DEF bare
  <2>3. vs \in [1..n -> UnifiedMessages] /\ \A i \in 1..n : vs[i] = new(i)
    BY <1>1, <2>1, <2>2
  <2> HIDE DEF vs, n
  <2>4. vs \in Seq(UnifiedMessages) /\ Len(vs) = n
    BY <1>1, <2>3
  <2>5. \A i \in 1..n : vs[i].role = us[i].role
    BY <1>1, <2>2, <2>3
  <2>6. Copied(us) => AllBare(vs)
    <3> SUFFICES ASSUME Copied(us), NEW i \in 1..n PROVE Bare(vs[i])
      BY <2>4 DEF AllBare
    <3>1. CASE us[i].calls = <<>> /\ Results(us[i]) = <<>>
      <4>1. us[i].blocks = <<>>
        BY <3>1 DEF Copied, n
      <4> QED
        BY <2>3, <3>1, <4>1 DEF Bare
    <3>2. CASE ~(us[i].calls = <<>> /\ Results(us[i]) = <<>>)
      BY <1>1, <2>2, <2>3, <3>2
    <3> QED
      BY <3>1, <3>2
  <2> QED
    BY <1>3, <2>4, <2>5, <2>6 DEF HandledIs, vs, n
<1> QED
  BY <1>2, <1>3 DEF n, vs

(* The loop over OpenAI messages.                                          *)
Undeveloped(xs) == \A i \in 1..Len(xs) : xs[i][1].role # "developer"

LEMMA OneMoreTagged ==
    ASSUME NEW xs \in Seq(Tagged), NEW x \in Tagged
    PROVE  Undeveloped(Append(xs, x)) <=> Undeveloped(xs) /\ x[1].role # "developer"
<1> DEFINE t == Append(xs, x)
           n == Len(xs)
<1>1. /\ Len(t) = n + 1 /\ n \in Nat /\ t[n + 1] = x /\ \A i \in 1..n : t[i] = xs[i]
  BY AppendProperties
<1> HIDE DEF t, n
<1>2. \A i : i \in 1..(n + 1) <=> i \in 1..n \/ i = n + 1
  BY <1>1
<1>3. Undeveloped(t) <=> Undeveloped(xs) /\ x[1].role # "developer"
  BY <1>1, <1>2 DEF Undeveloped, n
<1> QED
  BY <1>3 DEF t

Loop(xs, acc) ==
    /\ AllPlain(acc.done)
    /\ Undeveloped(xs) => NoDeveloper(acc.done)
    /\ xs # <<>> => IF Last(xs)[1].role = "tool" THEN acc.pending # <<>>
                    ELSE /\ acc.pending = <<>> /\ acc.done # <<>>
                         /\ Last(acc.done).role = Last(xs)[1].role

FlushedIs(done, us) ==
    /\ AllPlain(done) => AllPlain(us)
    /\ NoDeveloper(done) => NoDeveloper(us)

LEMMA FlushKeeps ==
    ASSUME NEW done \in Seq(UnifiedMessages), NEW pending \in Seq(Answers)
    PROVE  /\ FlushedIs(done, Flushed(done, pending))
           /\ pending # <<>> => /\ Flushed(done, pending) # <<>>
                                /\ Last(Flushed(done, pending)).role = "user"
<1>1. CASE pending = <<>>
  BY <1>1, FlushedType DEF FlushedIs
<1>2. CASE pending # <<>>
  <2> DEFINE u == Unified("user", <<>>, <<>>, pending, <<>>)
  <2>1. u \in UnifiedMessages /\ Flushed(done, pending) = Append(done, u)
    BY <1>2, FlushedType
  <2>2. u.role = "user" /\ u.blocks = <<>>
    BY DEF Unified
  <2> HIDE DEF u
  <2>3. Plain(u)
    BY <2>2 DEF Plain
  <2>4. AllPlain(done) => AllPlain(Append(done, u))
    BY <2>1, <2>3, OneMorePlain
  <2>5. NoDeveloper(done) => NoDeveloper(Append(done, u))
    BY <2>1, <2>2, OneMoreMessage
  <2>6. Append(done, u) # <<>> /\ Last(Append(done, u)) = u
    BY <2>1, LastOf
  <2> QED
    BY <2>1, <2>2, <2>4, <2>5, <2>6 DEF FlushedIs
<1> QED
  BY <1>1, <1>2

LEMMA LoopNext ==
    ASSUME NEW xs \in Seq(Tagged), NEW acc \in Working, NEW x \in Tagged, Loop(xs, acc)
    PROVE  Loop(Append(xs, x), Unify(acc, x[1], x[2]))
<1> DEFINE m == x[1]
           none == <<>>
           calls == IF m.role = "assistant" THEN Tool(m) ELSE none
           u == Unified(m.role, Spoken(m, x[2]), calls, None, none)
           flushed == Flushed(acc.done, acc.pending)
<1>1. m \in OpenAIMessages /\ x[2] \in Nat
  BY DEF Tagged
<1>2. acc.done \in Seq(UnifiedMessages) /\ acc.pending \in Seq(Answers)
  BY DEF Working
<1>3. Append(xs, x) # <<>> /\ Last(Append(xs, x)) = x
  BY LastOf
<1>4. Undeveloped(Append(xs, x)) <=> Undeveloped(xs) /\ m.role # "developer"
  BY OneMoreTagged
<1>5. CASE m.role = "tool"
  <2> DEFINE a == <<m.tool, m.text>>
  <2>1. a \in Answers
    BY <1>1, <1>5, MessageTypes
  <2>2. Append(acc.pending, a) # <<>>
    BY <1>2, <2>1, LastOf
  <2>3. Unify(acc, m, x[2]).done = acc.done /\ Unify(acc, m, x[2]).pending = Append(acc.pending, a)
    BY <1>5 DEF Unify
  <2> QED
    BY <1>3, <1>4, <1>5, <2>2, <2>3 DEF Loop
<1>6. CASE m.role # "tool"
  <2>1. none \in Seq(CallIds)
    OBVIOUS
  <2>2. Unify(acc, m, x[2]) = [done |-> Append(flushed, u), pending |-> none]
    BY <1>6 DEF Unify
  <2> HIDE DEF none
  <2>3. calls \in Seq(CallIds)
    BY <1>1, <2>1, MessageTypes
  <2>4. Spoken(m, x[2]) \in Seq(Tokens) /\ m.role \in {"user", "assistant", "developer"}
    BY <1>1, <1>6, MessageTypes
  <2> HIDE DEF calls
  <2>5. u \in UnifiedMessages /\ u.role = m.role /\ u.results = None /\ u.blocks = none
    BY <2>1, <2>3, <2>4, UnifiedIs
  <2>6. flushed \in Seq(UnifiedMessages) /\ FlushedIs(acc.done, flushed)
    BY <1>2, FlushedType, FlushKeeps
  <2> HIDE DEF u, flushed
  <2>7. Plain(u)
    BY <2>5 DEF Plain, Results, none
  <2>8. AllPlain(Append(flushed, u))
    BY <2>5, <2>6, <2>7, OneMorePlain DEF Loop, FlushedIs
  <2>9. Undeveloped(Append(xs, x)) => NoDeveloper(Append(flushed, u))
    BY <1>4, <2>5, <2>6, OneMoreMessage DEF Loop, FlushedIs
  <2>10. Append(flushed, u) # <<>> /\ Last(Append(flushed, u)) = u
    BY <2>5, <2>6, LastOf
  <2> QED
    BY <1>3, <1>6, <2>2, <2>5, <2>8, <2>9, <2>10 DEF Loop, none
<1> QED
  BY <1>5, <1>6

LEMMA LoopHolds == \A xs \in Seq(Tagged) : Loop(xs, Worked(xs))
<1> DEFINE P == {xs \in Seq(Tagged) : Loop(xs, Worked(xs))}
<1>1. <<>> \in P
  <2>1. <<>> \in Seq(Tagged) /\ 1..Len(<<>>) = {}
    OBVIOUS
  <2>2. Start.done = <<>>
    BY DEF Start
  <2> QED
    BY <2>1, <2>2, WorkedNext DEF Loop, AllPlain, NoDeveloper
<1>2. ASSUME NEW xs \in Seq(Tagged), NEW x \in Tagged, xs \in P PROVE Append(xs, x) \in P
  <2>1. Loop(Append(xs, x), Unify(Worked(xs), x[1], x[2]))
    BY <1>2, WorkedNext, LoopNext
  <2> QED
    BY <2>1, WorkedNext, AppendProperties
<1> HIDE DEF P
<1>3. Seq(Tagged) \subseteq P
  BY <1>1, <1>2, OneByOne
<1> QED
  BY <1>3 DEF P

(* What the unified form keeps of a request's messages.                    *)
UnifiedFrom(ms, us) ==
    /\ us \in Seq(UnifiedMessages) /\ us # <<>>
    /\ Copied(us)
    /\ (\A i \in 1..Len(ms) : ms[i].role # "developer") => NoDeveloper(us)
    /\ Last(us).role = "assistant" => Last(ms).role = "assistant"

LEMMA OpenAIUnified ==
    ASSUME NEW ms \in Seq(OpenAIMessages), ms # <<>>
    PROVE  LET us == convert_openai_messages_to_unified(ms) IN UnifiedFrom(ms, us) /\ AllPlain(us)
<1> DEFINE xs == Numbered(ms)
           n == Len(ms)
           acc == Worked(xs)
           us == Flushed(acc.done, acc.pending)
<1>1. xs \in Seq(Tagged) /\ convert_openai_messages_to_unified(ms) = us
  BY WorkedNext
<1>2. n \in Nat /\ n # 0 /\ Len(xs) = n /\ \A i \in 1..n : xs[i][1] = ms[i]
  BY EmptySeq DEF Numbered
<1> HIDE DEF xs
<1>3. xs # <<>> /\ Last(xs)[1] = Last(ms)
  BY <1>1, <1>2, EmptySeq DEF Last
<1>4. acc \in Working /\ Loop(xs, acc)
  BY <1>1, WorkedNext, LoopHolds
<1>5. acc.done \in Seq(UnifiedMessages) /\ acc.pending \in Seq(Answers)
  BY <1>4 DEF Working
<1> HIDE DEF acc
<1>6. FlushedIs(acc.done, us) /\ us \in Seq(UnifiedMessages)
  BY <1>5, FlushKeeps, FlushedType
<1>7. AllPlain(us)
  BY <1>4, <1>6 DEF Loop, FlushedIs
<1>8. (\A i \in 1..n : ms[i].role # "developer") => NoDeveloper(us)
  BY <1>2, <1>4, <1>6 DEF Loop, FlushedIs, Undeveloped
<1>9. us # <<>> /\ (Last(us).role = "assistant" => Last(ms).role = "assistant")
  <2>1. CASE Last(ms).role = "tool"
    <3>1. acc.pending # <<>>
      BY <1>3, <1>4, <2>1 DEF Loop
    <3> QED
      BY <1>5, <3>1, FlushKeeps
  <2>2. CASE Last(ms).role # "tool"
    <3>1. acc.pending = <<>> /\ acc.done # <<>> /\ Last(acc.done).role = Last(ms).role
      BY <1>3, <1>4, <2>2 DEF Loop
    <3> QED
      BY <1>5, <3>1, FlushedType
  <2> QED
    BY <2>1, <2>2
<1> HIDE DEF us
<1>10. Copied(us)
  BY <1>7 DEF AllPlain, Plain, Copied
<1> QED
  BY <1>1, <1>6, <1>7, <1>8, <1>9, <1>10 DEF UnifiedFrom

LEMMA AnthropicUnified ==
    ASSUME NEW ms \in Seq(AnthropicMessages), ms # <<>>
    PROVE  UnifiedFrom(ms, convert_anthropic_messages(ms))
<1> DEFINE n == Len(ms)
           us == convert_anthropic_messages(ms)
           none == <<>>
           new(m, i) == IF m.role = "assistant"
                        THEN Unified("assistant", extract_text_content(m, i), Tool(m), None, Tool(m))
                        ELSE Unified("user", extract_text_content(m, i), none,
                                     IF m.tool = None THEN None ELSE ResultsOf(Tool(m)), Tool(m))
<1>1. n \in Nat /\ n # 0 /\ \A i \in 1..n : ms[i] \in AnthropicMessages /\ i \in Nat
  BY EmptySeq
<1>2. us = [i \in 1..n |-> new(ms[i], i)]
  BY DEF convert_anthropic_messages
<1>3. ASSUME NEW m \in AnthropicMessages, NEW i \in Nat
      PROVE  /\ new(m, i) \in UnifiedMessages
             /\ new(m, i).role = m.role /\ m.role \in {"user", "assistant"}
             /\ new(m, i).calls = <<>> /\ Results(new(m, i)) = <<>> => new(m, i).blocks = <<>>
  <2>1. extract_text_content(m, i) \in Seq(Tokens) /\ Tool(m) \in Seq(CallIds) /\ none \in Seq(CallIds)
        /\ (m.tool = None => Tool(m) = <<>>)
    <3>1. m \in OpenAIMessages \cup AnthropicMessages /\ none \in Seq(CallIds)
      OBVIOUS
    <3> HIDE DEF none
    <3> QED
      BY <3>1, MessageTypes
  <2>5. ResultsOf(Tool(m)) \in Seq(Answers) /\ (Tool(m) = <<>> <=> ResultsOf(Tool(m)) = <<>>)
    BY <2>1, ResultsRead
  <2>2. m.role \in {"user", "assistant"}
    BY DEF AnthropicMessages, Message
  <2> HIDE DEF none
  <2>3. CASE m.role = "assistant"
    <3>1. new(m, i) = Unified("assistant", extract_text_content(m, i), Tool(m), None, Tool(m))
      BY <2>3
    <3> HIDE DEF new
    <3>2. new(m, i) \in UnifiedMessages /\ new(m, i).role = "assistant"
          /\ new(m, i).calls = Tool(m) /\ new(m, i).blocks = Tool(m)
      BY <2>1, <3>1, UnifiedIs
    <3> QED
      BY <2>3, <3>2
  <2>4. CASE m.role # "assistant"
    <3> DEFINE results == IF m.tool = None THEN None ELSE ResultsOf(Tool(m))
    <3>1. new(m, i) = Unified("user", extract_text_content(m, i), none, results, Tool(m))
      BY <2>4
    <3>2. results \in Seq(Answers) \cup {None}
      BY <2>5
    <3> HIDE DEF new, results
    <3>3. new(m, i) \in UnifiedMessages /\ new(m, i).role = "user"
          /\ new(m, i).results = results /\ new(m, i).blocks = Tool(m)
      BY <2>1, <3>1, <3>2, UnifiedIs
    <3>4. Results(new(m, i)) = ResultsOf(Tool(m))
      <4>1. ResultsOf(Tool(m)) # None
        BY <2>5, PayloadAssumption DEF Answers
      <4> QED
        BY <2>1, <2>5, <3>3, <4>1 DEF Results, results
    <3> QED
      BY <2>2, <2>4, <2>5, <3>3, <3>4
  <2> QED
    BY <2>3, <2>4
<1> HIDE DEF us, new, n
<1>4. us \in [1..n -> UnifiedMessages]
  BY <1>1, <1>2, <1>3
<1>5. us \in Seq(UnifiedMessages) /\ Len(us) = n
  BY <1>1, <1>4
<1>6. us # <<>>
  BY <1>1, <1>5, EmptySeq
<1>7. \A i \in 1..n : us[i].role = ms[i].role
  BY <1>1, <1>2, <1>3
<1>8. Copied(us)
  BY <1>1, <1>2, <1>3, <1>5 DEF Copied
<1>9. NoDeveloper(us)
  BY <1>1, <1>2, <1>3, <1>5 DEF NoDeveloper
<1>10. Last(us).role = Last(ms).role
  <2>1. n \in 1..n
    BY <1>1
  <2> QED
    BY <1>5, <1>7, <2>1 DEF Last, n
<1> QED
  BY <1>5, <1>6, <1>8, <1>9, <1>10 DEF UnifiedFrom, us

(* The system prompt changes what one message says, and may empty its      *)
(* content blocks.                                                         *)
PromptedIs(us, vs, p) ==
    /\ vs \in Seq(UnifiedMessages) /\ Len(vs) = Len(us)
    /\ \A i \in 1..Len(us) :
         /\ vs[i].role = us[i].role /\ vs[i].calls = us[i].calls /\ vs[i].results = us[i].results
         /\ vs[i].blocks \in {us[i].blocks, <<>>}
    /\ \E k \in 1..Len(us) :
         /\ k = Len(us) \/ us[k].role = "user"
         /\ \A i \in 1..Len(us) : vs[i].text = IF i = k THEN p \o us[i].text ELSE us[i].text

LEMMA PromptType ==
    \A system \in BOOLEAN : SystemPrompt(system) \in Seq(Tokens) /\ (~system => SystemPrompt(system) = <<>>)
<1> DEFINE t == <<"system", 0>>
<1>1. t \in Tokens
  BY DEF Tokens
<1> HIDE DEF t
<1>2. <<t>> \in Seq(Tokens) /\ <<>> \in Seq(Tokens)
  BY <1>1
<1> QED
  BY <1>2 DEF SystemPrompt, t

LEMMA Prompts ==
    ASSUME NEW us \in Seq(UnifiedMessages), us # <<>>, NEW system \in BOOLEAN
    PROVE  PromptedIs(us, InjectSystem(us, system), SystemPrompt(system))
<1> DEFINE n == Len(us)
           users == {i \in 1..(n - 1) : us[i].role = "user"}
           prompt == SystemPrompt(system)
           at == IF users = {} THEN n ELSE CHOOSE i \in users : \A j \in users : i <= j
           text == prompt \o us[at].text
           vs == InjectSystem(us, system)
<1>1. n \in Nat /\ n # 0 /\ \A i \in 1..n : us[i] \in UnifiedMessages
  BY EmptySeq
<1>2. at \in 1..n /\ (at = n \/ us[at].role = "user")
  <2>1. CASE users = {}
    BY <1>1, <2>1
  <2>2. CASE users # {}
    <3>1. users \subseteq Nat
      BY <1>1
    <3> HIDE DEF users
    <3>2. \E i \in users : \A j \in users : i <= j
      BY <2>2, <3>1, LeastOf
    <3>3. at \in users
      BY <2>2, <3>2
    <3> QED
      BY <1>1, <3>3 DEF users
  <2> QED
    BY <2>1, <2>2
<1>3. vs = IF ~system THEN us
           ELSE IF at = n THEN [us EXCEPT ![at].text = text]
           ELSE [us EXCEPT ![at].text = text, ![at].blocks = <<>>]
  BY DEF InjectSystem
<1>4. prompt \in Seq(Tokens) /\ (~system => prompt = <<>>)
  BY PromptType
<1> HIDE DEF prompt
<1> HIDE DEF at, vs, n
<1>5. us[at] \in UnifiedMessages /\ text \in Seq(Tokens)
  BY <1>1, <1>2, <1>4, FieldTypes, ConcatProperties
<1>11. text = prompt \o us[at].text
  OBVIOUS
<1> HIDE DEF text
<1>6. ASSUME NEW u \in UnifiedMessages
      PROVE  LET v == [u EXCEPT !.text = text]
                 w == [u EXCEPT !.text = text, !.blocks = <<>>]
             IN /\ v \in UnifiedMessages /\ v.role = u.role /\ v.calls = u.calls /\ v.text = text
                /\ v.results = u.results /\ v.blocks = u.blocks
                /\ w \in UnifiedMessages /\ w.role = u.role /\ w.calls = u.calls /\ w.text = text
                /\ w.results = u.results /\ w.blocks = <<>>
  <2> DEFINE none == <<>>
  <2>1. none \in Seq(CallIds)
    OBVIOUS
  <2> HIDE DEF none
  <2>2. LET w == [u EXCEPT !.text = text, !.blocks = none]
        IN /\ w \in UnifiedMessages /\ w.role = u.role /\ w.calls = u.calls /\ w.text = text
           /\ w.results = u.results /\ w.blocks = none
    BY <1>5, <2>1 DEF UnifiedMessages
  <2>3. LET v == [u EXCEPT !.text = text]
        IN /\ v \in UnifiedMessages /\ v.role = u.role /\ v.calls = u.calls /\ v.text = text
           /\ v.results = u.results /\ v.blocks = u.blocks
    BY <1>5 DEF UnifiedMessages
  <2> QED
    BY <2>2, <2>3 DEF none
<1>7. ~system => PromptedIs(us, vs, prompt)
  <2> SUFFICES ASSUME ~system PROVE PromptedIs(us, vs, prompt)
    OBVIOUS
  <2>1. vs = us
    BY <1>3
  <2>2. \A i \in 1..n : us[i].text \in Seq(Tokens)
    BY <1>1, FieldTypes
  <2>3. \A i \in 1..n : us[i].text = prompt \o us[i].text
    BY <1>4, <2>2
  <2>4. n \in 1..n
    BY <1>1
  <2>5. \A i \in 1..n : us[i].text = IF i = n THEN prompt \o us[i].text ELSE us[i].text
    BY <2>3
  <2> QED
    BY <2>1, <2>4, <2>5 DEF PromptedIs, n
<1>8. ASSUME NEW v \in UnifiedMessages, v.role = us[at].role, v.calls = us[at].calls,
             v.results = us[at].results, v.blocks \in {us[at].blocks, <<>>},
             v.text = text, vs = [us EXCEPT ![at] = v]
      PROVE  PromptedIs(us, vs, prompt)
  <2>0. us \in [1..n -> UnifiedMessages]
    BY LenProperties DEF n
  <2>1. vs = [i \in 1..n |-> IF i = at THEN v ELSE us[i]]
    BY <1>1, <1>8, <2>0
  <2>2. vs \in [1..n -> UnifiedMessages] /\ \A i \in 1..n : vs[i] = IF i = at THEN v ELSE us[i]
    BY <1>1, <1>8, <2>1
  <2> HIDE DEF n
  <2>3. vs \in Seq(UnifiedMessages) /\ Len(vs) = n
    BY <1>1, <2>2
  <2>4. ASSUME NEW i \in 1..n
        PROVE  /\ vs[i].role = us[i].role /\ vs[i].calls = us[i].calls /\ vs[i].results = us[i].results
               /\ vs[i].blocks \in {us[i].blocks, <<>>}
               /\ vs[i].text = IF i = at THEN prompt \o us[i].text ELSE us[i].text
    <3>1. CASE i = at
      BY <1>8, <1>11, <2>2, <3>1
    <3>2. CASE i # at
      BY <2>2, <3>2
    <3> QED
      BY <3>1, <3>2
  <2> QED
    BY <1>2, <2>3, <2>4 DEF PromptedIs, n
<1>9. system /\ at = n => PromptedIs(us, vs, prompt)
  <2> SUFFICES ASSUME system, at = n PROVE PromptedIs(us, vs, prompt)
    OBVIOUS
  <2> DEFINE v == [us[at] EXCEPT !.text = text]
  <2>1. vs = [us EXCEPT ![at] = v]
    BY <1>3
  <2>2. v \in UnifiedMessages /\ v.role = us[at].role /\ v.calls = us[at].calls
        /\ v.results = us[at].results /\ v.text = text /\ v.blocks = us[at].blocks
    BY <1>5, <1>6
  <2> HIDE DEF v
  <2> QED
    BY <1>8, <2>1, <2>2
<1>10. system /\ at # n => PromptedIs(us, vs, prompt)
  <2> SUFFICES ASSUME system, at # n PROVE PromptedIs(us, vs, prompt)
    OBVIOUS
  <2> DEFINE v == [us[at] EXCEPT !.text = text, !.blocks = <<>>]
  <2>1. vs = [us EXCEPT ![at] = v]
    <3>1. vs = [us EXCEPT ![at].text = text, ![at].blocks = <<>>]
      BY <1>3
    <3> QED
      BY <1>1, <1>2, <3>1 DEF n
  <2>2. v \in UnifiedMessages /\ v.role = us[at].role /\ v.calls = us[at].calls
        /\ v.results = us[at].results /\ v.text = text /\ v.blocks = <<>>
    BY <1>5, <1>6
  <2> HIDE DEF v
  <2> QED
    BY <1>8, <2>1, <2>2
<1> QED
  BY <1>7, <1>9, <1>10 DEF vs, prompt

(* So what holds of roles and of tool content still holds.                 *)
LEMMA PromptedStill ==
    ASSUME NEW us \in Seq(UnifiedMessages), NEW vs, NEW p, PromptedIs(us, vs, p)
    PROVE  /\ vs \in Seq(UnifiedMessages)
           /\ Apart(us) => Apart(vs)
           /\ NoDeveloper(us) => NoDeveloper(vs)
           /\ AllBare(us) => AllBare(vs)
           /\ Following(us) => Following(vs)
           /\ us # <<>> => vs # <<>> /\ Last(vs).role = Last(us).role
<1> DEFINE n == Len(us)
<1>1. n \in Nat /\ Len(vs) = n /\ vs \in Seq(UnifiedMessages)
  BY DEF PromptedIs
<1>2. ASSUME NEW i \in 1..n
      PROVE  /\ vs[i].role = us[i].role /\ vs[i].calls = us[i].calls
             /\ Results(vs[i]) = Results(us[i]) /\ (us[i].blocks = <<>> => vs[i].blocks = <<>>)
  BY DEF PromptedIs, Results
<1> HIDE DEF n
<1>3. \A i \in 1..n : i > 1 => i - 1 \in 1..n
  BY <1>1
<1>4. Apart(us) => Apart(vs)
  <2>1. \A i \in 2..n : i \in 1..n /\ i - 1 \in 1..n
    BY <1>1
  <2> QED
    BY <1>1, <1>2, <2>1 DEF Apart, n
<1>5. NoDeveloper(us) => NoDeveloper(vs)
  BY <1>1, <1>2 DEF NoDeveloper, n
<1>6. AllBare(us) => AllBare(vs)
  BY <1>1, <1>2 DEF AllBare, Bare, n
<1>7. Following(us) => Following(vs)
  <2> SUFFICES ASSUME Following(us), NEW i \in 1..n
               PROVE  /\ vs[i].blocks = <<>>
                      /\ Results(vs[i]) # <<>> =>
                           vs[i].role = "user" /\ i > 1 /\ vs[i - 1].role = "assistant" /\ vs[i - 1].calls # <<>>
    BY <1>1 DEF Following
  <2>1. /\ us[i].blocks = <<>>
        /\ Results(us[i]) # <<>> =>
             us[i].role = "user" /\ i > 1 /\ us[i - 1].role = "assistant" /\ us[i - 1].calls # <<>>
    BY DEF Following, n
  <2> QED
    BY <1>2, <1>3, <2>1
<1>8. us # <<>> => vs # <<>> /\ Last(vs).role = Last(us).role
  <2> SUFFICES ASSUME us # <<>> PROVE vs # <<>> /\ Last(vs).role = Last(us).role
    OBVIOUS
  <2>1. n # 0
    BY EmptySeq DEF n
  <2>2. n \in 1..n /\ vs # <<>>
    BY <1>1, <2>1, EmptySeq
  <2> QED
    BY <1>1, <1>2, <2>2 DEF Last, n
<1> QED
  BY <1>1, <1>4, <1>5, <1>6, <1>7, <1>8

(* What Kiro gets for the unified messages.                                *)
Lists == {"none", "empty", "some"}
EntriesOf(us, tools, system) ==
    LET p == build_kiro_payload_core(us, tools, system) IN Append(p.history, p.current)

(* The history, and what follows it when the assistant spoke last.         *)
Closing(u) == Entry("assistant", u.text, <<>>, <<>>)
CurrentOf(u) == Entry("user", IF u.role = "assistant" THEN <<>> ELSE u.text, <<>>, ToolResults(u))
Before(history, u) ==
    IF u.role = "assistant" THEN Append(Append(history, synthetic_user_input), Closing(u)) ELSE history

LEMMA EntryKinds ==
    ASSUME NEW u \in UnifiedMessages
    PROVE  /\ Closing(u) \in KiroEntries /\ Closing(u).who = "assistant" /\ Closing(u).text = u.text
           /\ Closing(u).uses = <<>> /\ Closing(u).results = <<>>
           /\ CurrentOf(u) \in KiroEntries /\ CurrentOf(u).who = "user" /\ CurrentOf(u).uses = <<>>
           /\ CurrentOf(u).text = IF u.role = "assistant" THEN <<>> ELSE u.text
           /\ CurrentOf(u).results = ToolResults(u)
<1> DEFINE none == <<>>
           text == IF u.role = "assistant" THEN none ELSE u.text
<1>1. none \in Seq(CallIds) /\ none \in Seq(Tokens) /\ none \in Seq(Answers)
  OBVIOUS
<1>2. u.text \in Seq(Tokens) /\ text \in Seq(Tokens) /\ ToolResults(u) \in Seq(Answers)
  BY <1>1, FieldTypes, InputIs
<1>3. Closing(u) = Entry("assistant", u.text, none, none) /\ CurrentOf(u) = Entry("user", text, none, ToolResults(u))
  BY DEF Closing, CurrentOf
<1> HIDE DEF none, text
<1>4. /\ Closing(u) \in KiroEntries /\ Closing(u).who = "assistant" /\ Closing(u).text = u.text
      /\ Closing(u).uses = none /\ Closing(u).results = none
  BY <1>1, <1>2, <1>3, EntryIs
<1>5. /\ CurrentOf(u) \in KiroEntries /\ CurrentOf(u).who = "user" /\ CurrentOf(u).uses = none
      /\ CurrentOf(u).text = text /\ CurrentOf(u).results = ToolResults(u)
  BY <1>1, <1>2, <1>3, EntryIs
<1> QED
  BY <1>4, <1>5 DEF none, text

LEMMA EntriesCut ==
    ASSUME NEW us, NEW tools, NEW system, NEW all \in Seq(UnifiedMessages), all # <<>>,
           all = InjectSystem(merge_adjacent_messages(ToolsHandled(us, tools # "none")), system)
    PROVE  EntriesOf(us, tools, system)
             = Append(Before(build_kiro_history(Front(all)), Last(all)), CurrentOf(Last(all)))
<1> DEFINE last == Last(all)
           history == build_kiro_history(Front(all))
           syn == synthetic_user_input
           p == build_kiro_payload_core(us, tools, system)
<1>1. p = IF last.role = "assistant"
          THEN [history |-> history \o <<syn, Closing(last)>>,
                current |-> Entry("user", <<>>, <<>>, ToolResults(last)), tools |-> tools = "some"]
          ELSE [history |-> history, current |-> Entry("user", last.text, <<>>, ToolResults(last)),
                tools |-> tools = "some"]
  BY DEF build_kiro_payload_core, Closing
<1>2. last \in UnifiedMessages /\ history \in Seq(KiroEntries)
  BY LastOf, HistoryNext
<1> HIDE DEF p, last, history
<1>3. syn \in KiroEntries /\ Closing(last) \in KiroEntries
  BY <1>2, InputIs, EntryKinds
<1> DEFINE e == Closing(last)
<1> HIDE DEF syn, e
<1>4. history \o <<syn, e>> = Append(Append(history, syn), e)
  BY <1>2, <1>3 DEF e
<1>5. p.history = Before(history, last) /\ p.current = CurrentOf(last)
  <2>1. CASE last.role = "assistant"
    BY <1>1, <1>4, <2>1 DEF Before, CurrentOf, e, syn
  <2>2. CASE last.role # "assistant"
    BY <1>1, <2>2 DEF Before, CurrentOf
  <2> QED
    BY <2>1, <2>2
<1> QED
  BY <1>5 DEF EntriesOf, p, history, last

EntriesAre(us, es, tools) ==
    /\ ~tools /\ Copied(us) => AllEmpty(es)
    /\ tools /\ AllPlain(us) => Allowed(es)
    /\ NoDeveloper(us) /\ Last(us).role # "assistant" => Alternates(es)

LEMMA PayloadEntries ==
    ASSUME NEW us \in Seq(UnifiedMessages), us # <<>>, NEW list \in Lists, NEW system \in BOOLEAN
    PROVE  EntriesAre(us, EntriesOf(us, list, system), list # "none")
<1> DEFINE tools == list # "none"
           vs == ToolsHandled(us, tools)
           ws == merge_adjacent_messages(vs)
           all == InjectSystem(ws, system)
           front == Front(all)
           last == Last(all)
           history == build_kiro_history(front)
           syn == synthetic_user_input
           e == Closing(last)
           current == CurrentOf(last)
           before == Before(history, last)
           es == Append(before, current)
<1>1. HandledIs(us, vs, tools)
  <2>1. tools \in BOOLEAN
    OBVIOUS
  <2> HIDE DEF tools
  <2> QED
    BY <2>1, Handles
<1> HIDE DEF vs
<1>2. vs \in Seq(UnifiedMessages) /\ vs # <<>> /\ Last(vs).role = Last(us).role
      /\ (NoDeveloper(us) => NoDeveloper(vs))
  <2>1. Len(us) \in Nat /\ Len(us) # 0
    BY EmptySeq
  <2>2. Len(us) \in 1..Len(us)
    BY <2>1
  <2>3. vs \in Seq(UnifiedMessages) /\ Len(vs) = Len(us) /\ \A i \in 1..Len(us) : vs[i].role = us[i].role
    BY <1>1 DEF HandledIs
  <2> QED
    BY <2>1, <2>2, <2>3, EmptySeq DEF Last, NoDeveloper
<1>3. Settled(vs, ws) /\ ws \in Seq(UnifiedMessages)
  BY <1>2, MergeNext, MergeSettles
<1> HIDE DEF ws
<1>4. ws # <<>> /\ Last(ws).role = Last(us).role /\ Apart(ws)
      /\ (NoDeveloper(us) => NoDeveloper(ws))
      /\ (~tools /\ Copied(us) => AllBare(ws)) /\ (tools /\ AllPlain(us) => Following(ws))
  BY <1>1, <1>2, <1>3 DEF Settled, HandledIs
<1>5. PromptedIs(ws, all, SystemPrompt(system))
  BY <1>3, <1>4, Prompts
<1> HIDE DEF all
<1>6. all \in Seq(UnifiedMessages) /\ all # <<>> /\ Last(all).role = Last(us).role /\ Apart(all)
      /\ (NoDeveloper(us) => NoDeveloper(all))
      /\ (~tools /\ Copied(us) => AllBare(all)) /\ (tools /\ AllPlain(us) => Following(all))
  BY <1>3, <1>4, <1>5, PromptedStill
<1>7. front \in Seq(UnifiedMessages) /\ last \in UnifiedMessages /\ all = Append(front, last)
  BY <1>6, LastOf
<1>8. history \in Seq(KiroEntries) /\ Related(front, history)
  BY <1>7, HistoryNext, HistoryRelates
<1>9. EntriesOf(us, list, system) = es
  BY <1>6, EntriesCut DEF all, ws, vs
<1> HIDE DEF tools
<1>10. /\ syn \in KiroEntries /\ syn.who = "user" /\ syn.uses = <<>> /\ syn.results = <<>>
       /\ e \in KiroEntries /\ e.who = "assistant" /\ e.uses = <<>> /\ e.results = <<>>
       /\ current \in KiroEntries /\ current.who = "user" /\ current.uses = <<>>
       /\ current.results = ToolResults(last)
  BY <1>7, InputIs, EntryKinds
<1> HIDE DEF syn, e, current, before, history, front, last
<1>11. /\ before \in Seq(KiroEntries)
       /\ AllEmpty(history) => AllEmpty(before)
       /\ Allowed(history) => Allowed(before)
  <2>1. Append(history, syn) \in Seq(KiroEntries) /\ Append(Append(history, syn), e) \in Seq(KiroEntries)
    BY <1>8, <1>10, AppendProperties
  <2>2. /\ AllEmpty(history) => AllEmpty(Append(history, syn))
        /\ Allowed(history) => Allowed(Append(history, syn))
    BY <1>8, <1>10, OneMoreEntry DEF Empty
  <2>3. /\ AllEmpty(Append(history, syn)) => AllEmpty(Append(Append(history, syn), e))
        /\ Allowed(Append(history, syn)) => Allowed(Append(Append(history, syn), e))
    BY <1>10, <2>1, OneMoreEntry DEF Empty
  <2>4. before \in {history, Append(Append(history, syn), e)}
    BY DEF before, Before, syn, e
  <2> QED
    BY <1>8, <2>1, <2>2, <2>3, <2>4
<1>12. ~tools /\ Copied(us) => AllEmpty(es)
  <2> SUFFICES ASSUME ~tools, Copied(us) PROVE AllEmpty(es)
    OBVIOUS
  <2>1. AllBare(front) /\ Bare(last)
    BY <1>6, <1>7, OneMoreMessage
  <2>2. AllEmpty(before)
    BY <1>8, <1>11, <2>1 DEF Related
  <2>3. Empty(current)
    <3>1. ToolResults(last) = <<>>
      BY <1>7, <2>1, FieldTypes, ResultsRead DEF Bare, ToolResults, Results
    <3> QED
      BY <1>10, <3>1 DEF Empty
  <2> QED
    BY <1>10, <1>11, <2>2, <2>3, OneMoreEntry
<1>13. tools /\ AllPlain(us) => Allowed(es)
  <2> SUFFICES ASSUME tools, AllPlain(us) PROVE Allowed(es)
    OBVIOUS
  <2>1. Following(front) /\ last.blocks = <<>>
        /\ (Results(last) # <<>> => last.role = "user" /\ AfterCalls(front))
    BY <1>6, <1>7, OneMoreMessage
  <2>2. Allowed(before)
    BY <1>8, <1>11, <2>1 DEF Related
  <2>3. current.results # <<>> => AfterUses(before)
    <3> SUFFICES ASSUME current.results # <<>> PROVE AfterUses(before)
      OBVIOUS
    <3>1. Results(last) # <<>>
      BY <1>7, <1>10, <2>1, FieldTypes, ResultsRead DEF ToolResults, Results
    <3>2. last.role = "user" /\ AfterCalls(front)
      BY <2>1, <3>1
    <3>3. AfterUses(history)
      BY <1>8, <3>2 DEF AfterCalls, AfterUses, Related
    <3>4. before = history
      BY <3>2 DEF before, Before
    <3> QED
      BY <3>3, <3>4
  <2> QED
    BY <1>10, <1>11, <2>2, <2>3, OneMoreEntry
<1>14. NoDeveloper(us) /\ Last(us).role # "assistant" => Alternates(es)
  <2> SUFFICES ASSUME NoDeveloper(us), Last(us).role # "assistant" PROVE Alternates(es)
    OBVIOUS
  <2>1. Last(us).role = last.role
    BY <1>6 DEF last
  <2>2. Apart(front) /\ NoDeveloper(front) /\ last.role = "user" /\ (front # <<>> => Last(front).role # "user")
    <3>1. last.role \in {"user", "assistant", "developer"}
      BY <1>7, FieldTypes
    <3>2. NoDeveloper(front) /\ last.role # "developer"
      BY <1>6, <1>7, OneMoreMessage
    <3>3. Apart(front) /\ (front # <<>> => Last(front).role # last.role)
      BY <1>6, <1>7, OneMoreMessage
    <3> QED
      BY <2>1, <3>1, <3>2, <3>3
  <2>3. before = history
    BY <2>2 DEF before, Before
  <2>4. Alternates(history) /\ (front = <<>> <=> history = <<>>)
        /\ (front # <<>> => Last(history).who = Last(front).role)
    BY <1>8, <2>2 DEF Related
  <2> QED
    BY <1>8, <1>10, <2>2, <2>3, <2>4, OneMoreEntry
<1> QED
  BY <1>9, <1>12, <1>13, <1>14 DEF EntriesAre, tools

(* What the client sent, and the payload made of it.                       *)
UnifiedOf(r) ==
    IF r.api = "openai" THEN convert_openai_messages_to_unified(r.messages)
    ELSE convert_anthropic_messages(r.messages)

PayloadInv ==
    /\ request \in OpenAIRequests \cup AnthropicRequests
    /\ payload # None =>
         payload = build_kiro_payload_core(UnifiedOf(request), request.tools, request.system)

LEMMA RequestMessages ==
    ASSUME NEW r \in OpenAIRequests \cup AnthropicRequests
    PROVE  /\ r.tools \in Lists /\ r.system \in BOOLEAN /\ r.messages # <<>>
           /\ r.messages \in Seq(IF r.api = "openai" THEN OpenAIMessages ELSE AnthropicMessages)
<1> DEFINE ms == r.messages
           M == IF r.api = "openai" THEN OpenAIMessages ELSE AnthropicMessages
<1>1. r.tools \in Lists /\ r.system \in BOOLEAN /\ ms \in MessageLists(M)
  <2>1. CASE r \in Requests("openai")
    BY <2>1 DEF Requests, Lists
  <2>2. CASE r \in Requests("anthropic")
    BY <2>2 DEF Requests, Lists
  <2> QED
    BY <2>1, <2>2 DEF OpenAIRequests, AnthropicRequests
<1>2. ms \in Seq(M) /\ ms # <<>>
  <2> HIDE DEF M, ms
  <2>1. PICK n \in 1..MaxMessages : ms \in [1..n -> M]
    BY <1>1 DEF MessageLists
  <2>2. n \in Nat /\ n # 0
    BY PayloadAssumption
  <2>3. ms \in Seq(M) /\ Len(ms) = n
    BY <2>1, <2>2
  <2> QED
    BY <2>2, <2>3, EmptySeq
<1> QED
  BY <1>1, <1>2

LEMMA RequestUnified ==
    ASSUME NEW r \in OpenAIRequests \cup AnthropicRequests
    PROVE  /\ r.tools \in Lists /\ r.system \in BOOLEAN
           /\ UnifiedFrom(r.messages, UnifiedOf(r))
           /\ r.api = "openai" => AllPlain(UnifiedOf(r))
<1> DEFINE ms == r.messages
           M == IF r.api = "openai" THEN OpenAIMessages ELSE AnthropicMessages
<1>1. r.tools \in Lists /\ r.system \in BOOLEAN
  BY RequestMessages
<1>2. ms \in Seq(M) /\ ms # <<>>
  BY RequestMessages
<1>3. CASE r.api = "openai"
  <2>1. ms \in Seq(OpenAIMessages) /\ UnifiedOf(r) = convert_openai_messages_to_unified(ms)
    BY <1>2, <1>3 DEF UnifiedOf
  <2> HIDE DEF ms
  <2>2. ms # <<>>
    BY <1>2
  <2>3. UnifiedFrom(ms, UnifiedOf(r)) /\ AllPlain(UnifiedOf(r))
    BY <2>1, <2>2, OpenAIUnified
  <2> QED
    BY <1>1, <2>3 DEF ms
<1>4. CASE r.api # "openai"
  <2>1. ms \in Seq(AnthropicMessages) /\ UnifiedOf(r) = convert_anthropic_messages(ms)
    BY <1>2, <1>4 DEF UnifiedOf
  <2> HIDE DEF ms
  <2>2. ms # <<>>
    BY <1>2
  <2>3. UnifiedFrom(ms, UnifiedOf(r))
    BY <2>1, <2>2, AnthropicUnified
  <2> QED
    BY <1>1, <1>4, <2>3 DEF ms
<1> QED
  BY <1>3, <1>4

LEMMA PayloadAccepted == PayloadInv => HistoryAccepted
<1> SUFFICES ASSUME PayloadInv, payload # None PROVE HistoryAccepted
  BY DEF HistoryAccepted, HistoryAlternates, ToolContentAccepted
<1> DEFINE us == UnifiedOf(request)
           tools == request.tools
           system == request.system
           ms == request.messages
<1>1. tools \in Lists /\ system \in BOOLEAN /\ UnifiedFrom(ms, us)
      /\ (request.api = "openai" => AllPlain(us))
  BY RequestUnified DEF PayloadInv
<1>2. Entries = EntriesOf(us, tools, system) /\ payload = build_kiro_payload_core(us, tools, system)
  BY DEF Entries, EntriesOf, PayloadInv
<1>6. payload.tools = (tools = "some")
  BY <1>2 DEF build_kiro_payload_core
<1> HIDE DEF us
<1>3. EntriesAre(us, Entries, tools # "none")
  BY <1>1, <1>2, PayloadEntries DEF UnifiedFrom
<1>4. HistoryAlternates
  <2> SUFFICES ASSUME "developer" \notin Roles, Last(ms).role # "assistant"
               PROVE  \A i \in 1..Len(Entries) : Entries[i].who = IF i % 2 = 1 THEN "user" ELSE "assistant"
    BY DEF HistoryAlternates
  <2>1. \A i \in 1..Len(ms) : ms[i].role # "developer"
    BY DEF Roles
  <2>2. NoDeveloper(us) /\ Last(us).role # "assistant"
    BY <1>1, <2>1 DEF UnifiedFrom
  <2> QED
    BY <1>3, <2>2 DEF EntriesAre, Alternates
<1>5. ToolContentAccepted
  <2>1. tools = "none" => AllEmpty(Entries)
    BY <1>1, <1>3 DEF EntriesAre, UnifiedFrom
  <2>2. request.api = "openai" => Allowed(Entries)
    <3>1. CASE tools # "none"
      BY <1>1, <1>3, <3>1 DEF EntriesAre
    <3>2. CASE tools = "none"
      BY <2>1, <3>2 DEF AllEmpty, Empty, Allowed
    <3> QED
      BY <3>1, <3>2
  <2>4. ~payload.tools /\ tools # "empty" => tools = "none"
    BY <1>1, <1>6 DEF Lists
  <2> HIDE DEF tools
  <2>3. ~payload.tools /\ tools # "empty" =>
          \A i \in 1..Len(Entries) : Entries[i].results = <<>> /\ Entries[i].uses = <<>>
    BY <2>1, <2>4 DEF AllEmpty, Empty
  <2> QED
    BY <2>2, <2>3 DEF ToolContentAccepted, Allowed, tools
<1> QED
  BY <1>4, <1>5 DEF HistoryAccepted

LEMMA PayloadSteps ==
    /\ PayloadInit => PayloadInv
    /\ PayloadInv /\ [PayloadNext]_payloadVars => PayloadInv'
<1>1. PayloadInit => PayloadInv
  BY DEF PayloadInit, PayloadInv
<1>2. PayloadInv /\ [PayloadNext]_payloadVars => PayloadInv'
  <2> SUFFICES ASSUME PayloadInv, [PayloadNext]_payloadVars PROVE PayloadInv'
    OBVIOUS
  <2>1. CASE build_kiro_payload
    BY <2>1 DEF build_kiro_payload, PayloadInv, UnifiedOf
  <2>2. CASE UNCHANGED payloadVars
    BY <2>2 DEF payloadVars, PayloadInv
  <2> QED
    BY <2>1, <2>2 DEF PayloadNext
<1> QED
  BY <1>1, <1>2

(* The history that Kiro is sent is one that it accepts, for every request *)
(* of either API: entries alternate unless a developer message or a        *)
(* closing assistant message stands in the request, no tool content goes   *)
(* without tools unless the request lists tools and the list is empty, and *)
(* OpenAI results follow the calls they answer.                            *)
THEOREM HistoryTaken == PayloadSpec => []HistoryAccepted
  BY PayloadSteps, PayloadAccepted, PTL DEF PayloadSpec

-----------------------------------------------------------------------------
(***************************************************************************)
(* What is said and which calls are made, in what order: the gist of a     *)
(* conversation, which no step on the way to Kiro changes.                 *)
(***************************************************************************)
Gists == [role : {"user", "assistant", "developer"}, text : Seq(Tokens), ids : SUBSET CallIds]

(* What is said to the model, and what a developer says at the very end.   *)
Loud(gs) ==
    FlattenSeq([i \in 1..Len(gs) |-> IF gs[i].role = "developer" THEN <<>> ELSE gs[i].text])
Late(gs) ==
    FlattenSeq([i \in 1..Len(gs) |->
                  IF \A j \in i..Len(gs) : gs[j].role = "developer" THEN gs[i].text ELSE <<>>])

(* A call is made, and somebody else speaks after it.                      *)
Makes(g, c) == g.role = "assistant" /\ c \in g.ids
Held(gs, c) == \E i \in 1..Len(gs) : Makes(gs[i], c)
Sealed(gs, c) ==
    \E i \in 1..Len(gs) : Makes(gs[i], c) /\ \E j \in (i + 1)..Len(gs) : gs[j].role # "assistant"

Tells(gs, hs) ==
    /\ Loud(gs) = Loud(hs) /\ Late(gs) = Late(hs)
    /\ \A c : (Held(gs, c) => Held(hs, c)) /\ (Sealed(gs, c) => Sealed(hs, c))

LEMMA TextsJoined == \A a, b, c \in Seq(Tokens) : (a \o b) \o c = a \o (b \o c)
  BY ConcatAssociative

LEMMA FunctionListed ==
    ASSUME NEW X, NEW n \in Nat, NEW s, s \in [1..n -> X]
    PROVE  s \in Seq(X) /\ Len(s) = n
  OBVIOUS

LEMMA GistIs ==
    ASSUME NEW g \in Gists
    PROVE  g.role \in {"user", "assistant", "developer"} /\ g.text \in Seq(Tokens) /\ g.ids \in SUBSET CallIds
  BY DEF Gists

LEMMA AllSilent ==
    ASSUME NEW n \in Nat, NEW s, s = [i \in 1..n |-> <<>>]
    PROVE  FlattenSeq(s) = <<>>
<1> DEFINE none == <<>>
           Quiet(m) == [i \in 1..m |-> none]
           P == {m \in Nat : FlattenSeq(Quiet(m)) = none}
<1>1. none \in Seq(Tokens) /\ none \o none = none
  OBVIOUS
<1>2. FlattenSeq(none) = none
  BY FlattenNext DEF none
<1> HIDE DEF none
<1>3. \A m \in Nat : Quiet(m) \in Seq(Seq(Tokens)) /\ Len(Quiet(m)) = m
  BY <1>1
<1>4. 0 \in P
  <2>1. Quiet(0) = <<>>
    BY <1>3, EmptySeq
  <2> QED
    BY <1>2, <2>1 DEF none
<1>5. ASSUME NEW m \in Nat, m \in P PROVE m + 1 \in P
  <2>1. Quiet(m + 1) = Append(Quiet(m), none)
    <3> DEFINE q == Quiet(m)
               t == Append(q, none)
               v == Quiet(m + 1)
    <3>1. q \in Seq(Seq(Tokens)) /\ Len(q) = m /\ v \in Seq(Seq(Tokens)) /\ Len(v) = m + 1
      <4>1. m \in Nat /\ m + 1 \in Nat
        OBVIOUS
      <4> HIDE DEF Quiet
      <4> QED
        BY <1>3, <4>1
    <3>2. \A i \in 1..m : q[i] = none
      OBVIOUS
    <3>3. \A i \in 1..(m + 1) : v[i] = none
      OBVIOUS
    <3> HIDE DEF q, v
    <3>4. t \in Seq(Seq(Tokens)) /\ Len(t) = m + 1 /\ \A i \in 1..(m + 1) : t[i] = none
      BY <1>1, <3>1, <3>2
    <3> HIDE DEF t
    <3>5. v = t
      BY <3>1, <3>3, <3>4, SeqEqual
    <3> QED
      BY <3>5 DEF v, t, q
  <2>2. FlattenSeq(Append(Quiet(m), none)) = FlattenSeq(Quiet(m)) \o none
    <3> HIDE DEF Quiet
    <3> QED
      BY <1>1, <1>3, FlattenNext
  <2>3. FlattenSeq(Quiet(m)) = none
    BY <1>5
  <2> HIDE DEF Quiet
  <2>4. FlattenSeq(Quiet(m + 1)) = none
    BY <1>1, <2>1, <2>2, <2>3
  <2> QED
    BY <2>4
<1> HIDE DEF P
<1>6. n \in P
  BY <1>4, <1>5, Upwards
<1> QED
  BY <1>6 DEF P, none

LEMMA OneMoreGist ==
    ASSUME NEW gs \in Seq(Gists), NEW g \in Gists
    PROVE  /\ Loud(gs) \in Seq(Tokens) /\ Late(gs) \in Seq(Tokens)
           /\ Loud(Append(gs, g)) = IF g.role = "developer" THEN Loud(gs) ELSE Loud(gs) \o g.text
           /\ Late(Append(gs, g)) = IF g.role = "developer" THEN Late(gs) \o g.text ELSE <<>>
           /\ \A c : /\ Held(Append(gs, g), c) <=> Held(gs, c) \/ Makes(g, c)
                     /\ Sealed(Append(gs, g), c) <=> Sealed(gs, c) \/ (g.role # "assistant" /\ Held(gs, c))
<1> DEFINE t == Append(gs, g)
           n == Len(gs)
           none == <<>>
           loud(s) == [i \in 1..Len(s) |-> IF s[i].role = "developer" THEN none ELSE s[i].text]
           end(s, i) == \A j \in i..Len(s) : s[j].role = "developer"
           late(s) == [i \in 1..Len(s) |-> IF end(s, i) THEN s[i].text ELSE none]
<1>1. /\ t \in Seq(Gists) /\ Len(t) = n + 1 /\ n \in Nat /\ t[n + 1] = g
      /\ \A i \in 1..n : t[i] = gs[i] /\ gs[i] \in Gists
  BY AppendProperties
<1>2. none \in Seq(Tokens) /\ \A s \in Seq(Tokens) : s \o none = s /\ none \o s = s
  OBVIOUS
<1>3. \A i : i \in 1..(n + 1) <=> i \in 1..n \/ i = n + 1
  BY <1>1
<1>4. g.text \in Seq(Tokens) /\ \A i \in 1..n : gs[i].text \in Seq(Tokens)
  BY <1>1, GistIs
<1>5. \A s : Loud(s) = FlattenSeq(loud(s)) /\ Late(s) = FlattenSeq(late(s))
  BY DEF Loud, Late
<1> HIDE DEF t, n, none
<1>6. loud(gs) \in Seq(Seq(Tokens)) /\ Len(loud(gs)) = n
  <2>1. \A i \in 1..n : (IF gs[i].role = "developer" THEN none ELSE gs[i].text) \in Seq(Tokens)
    BY <1>2, <1>4
  <2>2. loud(gs) \in [1..n -> Seq(Tokens)]
    BY <2>1 DEF n
  <2> HIDE DEF loud
  <2> QED
    BY <1>1, <2>2
<1>7. late(gs) \in Seq(Seq(Tokens)) /\ Len(late(gs)) = n
  <2> HIDE DEF end
  <2>1. \A i \in 1..n : (IF end(gs, i) THEN gs[i].text ELSE none) \in Seq(Tokens)
    BY <1>2, <1>4
  <2>2. late(gs) \in [1..n -> Seq(Tokens)]
    BY <2>1 DEF n
  <2> HIDE DEF late
  <2> QED
    BY <1>1, <2>2
<1>8. Loud(t) = IF g.role = "developer" THEN Loud(gs) ELSE Loud(gs) \o g.text
  <2> DEFINE x == IF g.role = "developer" THEN none ELSE g.text
             v == Append(loud(gs), x)
  <2>1. x \in Seq(Tokens)
    BY <1>2, <1>4
  <2>2. \A i \in 1..n : loud(gs)[i] = IF gs[i].role = "developer" THEN none ELSE gs[i].text
    BY DEF n
  <2>3. \A i \in 1..(n + 1) : loud(t)[i] = IF t[i].role = "developer" THEN none ELSE t[i].text
    BY <1>1
  <2>4. loud(t) \in [1..(n + 1) -> Seq(Tokens)]
    <3>1. \A i \in 1..(n + 1) : (IF t[i].role = "developer" THEN none ELSE t[i].text) \in Seq(Tokens)
      BY <1>1, <1>2, <1>3, <1>4
    <3> QED
      BY <1>1, <3>1
  <2> HIDE DEF loud, x
  <2>5. v \in Seq(Seq(Tokens)) /\ Len(v) = n + 1 /\ v[n + 1] = x /\ \A i \in 1..n : v[i] = loud(gs)[i]
    BY <1>1, <1>6, <2>1
  <2> HIDE DEF v
  <2>6. loud(t) \in Seq(Seq(Tokens)) /\ Len(loud(t)) = n + 1
    <3> DEFINE k == n + 1
               q == loud(t)
    <3>1. k \in Nat /\ q \in [1..k -> Seq(Tokens)]
      BY <1>1, <2>4
    <3> HIDE DEF k, q
    <3>2. q \in Seq(Seq(Tokens)) /\ Len(q) = k
      BY <3>1, FunctionListed
    <3> QED
      BY <3>2 DEF k, q
  <2>7. \A i \in 1..(n + 1) : loud(t)[i] = v[i]
    BY <1>1, <1>3, <2>2, <2>3, <2>5 DEF x
  <2>8. loud(t) = v
    BY <2>5, <2>6, <2>7, SeqEqual
  <2>9. Loud(t) = Loud(gs) \o x
    BY <1>5, <1>6, <2>1, <2>8, FlattenNext DEF v
  <2>10. Loud(gs) \in Seq(Tokens)
    BY <1>5, <1>6, FlattenNext
  <2> QED
    BY <1>2, <2>9, <2>10 DEF x
<1>9. ASSUME g.role = "developer" PROVE Late(t) = Late(gs) \o g.text
  <2> DEFINE v == Append(late(gs), g.text)
  <2>1. \A i \in 1..(n + 1) : end(t, i) <=> i = n + 1 \/ end(gs, i)
    <3> SUFFICES ASSUME NEW i \in 1..(n + 1) PROVE end(t, i) <=> i = n + 1 \/ end(gs, i)
      OBVIOUS
    <3>1. CASE i = n + 1
      <4>1. \A j \in i..(n + 1) : j = n + 1
        BY <1>1, <3>1
      <4> QED
        BY <1>1, <1>9, <3>1, <4>1
    <3>2. CASE i # n + 1
      <4>1. \A j : j \in i..(n + 1) <=> j \in i..n \/ j = n + 1
        BY <1>1, <3>2
      <4>2. \A j \in i..n : t[j] = gs[j]
        BY <1>1
      <4> QED
        BY <1>1, <1>9, <3>2, <4>1, <4>2 DEF n
    <3> QED
      BY <3>1, <3>2
  <2> HIDE DEF end
  <2>2. \A i \in 1..n : late(gs)[i] = IF end(gs, i) THEN gs[i].text ELSE none
    BY DEF n
  <2>3. \A i \in 1..(n + 1) : late(t)[i] = IF end(t, i) THEN t[i].text ELSE none
    BY <1>1
  <2>4. late(t) \in [1..(n + 1) -> Seq(Tokens)]
    <3>1. \A i \in 1..(n + 1) : (IF end(t, i) THEN t[i].text ELSE none) \in Seq(Tokens)
      BY <1>1, <1>2, <1>3, <1>4
    <3> QED
      BY <1>1, <3>1
  <2> HIDE DEF late
  <2>5. v \in Seq(Seq(Tokens)) /\ Len(v) = n + 1 /\ v[n + 1] = g.text /\ \A i \in 1..n : v[i] = late(gs)[i]
    BY <1>1, <1>4, <1>7
  <2> HIDE DEF v
  <2>6. late(t) \in Seq(Seq(Tokens)) /\ Len(late(t)) = n + 1
    <3> DEFINE k == n + 1
               q == late(t)
    <3>1. k \in Nat /\ q \in [1..k -> Seq(Tokens)]
      BY <1>1, <2>4
    <3> HIDE DEF k, q
    <3>2. q \in Seq(Seq(Tokens)) /\ Len(q) = k
      BY <3>1, FunctionListed
    <3> QED
      BY <3>2 DEF k, q
  <2>7. \A i \in 1..(n + 1) : late(t)[i] = v[i]
    <3>1. late(t)[n + 1] = v[n + 1]
      BY <1>1, <2>1, <2>3, <2>5
    <3>2. ASSUME NEW i \in 1..n PROVE late(t)[i] = v[i]
      <4>1. i \in 1..(n + 1) /\ i # n + 1
        BY <1>1
      <4>2. end(t, i) <=> end(gs, i)
        BY <2>1, <4>1
      <4> QED
        BY <1>1, <2>2, <2>3, <2>5, <4>1, <4>2
    <3> QED
      BY <1>3, <3>1, <3>2
  <2>8. late(t) = v
    BY <2>5, <2>6, <2>7, SeqEqual
  <2> QED
    BY <1>4, <1>5, <1>7, <2>8, FlattenNext DEF v
<1>10. ASSUME g.role # "developer" PROVE Late(t) = <<>>
  <2>1. \A i \in 1..(n + 1) : ~end(t, i)
    <3>1. \A i \in 1..(n + 1) : n + 1 \in i..(n + 1)
      BY <1>1
    <3> QED
      BY <1>1, <1>10, <3>1
  <2> HIDE DEF end
  <2>2. late(t) = [i \in 1..(n + 1) |-> <<>>]
    BY <1>1, <2>1 DEF none
  <2>3. n + 1 \in Nat
    BY <1>1
  <2> QED
    BY <1>5, <2>2, <2>3, AllSilent
<1>11. ASSUME NEW c
       PROVE  /\ Held(t, c) <=> Held(gs, c) \/ Makes(g, c)
              /\ Sealed(t, c) <=> Sealed(gs, c) \/ (g.role # "assistant" /\ Held(gs, c))
  <2>1. Held(t, c) <=> Held(gs, c) \/ Makes(g, c)
    BY <1>1, <1>3 DEF Held, n
  <2>2. ASSUME Sealed(t, c) PROVE Sealed(gs, c) \/ (g.role # "assistant" /\ Held(gs, c))
    <3>1. PICK i \in 1..(n + 1) : Makes(t[i], c) /\ \E j \in (i + 1)..(n + 1) : t[j].role # "assistant"
      BY <1>1, <2>2 DEF Sealed
    <3>2. PICK j \in (i + 1)..(n + 1) : t[j].role # "assistant"
      BY <3>1
    <3>3. i \in 1..n /\ Makes(gs[i], c)
      BY <1>1, <3>1
    <3>4. CASE j = n + 1
      BY <1>1, <3>2, <3>3, <3>4 DEF Held, n
    <3>5. CASE j # n + 1
      <4>1. j \in (i + 1)..n /\ j \in 1..n
        BY <1>1, <3>5
      <4> QED
        BY <1>1, <3>2, <3>3, <4>1 DEF Sealed, n
    <3> QED
      BY <3>4, <3>5
  <2>3. ASSUME Sealed(gs, c) PROVE Sealed(t, c)
    <3>1. PICK i \in 1..n : Makes(gs[i], c) /\ \E j \in (i + 1)..n : gs[j].role # "assistant"
      BY <2>3 DEF Sealed, n
    <3>2. PICK j \in (i + 1)..n : gs[j].role # "assistant"
      BY <3>1
    <3>3. i \in 1..(n + 1) /\ j \in (i + 1)..(n + 1) /\ j \in 1..n
      BY <1>1
    <3> QED
      BY <1>1, <3>1, <3>2, <3>3 DEF Sealed
  <2>4. ASSUME g.role # "assistant", Held(gs, c) PROVE Sealed(t, c)
    <3>1. PICK i \in 1..n : Makes(gs[i], c)
      BY <2>4 DEF Held, n
    <3>2. i \in 1..(n + 1) /\ n + 1 \in (i + 1)..(n + 1)
      BY <1>1
    <3> QED
      BY <1>1, <2>4, <3>1, <3>2 DEF Sealed
  <2> QED
    BY <2>1, <2>2, <2>3, <2>4
<1>12. Loud(gs) \in Seq(Tokens) /\ Late(gs) \in Seq(Tokens)
  BY <1>5, <1>6, <1>7, FlattenNext
<1> QED
  BY <1>8, <1>9, <1>10, <1>11, <1>12 DEF t

LEMMA TellsNext ==
    ASSUME NEW gs \in Seq(Gists), NEW hs \in Seq(Gists), NEW g \in Gists, Tells(gs, hs)
    PROVE  Tells(Append(gs, g), Append(hs, g))
  BY OneMoreGist DEF Tells

LEMMA NothingSaid ==
    ASSUME NEW gs, gs = <<>>
    PROVE  Loud(gs) = <<>> /\ Late(gs) = <<>> /\ \A c : ~Held(gs, c) /\ ~Sealed(gs, c)
<1>1. Len(gs) = 0 /\ 1..0 = {}
  OBVIOUS
<1>2. Loud(gs) = <<>> /\ Late(gs) = <<>>
  <2>1. \A f : f = [i \in 1..0 |-> <<>>] => FlattenSeq(f) = <<>>
    BY 0 \in Nat, AllSilent
  <2>2. /\ [i \in 1..Len(gs) |-> IF gs[i].role = "developer" THEN <<>> ELSE gs[i].text] = [i \in 1..0 |-> <<>>]
        /\ [i \in 1..Len(gs) |->
              IF \A j \in i..Len(gs) : gs[j].role = "developer" THEN gs[i].text ELSE <<>>] = [i \in 1..0 |-> <<>>]
    BY <1>1
  <2> QED
    BY <2>1, <2>2 DEF Loud, Late
<1> QED
  BY <1>1, <1>2 DEF Held, Sealed

LEMMA SealedHeld == \A gs, c : Sealed(gs, c) => Held(gs, c)
  BY DEF Sealed, Held

(* A sequence taken element by element.                                    *)
Mapping(X, Y) == [X -> Y]
Each(f, s) == [i \in 1..Len(s) |-> f[s[i]]]

LEMMA EachNext ==
    ASSUME NEW X, NEW Y, NEW f \in Mapping(X, Y)
    PROVE  /\ Each(f, <<>>) = <<>>
           /\ \A s \in Seq(X) : Each(f, s) \in Seq(Y) /\ Len(Each(f, s)) = Len(s)
           /\ \A s \in Seq(X) : \A x \in X : Each(f, Append(s, x)) = Append(Each(f, s), f[x])
<1>0. f \in [X -> Y]
  BY DEF Mapping
<1>1. ASSUME NEW s \in Seq(X)
      PROVE  /\ Each(f, s) \in Seq(Y) /\ Len(Each(f, s)) = Len(s)
             /\ \A i \in 1..Len(s) : Each(f, s)[i] = f[s[i]]
  <2> DEFINE e == Each(f, s)
             n == Len(s)
  <2>1. n \in Nat /\ \A i \in 1..n : s[i] \in X
    OBVIOUS
  <2>2. e = [i \in 1..n |-> f[s[i]]]
    BY DEF Each
  <2> HIDE DEF e, n
  <2>3. e \in [1..n -> Y]
    BY <1>0, <2>1, <2>2
  <2>4. e \in Seq(Y) /\ Len(e) = n
    BY <2>1, <2>3
  <2> QED
    BY <2>2, <2>4 DEF e, n
<1>2. Each(f, <<>>) = <<>>
  <2>1. <<>> \in Seq(X) /\ Len(<<>>) = 0
    OBVIOUS
  <2> QED
    BY <1>1, <2>1, EmptySeq
<1>3. ASSUME NEW s \in Seq(X), NEW x \in X PROVE Each(f, Append(s, x)) = Append(Each(f, s), f[x])
  <2> DEFINE t == Append(s, x)
             n == Len(s)
             e == Each(f, s)
             v == Each(f, t)
             w == Append(e, f[x])
  <2>1. t \in Seq(X) /\ Len(t) = n + 1 /\ n \in Nat /\ t[n + 1] = x /\ \A i \in 1..n : t[i] = s[i]
    BY AppendProperties
  <2>2. e \in Seq(Y) /\ Len(e) = n /\ \A i \in 1..n : e[i] = f[s[i]]
    BY <1>1
  <2>3. v \in Seq(Y) /\ Len(v) = n + 1 /\ \A i \in 1..(n + 1) : v[i] = f[t[i]]
    <3> HIDE DEF t
    <3>1. v \in Seq(Y) /\ Len(v) = Len(t) /\ \A i \in 1..Len(t) : v[i] = f[t[i]]
      BY <1>1, <2>1
    <3> QED
      BY <2>1, <3>1
  <2>4. f[x] \in Y
    BY <1>0
  <2> HIDE DEF t, e, v, n
  <2>5. w \in Seq(Y) /\ Len(w) = n + 1 /\ w[n + 1] = f[x] /\ \A i \in 1..n : w[i] = e[i]
    BY <2>1, <2>2, <2>4
  <2> HIDE DEF w
  <2>6. \A i \in 1..(n + 1) : v[i] = w[i]
    <3>1. \A i : i \in 1..(n + 1) <=> i \in 1..n \/ i = n + 1
      BY <2>1
    <3> QED
      BY <2>1, <2>2, <2>3, <2>5, <3>1
  <2>7. v = w
    BY <2>3, <2>5, <2>6, SeqEqual
  <2> QED
    BY <2>7 DEF v, w, t, e
<1> QED
  BY <1>1, <1>2, <1>3

(* The gist of unified messages, and of what the client sent.              *)
Speech(u, tools) ==
    IF tools THEN u.text ELSE u.text \o tool_calls_to_text(u.calls) \o tool_results_to_text(Results(u))

GistOf(u, tools) ==
    [role |-> u.role, text |-> Speech(u, tools), ids |-> IF tools THEN Range(u.calls) ELSE {}]

Judged(us, tools) == Each([u \in UnifiedMessages |-> GistOf(u, tools)], us)

AnyTagged == (OpenAIMessages \cup AnthropicMessages) \X Nat

MeantBy(m, i, tools) ==
    [role |-> IF m.role = "tool" THEN "user" ELSE m.role, text |-> Telling(m, i, tools),
     ids |-> IF tools /\ m.role = "assistant" THEN Range(Tool(m)) ELSE {}]

Meant(xs, tools) == Each([x \in AnyTagged |-> MeantBy(x[1], x[2], tools)], xs)

LEMMA RangeIn ==
    /\ Range(<<>>) = {}
    /\ \A s \in Seq(CallIds) : Range(s) \in SUBSET CallIds
<1>1. Range(<<>>) = {}
  BY DEF Range
<1>2. ASSUME NEW s \in Seq(CallIds) PROVE Range(s) \in SUBSET CallIds
  <2>1. \A i \in DOMAIN s : s[i] \in CallIds
    OBVIOUS
  <2> QED
    BY <2>1 DEF Range
<1> QED
  BY <1>1, <1>2

LEMMA SpeechType ==
    ASSUME NEW u \in UnifiedMessages, NEW tools \in BOOLEAN
    PROVE  Speech(u, tools) \in Seq(Tokens) /\ GistOf(u, tools) \in Gists
<1>1. Speech(u, tools) \in Seq(Tokens)
  BY FieldTypes, TextForms, ConcatProperties DEF Speech
<1>2. Range(u.calls) \in SUBSET CallIds /\ {} \in SUBSET CallIds
  BY FieldTypes, RangeIn
<1>3. u.role \in {"user", "assistant", "developer"}
  BY FieldTypes
<1> QED
  BY <1>1, <1>2, <1>3 DEF GistOf, Gists

LEMMA JudgedNext ==
    ASSUME NEW tools \in BOOLEAN
    PROVE  /\ Judged(<<>>, tools) = <<>>
           /\ \A us \in Seq(UnifiedMessages) : Judged(us, tools) \in Seq(Gists) /\ Len(Judged(us, tools)) = Len(us)
           /\ \A us \in Seq(UnifiedMessages) : \A u \in UnifiedMessages :
                Judged(Append(us, u), tools) = Append(Judged(us, tools), GistOf(u, tools))
<1> DEFINE f == [u \in UnifiedMessages |-> GistOf(u, tools)]
<1>1. f \in Mapping(UnifiedMessages, Gists) /\ \A u \in UnifiedMessages : f[u] = GistOf(u, tools)
  BY SpeechType DEF Mapping
<1>2. \A us : Judged(us, tools) = Each(f, us)
  BY DEF Judged
<1> HIDE DEF f
<1> QED
  BY <1>1, <1>2, EachNext

LEMMA MeantType ==
    ASSUME NEW m \in OpenAIMessages \cup AnthropicMessages, NEW i \in Nat, NEW tools \in BOOLEAN
    PROVE  Telling(m, i, tools) \in Seq(Tokens) /\ MeantBy(m, i, tools) \in Gists
<1>1. /\ extract_text_content(m, i) \in Seq(Tokens) /\ Tool(m) \in Seq(CallIds)
      /\ m.role \in {"user", "assistant", "tool", "developer"}
      /\ m.role = "tool" => <<m.tool, m.text>> \in Answers
      /\ m.tool # None => m.tool \in CallIds
  BY MessageTypes
<1>2. ASSUME NEW t \in Tokens PROVE <<t>> \in Seq(Tokens)
  OBVIOUS
<1>7. /\ \A c \in CallIds : <<"call", c>> \in Tokens /\ <<"result", <<c, TRUE>>>> \in Tokens
      /\ \A a \in Answers : <<"result", a>> \in Tokens
  <2>1. (\A c \in CallIds : <<"call", c>> \in Tokens) /\ (\A a \in Answers : <<"result", a>> \in Tokens)
    BY DEF Tokens
  <2>2. \A c \in CallIds : <<c, TRUE>> \in Answers
    BY DEF Answers
  <2> QED
    BY <2>1, <2>2
<1>3. <<>> \in Seq(Tokens)
  OBVIOUS
<1>4. Telling(m, i, tools) \in Seq(Tokens)
  <2>1. CASE m.role = "tool"
    <3>1. <<"result", <<m.tool, m.text>>>> \in Tokens
      BY <1>1, <1>7, <2>1
    <3>2. <<<<"result", <<m.tool, m.text>>>>>> \in Seq(Tokens)
      BY <1>2, <3>1
    <3> QED
      BY <1>3, <2>1, <3>2 DEF Telling
  <2>2. CASE m.role # "tool"
    <3> DEFINE rest == IF tools \/ m.tool = None THEN <<>>
                       ELSE IF m.role = "assistant" THEN <<<<"call", m.tool>>>> ELSE <<<<"result", <<m.tool, TRUE>>>>>>
    <3>1. rest \in Seq(Tokens)
      <4>1. m.tool # None => <<"call", m.tool>> \in Tokens /\ <<"result", <<m.tool, TRUE>>>> \in Tokens
        BY <1>1, <1>7
      <4>2. m.tool # None => <<<<"call", m.tool>>>> \in Seq(Tokens)
                             /\ <<<<"result", <<m.tool, TRUE>>>>>> \in Seq(Tokens)
        BY <1>2, <4>1
      <4> QED
        BY <1>3, <4>2
    <3>2. Telling(m, i, tools) = extract_text_content(m, i) \o rest
      BY <2>2 DEF Telling
    <3> HIDE DEF rest
    <3> QED
      BY <1>1, <3>1, <3>2, ConcatProperties
  <2> QED
    BY <2>1, <2>2
<1>5. Range(Tool(m)) \in SUBSET CallIds /\ {} \in SUBSET CallIds
  BY <1>1, RangeIn
<1>6. (IF m.role = "tool" THEN "user" ELSE m.role) \in {"user", "assistant", "developer"}
  BY <1>1
<1> QED
  BY <1>4, <1>5, <1>6 DEF MeantBy, Gists

LEMMA MeantNext ==
    ASSUME NEW tools \in BOOLEAN
    PROVE  /\ Meant(<<>>, tools) = <<>>
           /\ \A xs \in Seq(AnyTagged) : Meant(xs, tools) \in Seq(Gists) /\ Len(Meant(xs, tools)) = Len(xs)
           /\ \A xs \in Seq(AnyTagged) : \A x \in AnyTagged :
                Meant(Append(xs, x), tools) = Append(Meant(xs, tools), MeantBy(x[1], x[2], tools))
<1> DEFINE f == [x \in AnyTagged |-> MeantBy(x[1], x[2], tools)]
<1>1. f \in Mapping(AnyTagged, Gists) /\ \A x \in AnyTagged : f[x] = MeantBy(x[1], x[2], tools)
  <2>1. \A x \in AnyTagged : MeantBy(x[1], x[2], tools) \in Gists
    <3> SUFFICES ASSUME NEW x \in AnyTagged PROVE MeantBy(x[1], x[2], tools) \in Gists
      OBVIOUS
    <3>1. x[1] \in OpenAIMessages \cup AnthropicMessages /\ x[2] \in Nat
      BY DEF AnyTagged
    <3> QED
      BY <3>1, MeantType
  <2> QED
    BY <2>1 DEF Mapping
<1>2. \A xs : Meant(xs, tools) = Each(f, xs)
  BY DEF Meant
<1> HIDE DEF f
<1> QED
  BY <1>1, <1>2, EachNext

LEMMA MeantIs ==
    ASSUME NEW ms, NEW tools \in BOOLEAN,
           ms \in Seq(OpenAIMessages) \cup Seq(AnthropicMessages)
    PROVE  /\ Meant(Numbered(ms), tools) = [i \in 1..Len(ms) |-> MeantBy(ms[i], i, tools)]
           /\ Meant(Numbered(ms), tools) \in Seq(Gists) /\ Len(Meant(Numbered(ms), tools)) = Len(ms)
<1> DEFINE n == Len(ms)
           xs == Numbered(ms)
           f == [x \in AnyTagged |-> MeantBy(x[1], x[2], tools)]
<1>1. n \in Nat /\ \A i \in 1..n : ms[i] \in OpenAIMessages \cup AnthropicMessages /\ i \in Nat
  OBVIOUS
<1>2. xs = [i \in 1..n |-> <<ms[i], i>>]
  BY DEF Numbered
<1> HIDE DEF xs, n
<1>3. \A i \in 1..n : xs[i] = <<ms[i], i>> /\ xs[i] \in AnyTagged
  BY <1>1, <1>2 DEF AnyTagged
<1>4. xs \in [1..n -> AnyTagged]
  BY <1>2, <1>3
<1>5. xs \in Seq(AnyTagged) /\ Len(xs) = n
  BY <1>1, <1>4
<1>6. \A x \in AnyTagged : f[x] = MeantBy(x[1], x[2], tools)
  OBVIOUS
<1>7. Meant(xs, tools) = [i \in 1..n |-> f[xs[i]]]
  BY <1>5 DEF Meant, Each
<1> HIDE DEF f
<1>8. \A i \in 1..n : f[xs[i]] = MeantBy(ms[i], i, tools)
  <2> SUFFICES ASSUME NEW i \in 1..n PROVE f[xs[i]] = MeantBy(ms[i], i, tools)
    OBVIOUS
  <2> DEFINE x == xs[i]
  <2>1. x \in AnyTagged /\ x[1] = ms[i] /\ x[2] = i
    BY <1>3
  <2> HIDE DEF x
  <2> QED
    BY <1>6, <2>1 DEF x
<1>9. Meant(xs, tools) \in Seq(Gists) /\ Len(Meant(xs, tools)) = n
  BY <1>5, MeantNext
<1> QED
  BY <1>7, <1>8, <1>9 DEF xs, n

(* Merging.                                                                *)
LEMMA TakenTells ==
    ASSUME NEW us \in Seq(UnifiedMessages), NEW acc \in Seq(UnifiedMessages), NEW u \in UnifiedMessages,
           Tells(Judged(us, TRUE), Judged(acc, TRUE))
    PROVE  Tells(Judged(Append(us, u), TRUE), Judged(Taken(acc, u), TRUE))
<1> DEFINE gs == Judged(us, TRUE)
           hs == Judged(acc, TRUE)
           g == GistOf(u, TRUE)
<1>1. gs \in Seq(Gists) /\ hs \in Seq(Gists) /\ g \in Gists /\ Judged(Append(us, u), TRUE) = Append(gs, g)
  BY JudgedNext, SpeechType
<1>2. CASE acc # <<>> /\ Last(acc).role = u.role
  <2> DEFINE front == Front(acc)
             last == Last(acc)
             m == Merged(last, u)
             fs == Judged(front, TRUE)
             l == GistOf(last, TRUE)
             k == GistOf(m, TRUE)
  <2>1. front \in Seq(UnifiedMessages) /\ last \in UnifiedMessages /\ acc = Append(front, last)
    BY <1>2, LastOf
  <2>2. Taken(acc, u) = Append(front, m) /\ last.role = u.role
    BY <1>2 DEF Taken
  <2> HIDE DEF front, last
  <2>3. /\ m \in UnifiedMessages /\ m.role = last.role /\ m.text = last.text \o u.text
        /\ m.calls = IF u.role = "assistant" THEN last.calls \o u.calls ELSE last.calls
    BY <2>1, MergedIs
  <2> HIDE DEF m
  <2>4. /\ fs \in Seq(Gists) /\ l \in Gists /\ k \in Gists
        /\ hs = Append(fs, l) /\ Judged(Taken(acc, u), TRUE) = Append(fs, k)
    BY <2>1, <2>2, <2>3, JudgedNext, SpeechType
  <2>5. g.role = u.role /\ l.role = u.role /\ k.role = u.role
    BY <2>2, <2>3 DEF GistOf
  <2>6. k.text = l.text \o g.text
    BY <2>3 DEF GistOf, Speech
  <2>7. u.role = "assistant" => k.ids = l.ids \cup g.ids
    <3> SUFFICES ASSUME u.role = "assistant" PROVE k.ids = l.ids \cup g.ids
      OBVIOUS
    <3>1. Range(last.calls \o u.calls) = Range(last.calls) \cup Range(u.calls)
      BY <2>1, FieldTypes, RangeConcatenation
    <3> QED
      BY <2>3, <3>1 DEF GistOf
  <2> HIDE DEF fs, l, k, g, gs, hs
  <2>8. \A c : Makes(k, c) <=> Makes(l, c) \/ Makes(g, c)
    <3> SUFFICES ASSUME NEW c PROVE Makes(k, c) <=> Makes(l, c) \/ Makes(g, c)
      OBVIOUS
    <3>1. CASE u.role = "assistant"
      BY <2>5, <2>7, <3>1 DEF Makes
    <3>2. CASE u.role # "assistant"
      BY <2>5, <3>2 DEF Makes
    <3> QED
      BY <3>1, <3>2
  <2>9. Loud(gs) = Loud(hs) /\ Late(gs) = Late(hs)
    BY DEF Tells, gs, hs
  <2>10. \A c : (Held(gs, c) => Held(hs, c)) /\ (Sealed(gs, c) => Sealed(hs, c))
    BY DEF Tells, gs, hs
  <2>11. /\ Loud(fs) \in Seq(Tokens) /\ Late(fs) \in Seq(Tokens)
         /\ l.text \in Seq(Tokens) /\ g.text \in Seq(Tokens)
    BY <1>1, <2>4, OneMoreGist, GistIs
  <2>12. /\ Loud(fs) \o k.text = (Loud(fs) \o l.text) \o g.text
         /\ Late(fs) \o k.text = (Late(fs) \o l.text) \o g.text
    <3>1. /\ (Loud(fs) \o l.text) \o g.text = Loud(fs) \o (l.text \o g.text)
          /\ (Late(fs) \o l.text) \o g.text = Late(fs) \o (l.text \o g.text)
      BY <2>11, TextsJoined
    <3> QED
      BY <2>6, <3>1
  <2>13. Loud(Append(gs, g)) = Loud(Append(fs, k)) /\ Late(Append(gs, g)) = Late(Append(fs, k))
    <3>1. CASE u.role = "developer"
      <4>1. Loud(Append(gs, g)) = Loud(gs) /\ Late(Append(gs, g)) = Late(gs) \o g.text
        BY <1>1, <2>5, <3>1, OneMoreGist
      <4>2. Loud(hs) = Loud(fs) /\ Late(hs) = Late(fs) \o l.text
        BY <2>4, <2>5, <3>1, OneMoreGist
      <4>3. Loud(Append(fs, k)) = Loud(fs) /\ Late(Append(fs, k)) = Late(fs) \o k.text
        BY <2>4, <2>5, <3>1, OneMoreGist
      <4> QED
        BY <2>9, <2>12, <4>1, <4>2, <4>3
    <3>2. CASE u.role # "developer"
      <4>1. Loud(Append(gs, g)) = Loud(gs) \o g.text /\ Late(Append(gs, g)) = <<>>
        BY <1>1, <2>5, <3>2, OneMoreGist
      <4>2. Loud(hs) = Loud(fs) \o l.text
        BY <2>4, <2>5, <3>2, OneMoreGist
      <4>3. Loud(Append(fs, k)) = Loud(fs) \o k.text /\ Late(Append(fs, k)) = <<>>
        BY <2>4, <2>5, <3>2, OneMoreGist
      <4> QED
        BY <2>9, <2>12, <4>1, <4>2, <4>3
    <3> QED
      BY <3>1, <3>2
  <2>14. ASSUME NEW c
         PROVE  /\ Held(Append(gs, g), c) => Held(Append(fs, k), c)
                /\ Sealed(Append(gs, g), c) => Sealed(Append(fs, k), c)
    <3>1. /\ Held(Append(gs, g), c) <=> Held(gs, c) \/ Makes(g, c)
          /\ Sealed(Append(gs, g), c) <=> Sealed(gs, c) \/ (g.role # "assistant" /\ Held(gs, c))
      BY <1>1, OneMoreGist
    <3>2. /\ Held(hs, c) <=> Held(fs, c) \/ Makes(l, c)
          /\ Sealed(hs, c) <=> Sealed(fs, c) \/ (l.role # "assistant" /\ Held(fs, c))
      BY <2>4, OneMoreGist
    <3>3. /\ Held(Append(fs, k), c) <=> Held(fs, c) \/ Makes(k, c)
          /\ Sealed(Append(fs, k), c) <=> Sealed(fs, c) \/ (k.role # "assistant" /\ Held(fs, c))
      BY <2>4, OneMoreGist
    <3>4. Makes(l, c) => l.role = "assistant"
      BY DEF Makes
    <3> QED
      BY <2>5, <2>8, <2>10, <3>1, <3>2, <3>3, <3>4
  <2> QED
    BY <1>1, <2>4, <2>13, <2>14 DEF Tells
<1>3. CASE ~(acc # <<>> /\ Last(acc).role = u.role)
  <2>1. Taken(acc, u) = Append(acc, u)
    BY <1>3 DEF Taken
  <2>2. Judged(Taken(acc, u), TRUE) = Append(hs, g)
    BY <2>1, JudgedNext
  <2> HIDE DEF gs, hs, g
  <2>3. Tells(Append(gs, g), Append(hs, g))
    BY <1>1, TellsNext DEF gs, hs
  <2> QED
    BY <1>1, <2>2, <2>3
<1> QED
  BY <1>2, <1>3

LEMMA MergeTells ==
    \A us \in Seq(UnifiedMessages) : Tells(Judged(us, TRUE), Judged(merge_adjacent_messages(us), TRUE))
<1> DEFINE P == {us \in Seq(UnifiedMessages) :
                   Tells(Judged(us, TRUE), Judged(merge_adjacent_messages(us), TRUE))}
<1>1. <<>> \in P
  <2>1. <<>> \in Seq(UnifiedMessages)
    OBVIOUS
  <2> QED
    BY <2>1, MergeNext DEF Tells
<1>2. ASSUME NEW us \in Seq(UnifiedMessages), NEW u \in UnifiedMessages, us \in P
      PROVE  Append(us, u) \in P
  <2>1. merge_adjacent_messages(us) \in Seq(UnifiedMessages)
        /\ merge_adjacent_messages(Append(us, u)) = Taken(merge_adjacent_messages(us), u)
    BY MergeNext
  <2>2. Tells(Judged(Append(us, u), TRUE), Judged(merge_adjacent_messages(Append(us, u)), TRUE))
    BY <1>2, <2>1, TakenTells
  <2> QED
    BY <2>2, AppendProperties
<1> HIDE DEF P
<1>3. Seq(UnifiedMessages) \subseteq P
  BY <1>1, <1>2, OneByOne
<1> QED
  BY <1>3 DEF P

(* The loop over OpenAI messages: what is pending has been said, not yet   *)
(* written down.                                                           *)
Sounds(gs, acc, tools) ==
    LET hs == Judged(acc.done, tools) IN
    IF acc.pending = <<>> THEN Tells(gs, hs)
    ELSE /\ Loud(gs) = IF tools THEN Loud(hs) ELSE Loud(hs) \o tool_results_to_text(acc.pending)
         /\ Late(gs) = <<>>
         /\ \A c : Held(gs, c) => Held(hs, c)

LEMMA EachOne ==
    ASSUME NEW S, NEW T, NEW g \in Mapping(S, T), NEW c \in S
    PROVE  Each(g, <<c>>) = <<g[c]>>
<1> DEFINE one == <<c>>
<1>1. one \in Seq(S) /\ Len(one) = 1 /\ one[1] = c
  OBVIOUS
<1>2. g[c] \in T
  BY DEF Mapping
<1> HIDE DEF one
<1>3. Each(g, one) = [i \in 1..1 |-> g[one[i]]]
  BY <1>1 DEF Each
<1>4. [i \in 1..1 |-> g[one[i]]] = [i \in 1..1 |-> g[c]]
  BY <1>1
<1>5. [i \in 1..1 |-> g[c]] = <<g[c]>>
  <2> DEFINE r == g[c]
  <2> HIDE DEF r
  <2>1. [i \in 1..1 |-> r] = <<r>>
    OBVIOUS
  <2> QED
    BY <2>1 DEF r
<1> QED
  BY <1>3, <1>4, <1>5 DEF one

LEMMA ResultTextNext ==
    /\ tool_results_to_text(<<>>) = <<>> /\ tool_calls_to_text(<<>>) = <<>>
    /\ \A c \in CallIds : tool_calls_to_text(<<c>>) = <<<<"call", c>>>>
    /\ \A a \in Answers : tool_results_to_text(<<a>>) = <<<<"result", a>>>>
    /\ \A s \in Seq(Answers) : \A a \in Answers :
         tool_results_to_text(Append(s, a)) = tool_results_to_text(s) \o <<<<"result", a>>>>
<1> DEFINE f == [a \in Answers |-> <<"result", a>>]
           h == [c \in CallIds |-> <<"call", c>>]
<1>1. f \in Mapping(Answers, Tokens) /\ h \in Mapping(CallIds, Tokens)
  BY DEF Mapping, Tokens
<1>2. (\A a \in Answers : f[a] = <<"result", a>>) /\ (\A c \in CallIds : h[c] = <<"call", c>>)
  OBVIOUS
<1>3. ASSUME NEW s \in Seq(Answers) PROVE tool_results_to_text(s) = Each(f, s)
  <2>1. \A i \in 1..Len(s) : f[s[i]] = <<"result", s[i]>>
    OBVIOUS
  <2> HIDE DEF f
  <2> QED
    BY <2>1 DEF tool_results_to_text, Each
<1>8. ASSUME NEW s \in Seq(CallIds) PROVE tool_calls_to_text(s) = Each(h, s)
  <2>1. \A i \in 1..Len(s) : h[s[i]] = <<"call", s[i]>>
    OBVIOUS
  <2> HIDE DEF h
  <2> QED
    BY <2>1 DEF tool_calls_to_text, Each
<1> HIDE DEF f, h
<1>4. /\ <<>> \in Seq(CallIds) /\ \A c \in CallIds : <<c>> \in Seq(CallIds)
      /\ <<>> \in Seq(Answers) /\ \A a \in Answers : <<a>> \in Seq(Answers)
  OBVIOUS
<1>5. tool_results_to_text(<<>>) = <<>> /\ tool_calls_to_text(<<>>) = <<>>
  <2>1. Each(f, <<>>) = <<>> /\ Each(h, <<>>) = <<>>
    BY <1>1, EachNext
  <2> QED
    BY <1>3, <1>4, <1>8, <2>1
<1>6. ASSUME NEW s \in Seq(Answers), NEW a \in Answers
      PROVE  tool_results_to_text(Append(s, a)) = tool_results_to_text(s) \o <<<<"result", a>>>>
  <2> DEFINE r == f[a]
             e == Each(f, s)
  <2>1. Append(s, a) \in Seq(Answers)
    BY AppendProperties
  <2>2. Each(f, Append(s, a)) = Append(e, r) /\ e \in Seq(Tokens) /\ r \in Tokens
    <3>1. Each(f, Append(s, a)) = Append(Each(f, s), f[a]) /\ Each(f, s) \in Seq(Tokens)
      BY <1>1, EachNext
    <3>2. f[a] \in Tokens
      BY <1>1 DEF Mapping
    <3> QED
      BY <3>1, <3>2
  <2> HIDE DEF e, r
  <2>3. Append(e, r) = e \o <<r>>
    BY <2>2, AppendIsConcat
  <2> QED
    BY <1>2, <1>3, <2>1, <2>2, <2>3 DEF e, r
<1>7. ASSUME NEW c \in CallIds PROVE tool_calls_to_text(<<c>>) = <<<<"call", c>>>>
  <2>1. Each(h, <<c>>) = <<h[c]>>
    BY <1>1, EachOne
  <2>2. tool_calls_to_text(<<c>>) = <<h[c]>>
    BY <1>4, <1>8, <2>1
  <2> QED
    BY <1>2, <2>2
<1>9. ASSUME NEW a \in Answers PROVE tool_results_to_text(<<a>>) = <<<<"result", a>>>>
  <2>1. Each(f, <<a>>) = <<f[a]>>
    BY <1>1, EachOne
  <2>2. tool_results_to_text(<<a>>) = <<f[a]>>
    BY <1>3, <1>4, <2>1
  <2> QED
    BY <1>2, <2>2
<1> QED
  BY <1>5, <1>6, <1>7, <1>9

LEMMA FlushTells ==
    ASSUME NEW gs \in Seq(Gists), NEW acc \in Working, NEW tools \in BOOLEAN, Sounds(gs, acc, tools)
    PROVE  Tells(gs, Judged(Flushed(acc.done, acc.pending), tools))
<1> DEFINE hs == Judged(acc.done, tools)
           pending == acc.pending
<1>1. acc.done \in Seq(UnifiedMessages) /\ pending \in Seq(Answers)
  BY DEF Working
<1>2. CASE pending = <<>>
  BY <1>1, <1>2, FlushedType DEF Sounds
<1>3. CASE pending # <<>>
  <2> DEFINE none == <<>>
             u == Unified("user", none, none, pending, none)
             g == GistOf(u, tools)
  <2>1. u \in UnifiedMessages /\ Flushed(acc.done, pending) = Append(acc.done, u)
    BY <1>1, <1>3, FlushedType
  <2>2. u.role = "user" /\ u.text = none /\ u.calls = none /\ u.results = pending
    BY UnifiedIs
  <2>3. none \in Seq(Tokens) /\ \A s \in Seq(Tokens) : none \o s = s /\ s \o none = s
    OBVIOUS
  <2>4. tool_results_to_text(pending) \in Seq(Tokens) /\ tool_calls_to_text(none) = none
    <3>1. <<>> \in Seq(CallIds)
      OBVIOUS
    <3> QED
      BY <1>1, <3>1, TextForms, ResultTextNext
  <2> HIDE DEF u, none
  <2>5. Judged(Append(acc.done, u), tools) = Append(hs, g) /\ hs \in Seq(Gists) /\ g \in Gists
    BY <1>1, <2>1, JudgedNext, SpeechType
  <2>6. Results(u) = pending
    <3>1. pending # None
      BY <1>1, PayloadAssumption DEF Answers
    <3> QED
      BY <2>2, <3>1 DEF Results
  <2>7. g.role = "user" /\ g.text = IF tools THEN none ELSE tool_results_to_text(pending)
    BY <2>2, <2>3, <2>4, <2>6 DEF GistOf, Speech
  <2> HIDE DEF g, hs
  <2>8. /\ Loud(gs) = IF tools THEN Loud(hs) ELSE Loud(hs) \o tool_results_to_text(pending)
        /\ Late(gs) = <<>>
        /\ \A c : Held(gs, c) => Held(hs, c)
    BY <1>3 DEF Sounds, hs
  <2>9. Loud(Append(hs, g)) = Loud(hs) \o g.text /\ Late(Append(hs, g)) = <<>> /\ Loud(hs) \in Seq(Tokens)
    BY <2>5, <2>7, OneMoreGist
  <2>10. Loud(gs) = Loud(Append(hs, g)) /\ Late(gs) = Late(Append(hs, g))
    BY <2>3, <2>7, <2>8, <2>9
  <2>11. ASSUME NEW c
         PROVE  (Held(gs, c) => Held(Append(hs, g), c)) /\ (Sealed(gs, c) => Sealed(Append(hs, g), c))
    BY <2>5, <2>7, <2>8, OneMoreGist, SealedHeld
  <2> QED
    BY <2>1, <2>5, <2>10, <2>11 DEF Tells
<1> QED
  BY <1>2, <1>3

LEMMA UnifySounds ==
    ASSUME NEW gs \in Seq(Gists), NEW acc \in Working, NEW x \in Tagged, NEW tools \in BOOLEAN,
           Sounds(gs, acc, tools)
    PROVE  Sounds(Append(gs, MeantBy(x[1], x[2], tools)), Unify(acc, x[1], x[2]), tools)
<1> DEFINE m == x[1]
           i == x[2]
           g == MeantBy(m, i, tools)
           hs == Judged(acc.done, tools)
           flushed == Flushed(acc.done, acc.pending)
<1>1. m \in OpenAIMessages /\ m \in OpenAIMessages \cup AnthropicMessages /\ i \in Nat
  BY DEF Tagged
<1>2. acc.done \in Seq(UnifiedMessages) /\ acc.pending \in Seq(Answers)
  BY DEF Working
<1>3. g \in Gists /\ hs \in Seq(Gists)
  BY <1>1, <1>2, MeantType, JudgedNext
<1> HIDE DEF m, i
<1>4. CASE m.role = "tool"
  <2> DEFINE a == <<m.tool, m.text>>
             pending == Append(acc.pending, a)
             t == <<<<"result", a>>>>
             none == <<>>
  <2>1. a \in Answers
    BY <1>1, <1>4, MessageTypes
  <2>2. pending # <<>> /\ Unify(acc, m, i).done = acc.done /\ Unify(acc, m, i).pending = pending
    BY <1>2, <1>4, <2>1, LastOf DEF Unify
  <2>3. tool_results_to_text(pending) = tool_results_to_text(acc.pending) \o t
    BY <1>2, <2>1, ResultTextNext
  <2>4. g.role = "user" /\ g.text = IF tools THEN none ELSE t
    BY <1>4 DEF MeantBy, Telling
  <2>5. g.text \in Seq(Tokens) /\ none \in Seq(Tokens) /\ \A s \in Seq(Tokens) : s \o none = s
    BY <1>3, GistIs
  <2>6. tool_results_to_text(acc.pending) \in Seq(Tokens) /\ tool_results_to_text(none) = none
    <3>1. <<>> \in Seq(CallIds)
      OBVIOUS
    <3> QED
      BY <1>2, <3>1, TextForms, ResultTextNext
  <2> HIDE DEF a, pending, t, g, hs, none
  <2>7. Loud(hs) \in Seq(Tokens) /\ Loud(gs) \in Seq(Tokens)
    BY <1>3, OneMoreGist
  <2>8. Loud(gs) = IF tools THEN Loud(hs) ELSE Loud(hs) \o tool_results_to_text(acc.pending)
    <3>1. CASE acc.pending = none
      <4>1. Loud(gs) = Loud(hs)
        BY <3>1 DEF Sounds, Tells, hs, none
      <4> QED
        BY <2>5, <2>6, <2>7, <3>1, <4>1
    <3>2. CASE acc.pending # none
      BY <3>2 DEF Sounds, hs, none
    <3> QED
      BY <3>1, <3>2
  <2>9. \A c : Held(gs, c) => Held(hs, c)
    BY DEF Sounds, Tells, hs
  <2>10. Loud(Append(gs, g)) = Loud(gs) \o g.text /\ Late(Append(gs, g)) = <<>>
    BY <1>3, <2>4, OneMoreGist
  <2>11. \A c : Held(Append(gs, g), c) => Held(hs, c)
    <3>1. \A c : Held(Append(gs, g), c) <=> Held(gs, c) \/ Makes(g, c)
      BY <1>3, OneMoreGist
    <3>2. \A c : ~Makes(g, c)
      BY <2>4 DEF Makes
    <3> QED
      BY <2>9, <3>1, <3>2
  <2>12. Loud(Append(gs, g)) = IF tools THEN Loud(hs) ELSE Loud(hs) \o tool_results_to_text(pending)
    <3>1. CASE tools
      BY <2>4, <2>5, <2>7, <2>8, <2>10, <3>1
    <3>2. CASE ~tools
      <4>1. g.text = t
        BY <2>4, <3>2
      <4>2. Loud(Append(gs, g)) = (Loud(hs) \o tool_results_to_text(acc.pending)) \o t
        BY <2>8, <2>10, <3>2, <4>1
      <4>3. (Loud(hs) \o tool_results_to_text(acc.pending)) \o t
              = Loud(hs) \o (tool_results_to_text(acc.pending) \o t)
        BY <2>5, <2>6, <2>7, <4>1, TextsJoined
      <4> QED
        BY <2>3, <3>2, <4>2, <4>3
    <3> QED
      BY <3>1, <3>2
  <2>13. Sounds(Append(gs, g), Unify(acc, m, i), tools)
    BY <2>2, <2>10, <2>11, <2>12 DEF Sounds, hs
  <2> QED
    BY <2>13 DEF g, m, i
<1>5. CASE m.role # "tool"
  <2> DEFINE none == <<>>
             calls == IF m.role = "assistant" THEN Tool(m) ELSE none
             u == Unified(m.role, Spoken(m, i), calls, None, none)
  <2>1. Unify(acc, m, i).done = Append(flushed, u) /\ Unify(acc, m, i).pending = none
    BY <1>5 DEF Unify
  <2>2. none \in Seq(CallIds) /\ none \in Seq(Tokens) /\ \A s \in Seq(Tokens) : s \o none = s /\ none \o s = s
    OBVIOUS
  <2>3. /\ Spoken(m, i) \in Seq(Tokens) /\ Tool(m) \in Seq(CallIds)
        /\ m.role \in {"user", "assistant", "developer"}
        /\ m.tool # None => m.tool \in CallIds /\ Tool(m) = <<m.tool>>
        /\ m.tool = None => Tool(m) = none
    BY <1>1, <1>5, MessageTypes
  <2>4. m.role # "assistant" => m.tool = None
    BY <1>1, <1>5 DEF OpenAIMessages, Message
  <2> HIDE DEF none
  <2>5. calls \in Seq(CallIds)
    BY <2>2, <2>3
  <2>6. tool_calls_to_text(calls) = IF m.tool = None THEN none ELSE <<<<"call", m.tool>>>>
    BY <2>3, <2>4, ResultTextNext DEF none
  <2>7. tool_calls_to_text(calls) \in Seq(Tokens) /\ tool_results_to_text(none) = none
    <3>1. <<>> \in Seq(Answers)
      OBVIOUS
    <3> QED
      BY <2>5, <3>1, TextForms, ResultTextNext DEF none
  <2>15. extract_text_content(m, i) = Spoken(m, i)
    <3>1. m.role = "user" => Tool(m) = <<>> /\ ResultsOf(<<>>) = <<>>
      BY <1>1, <2>3, <2>4, ResultsRead DEF none
    <3>2. m.role = "user" => tool_results_to_text(ResultsOf(Tool(m))) = none
      BY <2>7, <3>1 DEF none
    <3> QED
      BY <2>2, <2>3, <3>2 DEF extract_text_content
  <2>8. Range(calls) = IF m.role = "assistant" THEN Range(Tool(m)) ELSE {}
    BY RangeIn DEF none
  <2> HIDE DEF calls
  <2>9. u \in UnifiedMessages /\ u.role = m.role /\ u.text = Spoken(m, i) /\ u.calls = calls /\ u.results = None
    BY <2>2, <2>3, <2>5, UnifiedIs
  <2> HIDE DEF u
  <2>10. GistOf(u, tools) = g
    <3>1. Results(u) = none
      BY <2>9 DEF Results, none
    <3>2. Speech(u, tools) = Telling(m, i, tools)
      <4>1. CASE tools
        <5>1. Telling(m, i, tools) = Spoken(m, i) \o none
          BY <1>5, <2>15, <4>1 DEF Telling, none
        <5> QED
          BY <2>2, <2>3, <2>9, <4>1, <5>1 DEF Speech
      <4>2. CASE ~tools
        <5>1. Telling(m, i, tools) = Spoken(m, i) \o tool_calls_to_text(calls)
          BY <1>5, <2>4, <2>6, <2>15, <4>2 DEF Telling, none
        <5>2. Speech(u, tools) = (Spoken(m, i) \o tool_calls_to_text(calls)) \o none
          BY <2>7, <2>9, <3>1, <4>2 DEF Speech
        <5>3. Spoken(m, i) \o tool_calls_to_text(calls) \in Seq(Tokens)
          BY <2>3, <2>7, ConcatProperties
        <5> QED
          BY <2>2, <5>1, <5>2, <5>3
      <4> QED
        BY <4>1, <4>2
    <3> QED
      BY <1>5, <2>8, <2>9, <3>2 DEF GistOf, MeantBy
  <2> HIDE DEF g, hs
  <2>11. flushed \in Seq(UnifiedMessages) /\ Tells(gs, Judged(flushed, tools))
    BY <1>2, FlushedType, FlushTells
  <2> HIDE DEF flushed
  <2>12. Judged(Append(flushed, u), tools) = Append(Judged(flushed, tools), g)
         /\ Judged(flushed, tools) \in Seq(Gists)
    BY <2>9, <2>10, <2>11, JudgedNext
  <2>13. Tells(Append(gs, g), Append(Judged(flushed, tools), g))
    BY <1>3, <2>11, <2>12, TellsNext
  <2>14. Sounds(Append(gs, g), Unify(acc, m, i), tools)
    BY <2>1, <2>12, <2>13 DEF Sounds, none
  <2> QED
    BY <2>14 DEF g, m, i
<1> QED
  BY <1>4, <1>5

LEMMA OpenAITells ==
    ASSUME NEW ms \in Seq(OpenAIMessages), NEW tools \in BOOLEAN
    PROVE  Tells(Meant(Numbered(ms), tools), Judged(convert_openai_messages_to_unified(ms), tools))
<1> DEFINE P == {xs \in Seq(Tagged) : Sounds(Meant(xs, tools), Worked(xs), tools)}
<1>1. Tagged \subseteq AnyTagged
  BY DEF Tagged, AnyTagged
<1>2. Seq(Tagged) \subseteq Seq(AnyTagged)
  BY <1>1, SeqMonotonic
<1>3. <<>> \in P
  <2>1. <<>> \in Seq(Tagged)
    OBVIOUS
  <2>2. Meant(<<>>, tools) = <<>> /\ Judged(<<>>, tools) = <<>> /\ Worked(<<>>) = Start
    BY MeantNext, JudgedNext, WorkedNext
  <2>3. Start.done = <<>> /\ Start.pending = <<>>
    BY DEF Start
  <2>4. Tells(<<>>, <<>>)
    BY DEF Tells
  <2> QED
    BY <2>1, <2>2, <2>3, <2>4 DEF Sounds
<1>4. ASSUME NEW xs \in Seq(Tagged), NEW x \in Tagged, xs \in P PROVE Append(xs, x) \in P
  <2> DEFINE gs == Meant(xs, tools)
             acc == Worked(xs)
             g == MeantBy(x[1], x[2], tools)
  <2>1. xs \in Seq(AnyTagged) /\ x \in AnyTagged
    BY <1>1, <1>2
  <2>2. gs \in Seq(Gists) /\ Meant(Append(xs, x), tools) = Append(gs, g)
    BY <2>1, MeantNext
  <2>3. acc \in Working /\ Worked(Append(xs, x)) = Unify(acc, x[1], x[2])
    BY WorkedNext
  <2>4. Sounds(gs, acc, tools)
    BY <1>4
  <2> HIDE DEF gs, acc
  <2>5. Sounds(Append(gs, g), Unify(acc, x[1], x[2]), tools)
    BY <2>2, <2>3, <2>4, UnifySounds
  <2> QED
    BY <2>2, <2>3, <2>5, AppendProperties
<1> HIDE DEF P
<1>5. Seq(Tagged) \subseteq P
  BY <1>3, <1>4, OneByOne
<1> DEFINE xs == Numbered(ms)
           acc == Worked(xs)
<1>6. xs \in Seq(Tagged) /\ convert_openai_messages_to_unified(ms) = Flushed(acc.done, acc.pending)
  BY WorkedNext
<1> HIDE DEF xs
<1>7. Sounds(Meant(xs, tools), acc, tools)
  BY <1>5, <1>6 DEF P
<1>8. acc \in Working /\ Meant(xs, tools) \in Seq(Gists)
  BY <1>2, <1>6, WorkedNext, MeantNext
<1> HIDE DEF acc
<1>9. Tells(Meant(xs, tools), Judged(Flushed(acc.done, acc.pending), tools))
  BY <1>7, <1>8, FlushTells
<1> QED
  BY <1>6, <1>9 DEF xs

LEMMA AnthropicTells ==
    ASSUME NEW ms \in Seq(AnthropicMessages), NEW tools \in BOOLEAN
    PROVE  Tells(Meant(Numbered(ms), tools), Judged(convert_anthropic_messages(ms), tools))
<1> DEFINE n == Len(ms)
           us == convert_anthropic_messages(ms)
           none == <<>>
           new(m, i) == IF m.role = "assistant"
                        THEN Unified("assistant", extract_text_content(m, i), Tool(m), None, Tool(m))
                        ELSE Unified("user", extract_text_content(m, i), none,
                                     IF m.tool = None THEN None ELSE ResultsOf(Tool(m)), Tool(m))
<1>1. n \in Nat /\ \A i \in 1..n : ms[i] \in AnthropicMessages /\ i \in Nat
  OBVIOUS
<1>2. us = [i \in 1..n |-> new(ms[i], i)]
  BY DEF convert_anthropic_messages
<1>3. none \in Seq(CallIds) /\ none \in Seq(Tokens) /\ \A s \in Seq(Tokens) : s \o none = s /\ none \o s = s
  OBVIOUS
<1> HIDE DEF none
<1>4. ASSUME NEW m \in AnthropicMessages, NEW i \in Nat
      PROVE  new(m, i) \in UnifiedMessages /\ GistOf(new(m, i), tools) = MeantBy(m, i, tools)
  <2> DEFINE text == extract_text_content(m, i)
             read == ResultsOf(Tool(m))
  <2>1. /\ text \in Seq(Tokens) /\ Tool(m) \in Seq(CallIds)
        /\ m.tool # None => m.tool \in CallIds /\ Tool(m) = <<m.tool>>
        /\ m.tool = None => Tool(m) = none
    BY MessageTypes DEF none
  <2>2. m.role \in {"user", "assistant"}
    BY DEF AnthropicMessages, Message
  <2>7. read \in Seq(Answers) /\ (m.tool = None => read = none)
    BY <2>1, ResultsRead DEF none
  <2>3. /\ tool_calls_to_text(none) = none /\ tool_results_to_text(none) = none
        /\ tool_calls_to_text(Tool(m)) \in Seq(Tokens) /\ tool_results_to_text(read) \in Seq(Tokens)
    BY <2>1, <2>7, ResultTextNext, TextForms DEF none
  <2>8. m.tool # None => read = <<<<m.tool, TRUE>>>> /\ <<m.tool, TRUE>> \in Answers
    <3> SUFFICES ASSUME m.tool # None PROVE read = <<<<m.tool, TRUE>>>> /\ <<m.tool, TRUE>> \in Answers
      OBVIOUS
    <3> DEFINE c == m.tool
    <3>1. c \in CallIds /\ Tool(m) = <<c>>
      BY <2>1
    <3> HIDE DEF c
    <3> DEFINE a == <<c, TRUE>>
               rs == ResultsOf(<<c>>)
    <3>2. <<c>> \in Seq(CallIds) /\ Len(<<c>>) = 1 /\ <<c>>[1] = c
      BY <3>1
    <3>3. a \in Answers
      BY <3>1 DEF Answers
    <3>4. rs \in Seq(Answers) /\ Len(rs) = 1 /\ rs[1] = a
      <4> DEFINE one == <<c>>
      <4>1. one \in Seq(CallIds) /\ Len(one) = 1 /\ one[1] = c
        BY <3>2
      <4> HIDE DEF one
      <4>2. ResultsOf(one) \in Seq(Answers) /\ Len(ResultsOf(one)) = Len(one)
        BY <4>1, ResultsRead
      <4>3. ResultsOf(one)[1] = <<one[1], TRUE>>
        <5>1. 1 \in 1..Len(one)
          BY <4>1
        <5>2. \A k \in 1..Len(one) : ResultsOf(one)[k] = <<one[k], TRUE>>
          BY Zenon DEF ResultsOf
        <5> QED
          BY <5>1, <5>2
      <4> QED
        BY <4>1, <4>2, <4>3 DEF one
    <3> HIDE DEF a, rs
    <3>5. <<a>> \in Seq(Answers) /\ Len(<<a>>) = 1 /\ <<a>>[1] = a
      BY <3>3
    <3>6. rs = <<a>>
      <4> DEFINE ts == <<a>>
      <4>1. ts \in Seq(Answers) /\ Len(ts) = 1 /\ ts[1] = a
        BY <3>5
      <4> HIDE DEF ts
      <4>2. \A k \in 1..Len(rs) : rs[k] = ts[k]
        BY <3>4, <4>1
      <4>3. rs = ts
        BY <3>4, <4>1, <4>2, SeqEqual
      <4> QED
        BY <4>3 DEF ts
    <3> QED
      BY <3>1, <3>3, <3>6 DEF c, a, rs, read
  <2>4. /\ tool_calls_to_text(Tool(m)) = IF m.tool = None THEN none ELSE <<<<"call", m.tool>>>>
        /\ tool_results_to_text(read) = IF m.tool = None THEN none ELSE <<<<"result", <<m.tool, TRUE>>>>>>
    BY <2>1, <2>3, <2>7, <2>8, ResultTextNext
  <2> HIDE DEF text, read
  <2>5. CASE m.role = "assistant"
    <3> DEFINE u == new(m, i)
    <3>1. u = Unified("assistant", text, Tool(m), None, Tool(m))
      BY <2>5 DEF text
    <3> HIDE DEF new
    <3>2. u \in UnifiedMessages /\ u.role = "assistant" /\ u.text = text
          /\ u.calls = Tool(m) /\ u.results = None
      BY <2>1, <3>1, UnifiedIs
    <3> HIDE DEF u
    <3>3. Results(u) = none
      BY <3>2 DEF Results, none
    <3>4. Speech(u, tools) = Telling(m, i, tools)
      <4>1. CASE tools
        BY <1>3, <2>1, <2>5, <3>2, <4>1 DEF Speech, Telling, none, text
      <4>2. CASE ~tools
        <5>1. Telling(m, i, tools) = text \o tool_calls_to_text(Tool(m))
          BY <2>4, <2>5, <4>2 DEF Telling, none, text
        <5>2. Speech(u, tools) = (text \o tool_calls_to_text(Tool(m))) \o none
          BY <2>3, <3>2, <3>3, <4>2 DEF Speech
        <5>3. text \o tool_calls_to_text(Tool(m)) \in Seq(Tokens)
          BY <2>1, <2>3, ConcatProperties
        <5> QED
          BY <1>3, <5>1, <5>2, <5>3
      <4> QED
        BY <4>1, <4>2
    <3>5. GistOf(u, tools) = MeantBy(m, i, tools)
      BY <2>5, <3>2, <3>4 DEF GistOf, MeantBy
    <3> QED
      BY <3>2, <3>5 DEF u
  <2>6. CASE m.role # "assistant"
    <3> DEFINE u == new(m, i)
               results == IF m.tool = None THEN None ELSE read
    <3>1. u = Unified("user", text, none, results, Tool(m))
      BY <2>6 DEF text, read
    <3>2. results \in Seq(Answers) \cup {None}
      BY <2>7
    <3> HIDE DEF new, results
    <3>3. u \in UnifiedMessages /\ u.role = "user" /\ u.text = text
          /\ u.calls = none /\ u.results = results
      BY <1>3, <2>1, <3>1, <3>2, UnifiedIs
    <3> HIDE DEF u
    <3>4. Results(u) = read
      <4>1. read # None
        BY <2>7, PayloadAssumption DEF Answers
      <4> QED
        BY <2>7, <3>3, <4>1 DEF Results, results, none
    <3>5. Speech(u, tools) = Telling(m, i, tools)
      <4>1. CASE tools
        BY <1>3, <2>1, <2>2, <2>6, <3>3, <4>1 DEF Speech, Telling, none, text
      <4>2. CASE ~tools
        <5>1. Telling(m, i, tools) = text \o tool_results_to_text(read)
          BY <2>2, <2>4, <2>6, <4>2 DEF Telling, none, text
        <5>2. Speech(u, tools) = (text \o none) \o tool_results_to_text(read)
          BY <2>3, <3>3, <3>4, <4>2 DEF Speech
        <5> QED
          BY <1>3, <2>1, <5>1, <5>2
      <4> QED
        BY <4>1, <4>2
    <3>6. Range(none) = {}
      BY RangeIn DEF none
    <3>7. GistOf(u, tools) = MeantBy(m, i, tools)
      <4>1. (IF tools THEN Range(u.calls) ELSE {}) = {}
        BY <3>3, <3>6
      <4>2. (IF tools /\ m.role = "assistant" THEN Range(Tool(m)) ELSE {}) = {}
        BY <2>6
      <4>3. u.role = IF m.role = "tool" THEN "user" ELSE m.role
        BY <2>2, <2>6, <3>3
      <4> QED
        BY <3>5, <4>1, <4>2, <4>3 DEF GistOf, MeantBy
    <3> QED
      BY <3>3, <3>7 DEF u
  <2> QED
    BY <2>5, <2>6
<1> HIDE DEF us, new, n
<1>5. us \in [1..n -> UnifiedMessages]
  BY <1>1, <1>2, <1>4
<1>6. us \in Seq(UnifiedMessages) /\ Len(us) = n
  BY <1>1, <1>5
<1>7. Judged(us, tools) = [i \in 1..n |-> MeantBy(ms[i], i, tools)]
  <2>1. Judged(us, tools) = [i \in 1..n |-> [u \in UnifiedMessages |-> GistOf(u, tools)][us[i]]]
    BY <1>6 DEF Judged, Each
  <2>2. \A i \in 1..n : [u \in UnifiedMessages |-> GistOf(u, tools)][us[i]] = MeantBy(ms[i], i, tools)
    <3> SUFFICES ASSUME NEW i \in 1..n
                 PROVE  [u \in UnifiedMessages |-> GistOf(u, tools)][us[i]] = MeantBy(ms[i], i, tools)
      OBVIOUS
    <3>1. us[i] \in UnifiedMessages /\ us[i] = new(ms[i], i)
      BY <1>2, <1>5
    <3>2. GistOf(us[i], tools) = MeantBy(ms[i], i, tools)
      BY <1>1, <1>4, <3>1
    <3> QED
      BY <3>1, <3>2
  <2> QED
    BY <2>1, <2>2
<1>8. Meant(Numbered(ms), tools) = [i \in 1..n |-> MeantBy(ms[i], i, tools)]
  BY MeantIs DEF n
<1> QED
  BY <1>7, <1>8 DEF Tells, us

(* Tool handling turns into words what it takes away, and nothing else.    *)
LEMMA JudgedIs ==
    ASSUME NEW us \in Seq(UnifiedMessages), NEW tools \in BOOLEAN
    PROVE  Judged(us, tools) = [i \in 1..Len(us) |-> GistOf(us[i], tools)]
<1> DEFINE f == [u \in UnifiedMessages |-> GistOf(u, tools)]
           n == Len(us)
<1>1. \A i \in 1..n : us[i] \in UnifiedMessages
  OBVIOUS
<1>2. \A i \in 1..n : f[us[i]] = GistOf(us[i], tools)
  BY <1>1
<1>3. Judged(us, tools) = [i \in 1..n |-> f[us[i]]]
  BY DEF Judged, Each
<1> HIDE DEF f
<1> QED
  BY <1>2, <1>3

LEMMA HandlingTells ==
    ASSUME NEW us \in Seq(UnifiedMessages), NEW tools \in BOOLEAN
    PROVE  Judged(ToolsHandled(us, tools), TRUE) = Judged(us, tools)
<1> DEFINE n == Len(us)
           vs == ToolsHandled(us, tools)
<1>1. n \in Nat /\ \A i \in 1..n : us[i] \in UnifiedMessages
  OBVIOUS
<1>2. vs \in Seq(UnifiedMessages) /\ Len(vs) = n
  BY Handles DEF HandledIs
<1>3. ASSUME NEW i \in 1..n PROVE GistOf(vs[i], TRUE) = GistOf(us[i], tools)
  <2> DEFINE u == us[i]
             none == <<>>
  <2>1. u \in UnifiedMessages
    BY <1>1
  <2>2. CASE tools
    <3>1. vs[i] = IF /\ Results(us[i]) # <<>>
                     /\ ~(i > 1 /\ us[i - 1].role = "assistant" /\ us[i - 1].calls # <<>>)
                  THEN [us[i] EXCEPT !.results = None] ELSE us[i]
      BY <2>2 DEF ToolsHandled, ensure_assistant_before_tool_results
    <3>2. vs[i] \in {[u EXCEPT !.results = None], u}
      BY <3>1
    <3> HIDE DEF u, vs
    <3>3. vs[i].role = u.role /\ vs[i].text = u.text /\ vs[i].calls = u.calls
      BY <2>1, <3>2 DEF UnifiedMessages
    <3> QED
      BY <2>2, <3>3 DEF GistOf, Speech, u
  <2>3. CASE ~tools
    <3> DEFINE text == u.text \o tool_calls_to_text(u.calls) \o tool_results_to_text(Results(u))
               bare == Unified(u.role, text, none, None, none)
    <3>1. vs[i] = IF us[i].calls = <<>> /\ Results(us[i]) = <<>> THEN us[i] ELSE bare
      BY <2>3 DEF ToolsHandled, strip_all_tool_content
    <3>2. vs[i] = IF u.calls = none /\ Results(u) = none THEN u ELSE bare
      BY <3>1
    <3>3. Range(none) = {} /\ tool_calls_to_text(none) = none /\ tool_results_to_text(none) = none
      BY RangeIn, ResultTextNext
    <3>4. u.text \in Seq(Tokens) /\ \A s \in Seq(Tokens) : s \o none = s
      BY <2>1, FieldTypes
    <3>5. bare.role = u.role /\ bare.text = text /\ bare.calls = none
      BY DEF Unified
    <3> HIDE DEF u, vs, none, bare
    <3>6. CASE u.calls = none /\ Results(u) = none
      <4>1. text = u.text
        BY <3>3, <3>4, <3>6
      <4> HIDE DEF text
      <4> QED
        BY <2>3, <3>2, <3>3, <3>6, <4>1 DEF GistOf, Speech, u, text
    <3>7. CASE ~(u.calls = none /\ Results(u) = none)
      BY <2>3, <3>2, <3>3, <3>5, <3>7 DEF GistOf, Speech, u
    <3> QED
      BY <3>6, <3>7
  <2> QED
    BY <2>2, <2>3
<1> HIDE DEF vs
<1>4. Judged(vs, TRUE) = [i \in 1..n |-> GistOf(vs[i], TRUE)]
  BY <1>2, JudgedIs
<1>5. Judged(us, tools) = [i \in 1..n |-> GistOf(us[i], tools)]
  BY JudgedIs
<1> QED
  BY <1>3, <1>4, <1>5 DEF vs

(* A text put before one of many is put somewhere between them.            *)
PutIn(v, w, p) == \E a, b \in Seq(Tokens) : v = a \o b /\ w = (a \o p) \o b

Slipped(s, w, p) ==
    /\ Len(w) = Len(s)
    /\ \E k \in 1..Len(s) : \A i \in 1..Len(s) : w[i] = IF i = k THEN p \o s[i] ELSE s[i]

LEMMA SlippedPutIn ==
    ASSUME NEW p \in Seq(Tokens)
    PROVE  \A s \in Seq(Seq(Tokens)) : \A w \in Seq(Seq(Tokens)) :
             Slipped(s, w, p) => PutIn(FlattenSeq(s), FlattenSeq(w), p)
<1> DEFINE T == Seq(Tokens)
           P == {s \in Seq(T) : \A w \in Seq(T) : Slipped(s, w, p) => PutIn(FlattenSeq(s), FlattenSeq(w), p)}
<1>1. <<>> \in P
  <2>1. <<>> \in Seq(T) /\ 1..Len(<<>>) = {}
    OBVIOUS
  <2> QED
    BY <2>1 DEF Slipped
<1>2. ASSUME NEW s \in Seq(T), NEW t \in T, s \in P PROVE Append(s, t) \in P
  <2> DEFINE n == Len(s)
             st == Append(s, t)
  <2>1. st \in Seq(T) /\ Len(st) = n + 1 /\ n \in Nat /\ st[n + 1] = t /\ \A i \in 1..n : st[i] = s[i]
    BY AppendProperties
  <2>2. FlattenSeq(st) = FlattenSeq(s) \o t /\ FlattenSeq(s) \in T
    BY FlattenNext
  <2> HIDE DEF st, T
  <2>3. SUFFICES ASSUME NEW w \in Seq(T), Slipped(st, w, p) PROVE PutIn(FlattenSeq(st), FlattenSeq(w), p)
    BY <2>1 DEF st
  <2>4. PICK k \in 1..(n + 1) : \A i \in 1..(n + 1) : w[i] = IF i = k THEN p \o st[i] ELSE st[i]
    BY <2>1, <2>3 DEF Slipped
  <2>5. Len(w) = n + 1
    BY <2>1, <2>3 DEF Slipped
  <2>6. w # <<>>
    BY <2>1, <2>5, EmptySeq
  <2> DEFINE v == Front(w)
             x == Last(w)
  <2>7. v \in Seq(T) /\ x \in T /\ w = Append(v, x)
    BY <2>6, LastOf
  <2> HIDE DEF v, x
  <2>8. Len(v) = n /\ w[n + 1] = x /\ \A i \in 1..n : w[i] = v[i]
    <3>1. Len(w) = Len(v) + 1 /\ Len(v) \in Nat /\ w[Len(v) + 1] = x /\ \A i \in 1..Len(v) : w[i] = v[i]
      BY <2>7, AppendProperties
    <3> QED
      BY <2>1, <2>5, <3>1
  <2>9. FlattenSeq(w) = FlattenSeq(v) \o x
    BY <2>7, FlattenNext DEF T
  <2>10. CASE k = n + 1
    <3>1. x = p \o t
      BY <2>1, <2>4, <2>8, <2>10
    <3>2. \A i \in 1..n : v[i] = s[i]
      <4>1. \A i \in 1..n : i \in 1..(n + 1) /\ i # n + 1
        BY <2>1
      <4> QED
        BY <2>1, <2>4, <2>8, <2>10, <4>1
    <3>3. v = s
      BY <2>7, <2>8, <3>2, SeqEqual
    <3>4. FlattenSeq(s) \o (p \o t) = (FlattenSeq(s) \o p) \o t
      BY <2>2, TextsJoined DEF T
    <3> QED
      BY <2>2, <2>9, <3>1, <3>3, <3>4 DEF PutIn, T
  <2>11. CASE k # n + 1
    <3>1. k \in 1..n
      BY <2>1, <2>11
    <3>2. x = t
      BY <2>1, <2>4, <2>8, <2>11
    <3>3. \A i \in 1..n : v[i] = IF i = k THEN p \o s[i] ELSE s[i]
      <4>1. \A i \in 1..n : i \in 1..(n + 1)
        BY <2>1
      <4> QED
        BY <2>1, <2>4, <2>8, <4>1
    <3>4. Slipped(s, v, p)
      BY <2>8, <3>1, <3>3 DEF Slipped
    <3>5. PutIn(FlattenSeq(s), FlattenSeq(v), p)
      BY <1>2, <2>7, <3>4
    <3>6. PICK a, b \in Seq(Tokens) : FlattenSeq(s) = a \o b /\ FlattenSeq(v) = (a \o p) \o b
      BY <3>5 DEF PutIn
    <3>7. /\ (a \o b) \o t = a \o (b \o t)
          /\ ((a \o p) \o b) \o t = (a \o p) \o (b \o t)
          /\ b \o t \in Seq(Tokens)
      <4>1. a \o p \in Seq(Tokens) /\ b \o t \in Seq(Tokens)
        BY ConcatProperties DEF T
      <4>2. ((a \o p) \o b) \o t = (a \o p) \o (b \o t)
        BY <4>1, TextsJoined, SMTT(60) DEF T
      <4>3. (a \o b) \o t = a \o (b \o t)
        BY TextsJoined DEF T
      <4> QED
        BY <4>1, <4>2, <4>3
    <3> QED
      BY <2>2, <2>9, <3>2, <3>6, <3>7 DEF PutIn
  <2> QED
    BY <2>10, <2>11
<1> HIDE DEF P
<1>3. Seq(T) \subseteq P
  <2> HIDE DEF T
  <2> QED
    BY <1>1, <1>2, OneByOne
<1> QED
  BY <1>3 DEF P

(* What is said in the end: developers are heard only in the last message. *)
SpokenList(us) ==
    [i \in 1..Len(us) |-> IF i # Len(us) /\ us[i].role = "developer" THEN <<>> ELSE us[i].text]

LEMMA SpokenListed ==
    ASSUME NEW us \in Seq(UnifiedMessages), NEW u \in UnifiedMessages
    PROVE  /\ SpokenList(Append(us, u)) \in Seq(Seq(Tokens))
           /\ FlattenSeq(SpokenList(Append(us, u))) = Loud(Judged(us, TRUE)) \o u.text
<1> DEFINE t == Append(us, u)
           n == Len(us)
           gs == Judged(us, TRUE)
           none == <<>>
           s == [i \in 1..n |-> IF gs[i].role = "developer" THEN none ELSE gs[i].text]
           v == SpokenList(t)
           w == Append(s, u.text)
<1>1. t \in Seq(UnifiedMessages) /\ Len(t) = n + 1 /\ n \in Nat /\ t[n + 1] = u /\ \A i \in 1..n : t[i] = us[i]
  BY AppendProperties
<1>2. \A i \in 1..n : us[i] \in UnifiedMessages
  OBVIOUS
<1>3. \A i \in 1..n : us[i].text \in Seq(Tokens)
  BY <1>2, FieldTypes
<1>4. u.text \in Seq(Tokens) /\ none \in Seq(Tokens)
  BY FieldTypes
<1>5. gs = [i \in 1..n |-> GistOf(us[i], TRUE)]
  BY JudgedIs
<1>6. Len(gs) = n /\ \A i \in 1..n : gs[i].role = us[i].role /\ gs[i].text = us[i].text
  <2>1. Len(gs) = n
    BY JudgedNext
  <2> HIDE DEF gs
  <2>2. \A i \in 1..n : gs[i] = GistOf(us[i], TRUE)
    BY <1>5
  <2>3. \A x : GistOf(x, TRUE).role = x.role /\ GistOf(x, TRUE).text = x.text
    BY DEF GistOf, Speech
  <2> QED
    BY <2>1, <2>2, <2>3
<1>7. Loud(gs) = FlattenSeq(s)
  BY <1>6 DEF Loud
<1> HIDE DEF gs
<1>8. s \in [1..n -> Seq(Tokens)] /\ \A i \in 1..n : s[i] = IF us[i].role = "developer" THEN none ELSE us[i].text
  BY <1>3, <1>4, <1>6
<1> HIDE DEF s, none, n
<1>9. s \in Seq(Seq(Tokens)) /\ Len(s) = n
  BY <1>1, <1>8
<1>10. w \in Seq(Seq(Tokens)) /\ Len(w) = n + 1 /\ w[n + 1] = u.text /\ \A i \in 1..n : w[i] = s[i]
  BY <1>4, <1>9, AppendProperties
<1> HIDE DEF t, w
<1>11. v = [i \in 1..(n + 1) |-> IF i # n + 1 /\ t[i].role = "developer" THEN none ELSE t[i].text]
  BY <1>1 DEF SpokenList, none
<1> HIDE DEF v
<1>12. \A i : i \in 1..(n + 1) <=> i \in 1..n \/ i = n + 1
  BY <1>1
<1>13. \A i \in 1..(n + 1) : v[i] = w[i]
  <2>1. v[n + 1] = w[n + 1]
    BY <1>1, <1>10, <1>11, <1>12
  <2>2. ASSUME NEW i \in 1..n PROVE v[i] = w[i]
    <3>1. i \in 1..(n + 1) /\ i # n + 1
      BY <1>1
    <3> QED
      BY <1>1, <1>8, <1>10, <1>11, <3>1
  <2> QED
    BY <1>12, <2>1, <2>2
<1>14. v = w
  <2>1. DOMAIN v = 1..(n + 1) /\ v = [i \in 1..(n + 1) |-> v[i]]
    BY <1>11
  <2>2. DOMAIN w = 1..(n + 1)
    BY <1>1, <1>10
  <2>3. w = [i \in 1..(n + 1) |-> w[i]]
    BY <1>10, <2>2
  <2> QED
    BY <1>13, <2>1, <2>3
<1>15. FlattenSeq(w) = FlattenSeq(s) \o u.text
  BY <1>4, <1>9, FlattenNext DEF w
<1> QED
  BY <1>7, <1>10, <1>14, <1>15 DEF v, t, gs

LEMMA SpokenAll ==
    ASSUME NEW us \in Seq(UnifiedMessages), us # <<>>, Apart(us)
    PROVE  FlattenSeq(SpokenList(us)) = Loud(Judged(us, TRUE)) \o Late(Judged(us, TRUE))
<1> DEFINE front == Front(us)
           last == Last(us)
           fs == Judged(front, TRUE)
           g == GistOf(last, TRUE)
<1>1. front \in Seq(UnifiedMessages) /\ last \in UnifiedMessages /\ us = Append(front, last)
  BY LastOf
<1> HIDE DEF front, last
<1>2. fs \in Seq(Gists) /\ g \in Gists /\ Judged(us, TRUE) = Append(fs, g)
  BY <1>1, JudgedNext, SpeechType
<1>3. FlattenSeq(SpokenList(us)) = Loud(fs) \o last.text
  BY <1>1, SpokenListed
<1>4. g.role = last.role /\ g.text = last.text
  BY DEF GistOf, Speech
<1>5. last.role = "developer" => Late(fs) = <<>>
  <2> SUFFICES ASSUME last.role = "developer" PROVE Late(fs) = <<>>
    OBVIOUS
  <2>1. CASE front = <<>>
    BY <2>1, JudgedNext, NothingSaid
  <2>2. CASE front # <<>>
    <3> DEFINE f2 == Front(front)
               l2 == Last(front)
               g2 == GistOf(l2, TRUE)
    <3>1. f2 \in Seq(UnifiedMessages) /\ l2 \in UnifiedMessages /\ front = Append(f2, l2)
      BY <1>1, <2>2, LastOf
    <3>2. l2.role # "developer"
      BY <1>1, <2>2, OneMoreMessage
    <3> HIDE DEF f2, l2
    <3>3. Judged(f2, TRUE) \in Seq(Gists) /\ g2 \in Gists /\ fs = Append(Judged(f2, TRUE), g2)
      BY <3>1, JudgedNext, SpeechType
    <3>4. g2.role # "developer"
      BY <3>2 DEF GistOf
    <3> HIDE DEF g2
    <3> QED
      BY <3>3, <3>4, OneMoreGist
  <2> QED
    BY <2>1, <2>2
<1> HIDE DEF fs, g
<1>6. Loud(fs) \in Seq(Tokens) /\ last.text \in Seq(Tokens)
  BY <1>1, <1>2, OneMoreGist, FieldTypes
<1>7. CASE last.role = "developer"
  <2>1. Loud(Append(fs, g)) = Loud(fs) /\ Late(Append(fs, g)) = Late(fs) \o last.text
    BY <1>2, <1>4, <1>7, OneMoreGist
  <2>2. <<>> \o last.text = last.text
    BY <1>6
  <2> QED
    BY <1>2, <1>3, <1>5, <1>7, <2>1, <2>2
<1>8. CASE last.role # "developer"
  <2>1. Loud(Append(fs, g)) = Loud(fs) \o last.text /\ Late(Append(fs, g)) = <<>>
    BY <1>2, <1>4, <1>8, OneMoreGist
  <2>2. (Loud(fs) \o last.text) \o <<>> = Loud(fs) \o last.text
    BY <1>6, ConcatProperties, ConcatEmptySeq
  <2> QED
    BY <1>2, <1>3, <2>1, <2>2
<1> QED
  BY <1>7, <1>8

(* Where the prompt goes.                                                  *)
LEMMA PromptSlips ==
    ASSUME NEW us \in Seq(UnifiedMessages), NEW vs, NEW p \in Seq(Tokens), PromptedIs(us, vs, p)
    PROVE  Slipped(SpokenList(us), SpokenList(vs), p)
<1> DEFINE n == Len(us)
           s == SpokenList(us)
           w == SpokenList(vs)
           none == <<>>
<1>1. n \in Nat /\ Len(vs) = n /\ \A i \in 1..n : vs[i].role = us[i].role
  BY DEF PromptedIs
<1>2. PICK k \in 1..n : /\ k = n \/ us[k].role = "user"
                        /\ \A i \in 1..n : vs[i].text = IF i = k THEN p \o us[i].text ELSE us[i].text
  BY DEF PromptedIs
<1>3. s = [i \in 1..n |-> IF i # n /\ us[i].role = "developer" THEN none ELSE us[i].text]
  BY DEF SpokenList
<1>4. w = [i \in 1..n |-> IF i # n /\ vs[i].role = "developer" THEN none ELSE vs[i].text]
  BY <1>1 DEF SpokenList
<1> HIDE DEF s, w, n
<1>5. Len(s) = n /\ Len(w) = n
  BY <1>1, <1>3, <1>4
<1>6. ASSUME NEW i \in 1..n PROVE w[i] = IF i = k THEN p \o s[i] ELSE s[i]
  <2>1. w[i] = IF i # n /\ us[i].role = "developer" THEN none ELSE vs[i].text
    BY <1>1, <1>4
  <2>2. s[i] = IF i # n /\ us[i].role = "developer" THEN none ELSE us[i].text
    BY <1>3
  <2>3. CASE i = k
    <3>1. ~(i # n /\ us[i].role = "developer")
      BY <1>2, <2>3
    <3> QED
      BY <1>2, <2>1, <2>2, <2>3, <3>1
  <2>4. CASE i # k
    BY <1>2, <2>1, <2>2, <2>4
  <2> QED
    BY <2>3, <2>4
<1>7. \A i \in 1..n : w[i] = IF i = k THEN p \o s[i] ELSE s[i]
  BY <1>6
<1>8. Slipped(s, w, p)
  <2>1. Len(w) = Len(s)
    BY <1>5
  <2>2. k \in 1..Len(s) /\ \A i \in 1..Len(s) : w[i] = IF i = k THEN p \o s[i] ELSE s[i]
    BY <1>5, <1>7
  <2> QED
    BY <2>1, <2>2 DEF Slipped
<1> QED
  BY <1>8 DEF s, w

(* Calls and roles are not changed by it.                                  *)
LEMMA PromptSeals ==
    ASSUME NEW us \in Seq(UnifiedMessages), NEW vs, NEW p, PromptedIs(us, vs, p), NEW c,
           Sealed(Judged(us, TRUE), c)
    PROVE  Sealed(Judged(vs, TRUE), c)
<1> DEFINE n == Len(us)
           gs == Judged(us, TRUE)
           hs == Judged(vs, TRUE)
<1>1. n \in Nat /\ Len(vs) = n /\ vs \in Seq(UnifiedMessages)
      /\ \A i \in 1..n : vs[i].role = us[i].role /\ vs[i].calls = us[i].calls
  BY DEF PromptedIs
<1>2. gs = [i \in 1..n |-> GistOf(us[i], TRUE)] /\ hs = [i \in 1..n |-> GistOf(vs[i], TRUE)]
  BY <1>1, JudgedIs
<1>3. Len(gs) = n /\ Len(hs) = n
  BY <1>1, JudgedNext
<1>4. \A i \in 1..n : gs[i].role = hs[i].role /\ gs[i].ids = hs[i].ids
  <2> HIDE DEF gs, hs, n
  <2>1. \A i \in 1..n : gs[i] = GistOf(us[i], TRUE) /\ hs[i] = GistOf(vs[i], TRUE)
    BY <1>2
  <2> SUFFICES ASSUME NEW i \in 1..n PROVE gs[i].role = hs[i].role /\ gs[i].ids = hs[i].ids
    OBVIOUS
  <2>2. gs[i] = GistOf(us[i], TRUE) /\ hs[i] = GistOf(vs[i], TRUE)
    BY <2>1
  <2>3. GistOf(us[i], TRUE).role = us[i].role /\ GistOf(us[i], TRUE).ids = Range(us[i].calls)
    BY DEF GistOf
  <2>4. GistOf(vs[i], TRUE).role = vs[i].role /\ GistOf(vs[i], TRUE).ids = Range(vs[i].calls)
    BY DEF GistOf
  <2> QED
    BY <1>1, <2>2, <2>3, <2>4
<1> HIDE DEF gs, hs, n
<1>5. PICK i \in 1..n : Makes(gs[i], c) /\ \E j \in (i + 1)..n : gs[j].role # "assistant"
  BY <1>3 DEF Sealed, gs
<1>6. Makes(hs[i], c)
  BY <1>4, <1>5 DEF Makes
<1>7. \A j \in (i + 1)..n : j \in 1..n
  BY <1>1
<1> QED
  BY <1>3, <1>4, <1>5, <1>6, <1>7 DEF Sealed, hs

(* What the entries say, and the calls they list.                          *)
EntryTexts(es) == [i \in 1..Len(es) |-> es[i].text]
Used(es, c) == \E i \in 1..Len(es) : c \in Range(es[i].uses)
Once(es) == \A i \in 1..Len(es) : IsInjective(es[i].uses)

LEMMA OneMoreText ==
    ASSUME NEW es \in Seq(KiroEntries), NEW e \in KiroEntries
    PROVE  /\ FlattenSeq(EntryTexts(es)) \in Seq(Tokens)
           /\ FlattenSeq(EntryTexts(Append(es, e))) = FlattenSeq(EntryTexts(es)) \o e.text
           /\ \A c : Used(Append(es, e), c) <=> Used(es, c) \/ c \in Range(e.uses)
           /\ Once(Append(es, e)) <=> Once(es) /\ IsInjective(e.uses)
<1> DEFINE t == Append(es, e)
           n == Len(es)
           f == [x \in KiroEntries |-> x.text]
<1>1. /\ t \in Seq(KiroEntries) /\ Len(t) = n + 1 /\ n \in Nat /\ t[n + 1] = e
      /\ \A i \in 1..n : t[i] = es[i]
  BY AppendProperties
<1>2. f \in Mapping(KiroEntries, Seq(Tokens))
  BY DEF Mapping, KiroEntries
<1>3. ASSUME NEW s \in Seq(KiroEntries) PROVE EntryTexts(s) = Each(f, s)
  <2>1. \A i \in 1..Len(s) : s[i] \in KiroEntries
    OBVIOUS
  <2>2. \A i \in 1..Len(s) : f[s[i]] = s[i].text
    BY <2>1
  <2> HIDE DEF f
  <2> QED
    BY <2>2 DEF EntryTexts, Each
<1>4. f[e] = e.text
  OBVIOUS
<1>5. e.text \in Seq(Tokens)
  BY DEF KiroEntries
<1> HIDE DEF f
<1>6. Each(f, es) \in Seq(Seq(Tokens)) /\ Each(f, t) = Append(Each(f, es), f[e])
  BY <1>2, EachNext
<1>7. FlattenSeq(EntryTexts(es)) \in Seq(Tokens) /\ FlattenSeq(EntryTexts(t)) = FlattenSeq(EntryTexts(es)) \o e.text
  BY <1>1, <1>3, <1>4, <1>5, <1>6, FlattenNext, ZenonT(60)
<1> HIDE DEF t, n
<1>8. \A i : i \in 1..(n + 1) <=> i \in 1..n \/ i = n + 1
  BY <1>1
<1>9. \A c : Used(t, c) <=> Used(es, c) \/ c \in Range(e.uses)
  BY <1>1, <1>8 DEF Used, n
<1>10. Once(t) <=> Once(es) /\ IsInjective(e.uses)
  <2>1. \A i \in 1..n : IsInjective(t[i].uses) <=> IsInjective(es[i].uses)
    BY <1>1
  <2> QED
    BY <1>1, <1>8, <2>1 DEF Once, n
<1> QED
  BY <1>7, <1>9, <1>10 DEF t

Recorded(us, es) ==
    /\ FlattenSeq(EntryTexts(es)) = Loud(Judged(us, TRUE))
    /\ \A c : Held(Judged(us, TRUE), c) => Used(es, c)
    /\ Once(es)

LEMMA NoUses == IsInjective(<<>>) /\ Range(<<>>) = {}
  BY RangeIn DEF IsInjective

LEMMA RecordedNext ==
    ASSUME NEW us \in Seq(UnifiedMessages), NEW es \in Seq(KiroEntries), NEW u \in UnifiedMessages,
           Recorded(us, es)
    PROVE  Recorded(Append(us, u), Entered(es, u))
<1> DEFINE gs == Judged(us, TRUE)
           g == GistOf(u, TRUE)
<1>1. gs \in Seq(Gists) /\ g \in Gists /\ Judged(Append(us, u), TRUE) = Append(gs, g)
  BY JudgedNext, SpeechType
<1>2. g.role = u.role /\ g.text = u.text /\ g.ids = Range(u.calls)
  BY DEF GistOf, Speech
<1>3. u.role \in {"user", "assistant", "developer"} /\ u.text \in Seq(Tokens)
  BY FieldTypes
<1> HIDE DEF gs, g
<1>4. /\ Loud(Append(gs, g)) = IF g.role = "developer" THEN Loud(gs) ELSE Loud(gs) \o g.text
      /\ \A c : Held(Append(gs, g), c) <=> Held(gs, c) \/ Makes(g, c)
  BY <1>1, OneMoreGist
<1>5. /\ FlattenSeq(EntryTexts(es)) = Loud(gs) /\ Once(es)
      /\ \A c : Held(gs, c) => Used(es, c)
  BY DEF Recorded, gs
<1>6. CASE u.role = "user"
  <2> DEFINE e == build_kiro_user_input(u)
  <2>1. e \in KiroEntries /\ e.text = u.text /\ e.uses = <<>>
    BY InputIs
  <2>2. Entered(es, u) = Append(es, e)
    BY <1>6 DEF Entered
  <2> HIDE DEF e
  <2>3. \A c : ~Makes(g, c)
    BY <1>2, <1>6 DEF Makes
  <2>4. FlattenSeq(EntryTexts(Append(es, e))) = Loud(Append(gs, g))
    BY <1>2, <1>4, <1>5, <1>6, <2>1, OneMoreText
  <2>5. \A c : Held(Append(gs, g), c) => Used(Append(es, e), c)
    BY <1>4, <1>5, <2>1, <2>3, OneMoreText
  <2>6. Once(Append(es, e))
    BY <1>5, <2>1, NoUses, OneMoreText
  <2> QED
    BY <1>1, <2>2, <2>4, <2>5, <2>6 DEF Recorded
<1>7. CASE u.role = "assistant"
  <2> DEFINE syn == synthetic_user_input
             before == IF es # <<>> /\ Last(es).who = "user" THEN es ELSE Append(es, syn)
             e == build_kiro_assistant_response(u)
  <2>1. /\ e \in KiroEntries /\ e.text = u.text /\ e.uses = extract_tool_uses_from_message(u)
        /\ syn \in KiroEntries /\ syn.text = <<>> /\ syn.uses = <<>>
    BY InputIs
  <2>2. Entered(es, u) = Append(before, e)
    BY <1>7 DEF Entered
  <2>3. IsInjective(e.uses) /\ \A c : c \in Range(u.calls) => c \in Range(e.uses)
    BY <2>1, UsesListed
  <2> HIDE DEF e, syn
  <2>4. /\ before \in Seq(KiroEntries) /\ Once(before) /\ FlattenSeq(EntryTexts(before)) = Loud(gs)
        /\ \A c : Used(es, c) => Used(before, c)
    <3>1. FlattenSeq(EntryTexts(es)) \in Seq(Tokens) /\ \A s \in Seq(Tokens) : s \o <<>> = s
      BY <2>1, OneMoreText
    <3>2. CASE before = es
      BY <1>5, <3>2
    <3>3. CASE before = Append(es, syn)
      <4>1. FlattenSeq(EntryTexts(Append(es, syn))) = FlattenSeq(EntryTexts(es)) \o <<>>
        BY <2>1, OneMoreText
      <4>2. Once(Append(es, syn)) /\ \A c : Used(es, c) => Used(Append(es, syn), c)
        BY <1>5, <2>1, NoUses, OneMoreText
      <4>3. Append(es, syn) \in Seq(KiroEntries)
        BY <2>1, AppendProperties
      <4> QED
        BY <1>5, <3>1, <3>3, <4>1, <4>2, <4>3
    <3> QED
      BY <3>2, <3>3
  <2> HIDE DEF before
  <2>5. FlattenSeq(EntryTexts(Append(before, e))) = Loud(Append(gs, g))
    BY <1>2, <1>4, <1>7, <2>1, <2>4, OneMoreText
  <2>6. \A c : Held(Append(gs, g), c) => Used(Append(before, e), c)
    BY <1>2, <1>4, <1>5, <2>1, <2>3, <2>4, OneMoreText DEF Makes
  <2>7. Once(Append(before, e))
    BY <2>1, <2>3, <2>4, OneMoreText
  <2> QED
    BY <1>1, <2>2, <2>5, <2>6, <2>7 DEF Recorded
<1>8. CASE u.role = "developer"
  <2>1. Entered(es, u) = es
    BY <1>8 DEF Entered
  <2>2. \A c : ~Makes(g, c)
    BY <1>2, <1>8 DEF Makes
  <2> QED
    BY <1>1, <1>2, <1>4, <1>5, <1>8, <2>1, <2>2 DEF Recorded
<1> QED
  BY <1>3, <1>6, <1>7, <1>8

LEMMA HistoryRecorded == \A us \in Seq(UnifiedMessages) : Recorded(us, build_kiro_history(us))
<1> DEFINE P == {us \in Seq(UnifiedMessages) : Recorded(us, build_kiro_history(us))}
<1>1. <<>> \in P
  <2>1. <<>> \in Seq(UnifiedMessages) /\ 1..Len(<<>>) = {}
    OBVIOUS
  <2>2. EntryTexts(<<>>) = <<>>
    BY <2>1 DEF EntryTexts
  <2>3. Judged(<<>>, TRUE) = <<>> /\ build_kiro_history(<<>>) = <<>>
    BY JudgedNext, HistoryNext
  <2>4. Recorded(<<>>, <<>>)
    BY <2>1, <2>2, <2>3, NothingSaid, FlattenNext DEF Recorded, Once
  <2> QED
    BY <2>1, <2>3, <2>4
<1>2. ASSUME NEW us \in Seq(UnifiedMessages), NEW u \in UnifiedMessages, us \in P
      PROVE  Append(us, u) \in P
  BY <1>2, HistoryNext, RecordedNext, AppendProperties
<1> HIDE DEF P
<1>3. Seq(UnifiedMessages) \subseteq P
  BY <1>1, <1>2, OneByOne
<1> QED
  BY <1>3 DEF P

(* What Kiro is told in the end.                                           *)
Tellable(us, es, p, tools) ==
    /\ PutIn(Loud(Judged(us, tools)) \o Late(Judged(us, tools)), FlattenSeq(EntryTexts(es)), p)
    /\ Once(es)
    /\ \A c : Sealed(Judged(us, tools), c) => Used(es, c)

LEMMA ClosingTells ==
    ASSUME NEW us \in Seq(UnifiedMessages), NEW u \in UnifiedMessages
    PROVE  LET history == build_kiro_history(us)
               es == Append(Before(history, u), CurrentOf(u))
           IN /\ FlattenSeq(EntryTexts(es)) = Loud(Judged(us, TRUE)) \o u.text
              /\ Once(es)
              /\ \A c : Held(Judged(us, TRUE), c) => Used(es, c)
<1> DEFINE history == build_kiro_history(us)
           syn == synthetic_user_input
           e == Closing(u)
           current == CurrentOf(u)
           before == Before(history, u)
           with == Append(history, syn)
           gs == Judged(us, TRUE)
           none == <<>>
<1>1. history \in Seq(KiroEntries) /\ Recorded(us, history)
  BY HistoryNext, HistoryRecorded
<1>2. /\ syn \in KiroEntries /\ syn.text = none /\ syn.uses = none
      /\ e \in KiroEntries /\ e.text = u.text /\ e.uses = none
      /\ current \in KiroEntries /\ current.uses = none
      /\ current.text = IF u.role = "assistant" THEN none ELSE u.text
  BY InputIs, EntryKinds
<1>3. u.text \in Seq(Tokens) /\ \A s \in Seq(Tokens) : s \o none = s
  BY FieldTypes
<1>4. IsInjective(none) /\ Range(none) = {}
  BY NoUses
<1>5. before = IF u.role = "assistant" THEN Append(with, e) ELSE history
  BY DEF Before
<1> HIDE DEF history, syn, e, current, before, none
<1>6. FlattenSeq(EntryTexts(history)) = Loud(gs) /\ Once(history) /\ \A c : Held(gs, c) => Used(history, c)
  BY <1>1 DEF Recorded
<1> HIDE DEF gs
<1>7. Loud(gs) \in Seq(Tokens)
  BY <1>1, <1>2, <1>6, OneMoreText
<1>8. /\ with \in Seq(KiroEntries) /\ FlattenSeq(EntryTexts(with)) = Loud(gs)
      /\ Once(with) /\ \A c : Held(gs, c) => Used(with, c)
  <2>1. FlattenSeq(EntryTexts(with)) = Loud(gs) \o none
    BY <1>1, <1>2, <1>6, OneMoreText
  <2> QED
    BY <1>1, <1>2, <1>3, <1>4, <1>6, <1>7, <2>1, OneMoreText, AppendProperties
<1> HIDE DEF with
<1>9. u.role = "assistant" =>
        /\ before \in Seq(KiroEntries) /\ FlattenSeq(EntryTexts(before)) = Loud(gs) \o u.text
        /\ Once(before) /\ \A c : Held(gs, c) => Used(before, c)
  <2> SUFFICES ASSUME u.role = "assistant"
               PROVE  /\ before \in Seq(KiroEntries) /\ FlattenSeq(EntryTexts(before)) = Loud(gs) \o u.text
                      /\ Once(before) /\ \A c : Held(gs, c) => Used(before, c)
    OBVIOUS
  <2>1. before = Append(with, e)
    BY <1>5
  <2>2. before \in Seq(KiroEntries)
    BY <1>2, <1>8, <2>1, AppendProperties
  <2>3. FlattenSeq(EntryTexts(before)) = Loud(gs) \o u.text
    BY <1>2, <1>8, <2>1, OneMoreText
  <2>4. Once(before)
    BY <1>2, <1>4, <1>8, <2>1, OneMoreText
  <2>5. \A c : Held(gs, c) => Used(before, c)
    BY <1>2, <1>8, <2>1, OneMoreText
  <2> QED
    BY <2>2, <2>3, <2>4, <2>5
<1>10. u.role # "assistant" =>
        /\ before \in Seq(KiroEntries) /\ FlattenSeq(EntryTexts(before)) = Loud(gs)
        /\ Once(before) /\ \A c : Held(gs, c) => Used(before, c)
  BY <1>1, <1>5, <1>6
<1>11. before \in Seq(KiroEntries) /\ Once(before) /\ \A c : Held(gs, c) => Used(before, c)
  BY <1>9, <1>10
<1>12. FlattenSeq(EntryTexts(before)) \o current.text = Loud(gs) \o u.text
  <2>1. CASE u.role = "assistant"
    <3>1. Loud(gs) \o u.text \in Seq(Tokens)
      BY <1>3, <1>7, ConcatProperties
    <3> QED
      BY <1>2, <1>3, <1>9, <2>1, <3>1
  <2>2. CASE u.role # "assistant"
    BY <1>2, <1>10, <2>2
  <2> QED
    BY <2>1, <2>2
<1> DEFINE es == Append(before, current)
<1>13. FlattenSeq(EntryTexts(es)) = Loud(gs) \o u.text
  BY <1>2, <1>11, <1>12, OneMoreText
<1>14. Once(es) /\ \A c : Held(gs, c) => Used(es, c)
  BY <1>2, <1>4, <1>11, OneMoreText
<1> QED
  BY <1>13, <1>14 DEF gs, before, current, history

LEMMA EntriesTell ==
    ASSUME NEW us \in Seq(UnifiedMessages), us # <<>>, NEW list \in Lists, NEW system \in BOOLEAN
    PROVE  Tellable(us, EntriesOf(us, list, system), SystemPrompt(system), list # "none")
<1> DEFINE tools == list # "none"
           vs == ToolsHandled(us, tools)
           ws == merge_adjacent_messages(vs)
           all == InjectSystem(ws, system)
           front == Front(all)
           last == Last(all)
           p == SystemPrompt(system)
           es == Append(Before(build_kiro_history(front), last), CurrentOf(last))
           told == Judged(us, tools)
           js == Judged(ws, TRUE)
           gs == Judged(front, TRUE)
<1>14. tools \in BOOLEAN
  OBVIOUS
<1> HIDE DEF tools
<1>1. vs \in Seq(UnifiedMessages) /\ vs # <<>> /\ Judged(vs, TRUE) = told
  <2>1. vs \in Seq(UnifiedMessages) /\ Len(vs) = Len(us)
    BY <1>14, Handles DEF HandledIs
  <2> HIDE DEF vs
  <2>2. vs # <<>>
    BY <2>1, EmptySeq
  <2>3. Judged(vs, TRUE) = told
    BY <1>14, HandlingTells DEF vs
  <2> QED
    BY <2>1, <2>2, <2>3
<1> HIDE DEF vs, told
<1>2. ws \in Seq(UnifiedMessages) /\ ws # <<>> /\ Apart(ws) /\ Tells(told, js)
  BY <1>1, MergeNext, MergeSettles, MergeTells DEF Settled
<1> HIDE DEF ws, js
<1>3. PromptedIs(ws, all, p) /\ p \in Seq(Tokens)
  BY <1>2, Prompts, PromptType
<1>4. EntriesOf(us, list, system) = es
  <2>1. all \in Seq(UnifiedMessages) /\ all # <<>>
    BY <1>2, <1>3, PromptedStill
  <2> QED
    BY <2>1, EntriesCut DEF all, ws, vs, tools
<1> HIDE DEF all, p
<1>5. all \in Seq(UnifiedMessages) /\ all # <<>>
  BY <1>2, <1>3, PromptedStill
<1>6. front \in Seq(UnifiedMessages) /\ last \in UnifiedMessages /\ all = Append(front, last)
  BY <1>5, LastOf
<1> HIDE DEF front, last
<1>7. FlattenSeq(EntryTexts(es)) = Loud(gs) \o last.text /\ Once(es) /\ \A c : Held(gs, c) => Used(es, c)
  BY <1>6, ClosingTells
<1> HIDE DEF es
<1>8. FlattenSeq(EntryTexts(es)) = FlattenSeq(SpokenList(all)) /\ SpokenList(all) \in Seq(Seq(Tokens))
  BY <1>6, <1>7, SpokenListed
<1>9. SpokenList(ws) \in Seq(Seq(Tokens))
  <2>1. ws = Append(Front(ws), Last(ws)) /\ Front(ws) \in Seq(UnifiedMessages) /\ Last(ws) \in UnifiedMessages
    BY <1>2, LastOf
  <2> QED
    BY <2>1, SpokenListed
<1>10. PutIn(FlattenSeq(SpokenList(ws)), FlattenSeq(EntryTexts(es)), p)
  <2>1. Slipped(SpokenList(ws), SpokenList(all), p)
    BY <1>2, <1>3, PromptSlips
  <2> QED
    BY <1>3, <1>8, <1>9, <2>1, SlippedPutIn
<1>11. FlattenSeq(SpokenList(ws)) = Loud(told) \o Late(told)
  BY <1>2, SpokenAll DEF Tells, js
<1>12. ASSUME NEW c, Sealed(told, c) PROVE Used(es, c)
  <2>1. Sealed(Judged(ws, TRUE), c)
    BY <1>2, <1>12 DEF Tells, js
  <2>2. Sealed(Judged(all, TRUE), c)
    BY <1>2, <1>3, <2>1, PromptSeals
  <2> DEFINE g == GistOf(last, TRUE)
  <2>3. gs \in Seq(Gists) /\ g \in Gists /\ Judged(all, TRUE) = Append(gs, g)
    BY <1>6, JudgedNext, SpeechType
  <2> HIDE DEF gs, g
  <2>4. Held(gs, c)
    BY <2>2, <2>3, OneMoreGist, SealedHeld
  <2> QED
    BY <1>7, <2>4 DEF gs
<1>13. PutIn(Loud(told) \o Late(told), FlattenSeq(EntryTexts(es)), p)
  BY <1>10, <1>11
<1> QED
  BY <1>4, <1>7, <1>12, <1>13 DEF Tellable, told, p, tools

LEMMA ToldIs ==
    ASSUME NEW ms, NEW tools \in BOOLEAN, ms \in Seq(OpenAIMessages) \cup Seq(AnthropicMessages)
    PROVE  Told(ms, tools) = Loud(Meant(Numbered(ms), tools)) \o Late(Meant(Numbered(ms), tools))
<1> DEFINE n == Len(ms)
           gs == Meant(Numbered(ms), tools)
           none == <<>>
<1>1. gs = [i \in 1..n |-> MeantBy(ms[i], i, tools)] /\ Len(gs) = n
  BY MeantIs
<1> HIDE DEF gs, none
<1>2. \A i \in 1..n : (gs[i].role = "developer" <=> ms[i].role = "developer")
                      /\ gs[i].text = Telling(ms[i], i, tools)
  BY <1>1 DEF MeantBy
<1>3. n \in Nat
  OBVIOUS
<1>4. [i \in 1..n |-> IF ms[i].role = "developer" THEN none ELSE Telling(ms[i], i, tools)]
        = [i \in 1..n |-> IF gs[i].role = "developer" THEN none ELSE gs[i].text]
  BY <1>2
<1>5. \A i \in 1..n : (\A j \in i..n : ms[j].role = "developer") <=> (\A j \in i..n : gs[j].role = "developer")
  BY <1>2, <1>3
<1>6. [i \in 1..n |-> IF \A j \in i..n : ms[j].role = "developer" THEN Telling(ms[i], i, tools) ELSE none]
        = [i \in 1..n |-> IF \A j \in i..n : gs[j].role = "developer" THEN gs[i].text ELSE none]
  BY <1>2, <1>5
<1> QED
  BY <1>1, <1>4, <1>6 DEF Told, Loud, Late, gs, none

LEMMA MeantSealed ==
    ASSUME NEW ms, ms \in Seq(OpenAIMessages) \cup Seq(AnthropicMessages),
           NEW i \in 1..Len(ms), ms[i].role = "assistant", ms[i].tool # None,
           \E j \in (i + 1)..Len(ms) : ms[j].role # "assistant"
    PROVE  Sealed(Meant(Numbered(ms), TRUE), ms[i].tool)
<1> DEFINE n == Len(ms)
           gs == Meant(Numbered(ms), TRUE)
<1>1. gs = [k \in 1..n |-> MeantBy(ms[k], k, TRUE)] /\ Len(gs) = n
  BY MeantIs
<1> HIDE DEF gs
<1>2. PICK j \in (i + 1)..n : ms[j].role # "assistant"
  OBVIOUS
<1>3. n \in Nat /\ i \in 1..n /\ j \in 1..n
  OBVIOUS
<1>4. gs[j].role # "assistant"
  BY <1>1, <1>2, <1>3 DEF MeantBy
<1>5. ms[i].tool \in Range(<<ms[i].tool>>)
  <2> DEFINE t == <<ms[i].tool>>
  <2>1. 1 \in DOMAIN t /\ t[1] = ms[i].tool
    OBVIOUS
  <2> HIDE DEF t
  <2>2. t[1] \in Range(t)
    BY <2>1 DEF Range
  <2> QED
    BY <2>1, <2>2 DEF t
<1>6. Tool(ms[i]) = <<ms[i].tool>>
  BY DEF Tool
<1>7. gs[i].role = "assistant" /\ gs[i].ids = Range(Tool(ms[i]))
  BY <1>1, <1>3 DEF MeantBy
<1>8. Makes(gs[i], ms[i].tool)
  BY <1>5, <1>6, <1>7 DEF Makes
<1>9. \E k \in (i + 1)..n : gs[k].role # "assistant"
  BY <1>2, <1>4
<1> HIDE DEF n
<1> QED
  BY <1>1, <1>3, <1>8, <1>9 DEF Sealed, gs

LEMMA Spliced ==
    ASSUME NEW v, NEW w, NEW p \in Seq(Tokens), PutIn(v, w, p)
    PROVE  \E n \in 0..Len(v) : w = SubSeq(v, 1, n) \o p \o SubSeq(v, n + 1, Len(v))
<1>1. PICK a, b \in Seq(Tokens) : v = a \o b /\ w = (a \o p) \o b
  BY DEF PutIn
<1> DEFINE n == Len(a)
<1>2. n \in 0..Len(v)
  BY <1>1
<1>3. SubSeq(v, 1, n) = a /\ SubSeq(v, n + 1, Len(v)) = b
  <2> DEFINE x == SubSeq(v, 1, n)
             y == SubSeq(v, n + 1, Len(v))
             m == Len(b)
  <2>1. /\ v \in Seq(Tokens) /\ n \in Nat /\ m \in Nat /\ Len(v) = n + m
        /\ \A i \in 1..n : v[i] = a[i]
        /\ \A i \in 1..m : v[n + i] = b[i]
    BY <1>1
  <2>2. x \in Seq(Tokens) /\ Len(x) = n /\ \A i \in 1..n : x[i] = v[i]
    BY <2>1
  <2>3. y \in Seq(Tokens) /\ Len(y) = m /\ \A i \in 1..m : y[i] = v[n + i]
    BY <2>1
  <2> HIDE DEF x, y, m
  <2>4. x = a
    BY <2>1, <2>2, SeqEqual
  <2>5. y = b
    BY <2>1, <2>3, SeqEqual DEF m
  <2> QED
    BY <2>4, <2>5 DEF x, y
<1>4. w = SubSeq(v, 1, n) \o p \o SubSeq(v, n + 1, Len(v))
  BY <1>1, <1>3
<1> QED
  BY <1>2, <1>4

LEMMA RequestTells ==
    ASSUME NEW r \in OpenAIRequests \cup AnthropicRequests
    PROVE  /\ r.messages \in Seq(OpenAIMessages) \cup Seq(AnthropicMessages)
           /\ UnifiedOf(r) \in Seq(UnifiedMessages) /\ UnifiedOf(r) # <<>>
           /\ Tells(Meant(Numbered(r.messages), r.tools # "none"), Judged(UnifiedOf(r), r.tools # "none"))
<1> DEFINE ms == r.messages
           us == UnifiedOf(r)
           listed == r.tools # "none"
<1>1. UnifiedFrom(ms, us)
  BY RequestUnified
<1>7. listed \in BOOLEAN
  OBVIOUS
<1> HIDE DEF listed
<1>2. us \in Seq(UnifiedMessages) /\ us # <<>>
  BY <1>1 DEF UnifiedFrom
<1>3. r.api = "openai" => ms \in Seq(OpenAIMessages)
  BY RequestMessages
<1>4. r.api # "openai" => ms \in Seq(AnthropicMessages)
  BY RequestMessages
<1>5. CASE r.api = "openai"
  <2>1. us = convert_openai_messages_to_unified(ms)
    BY <1>5 DEF UnifiedOf
  <2> QED
    BY <1>2, <1>3, <1>5, <1>7, <2>1, OpenAITells DEF listed
<1>6. CASE r.api # "openai"
  <2>1. us = convert_anthropic_messages(ms)
    BY <1>6 DEF UnifiedOf
  <2> QED
    BY <1>2, <1>4, <1>6, <1>7, <2>1, AnthropicTells DEF listed
<1> QED
  BY <1>5, <1>6

LEMMA PayloadTells == PayloadInv => ConversationTold
<1> SUFFICES ASSUME PayloadInv, payload # None PROVE ConversationTold
  BY DEF ConversationTold, TextKept, CallsListedOnce
<1> DEFINE us == UnifiedOf(request)
           list == request.tools
           tools == list # "none"
           system == request.system
           ms == request.messages
           gs == Meant(Numbered(ms), tools)
           hs == Judged(us, tools)
           p == SystemPrompt(system)
<1>1. request \in OpenAIRequests \cup AnthropicRequests
  BY DEF PayloadInv
<1>2. list \in Lists /\ tools \in BOOLEAN /\ system \in BOOLEAN
  BY <1>1, RequestUnified
<1>3. ms \in Seq(OpenAIMessages) \cup Seq(AnthropicMessages) /\ us \in Seq(UnifiedMessages) /\ us # <<>>
      /\ Tells(gs, hs)
  BY <1>1, RequestTells
<1>4. Entries = EntriesOf(us, list, system)
  BY DEF Entries, EntriesOf, PayloadInv
<1> HIDE DEF us, list, system, ms, p
<1>5. Tellable(us, Entries, p, tools)
  BY <1>2, <1>3, <1>4, EntriesTell DEF p
<1> HIDE DEF tools
<1>6. Told(ms, tools) = Loud(hs) \o Late(hs)
  BY <1>2, <1>3, ToldIs DEF Tells
<1>7. p \in Seq(Tokens)
  BY <1>2, PromptType DEF p
<1>8. PutIn(Told(ms, tools), FlattenSeq(EntryTexts(Entries)), p)
  BY <1>5, <1>6 DEF Tellable
<1>9. TextKept
  <2> DEFINE told == Told(ms, tools)
  <2>1. \E n \in 0..Len(told) :
          FlattenSeq(EntryTexts(Entries)) = SubSeq(told, 1, n) \o p \o SubSeq(told, n + 1, Len(told))
    BY <1>7, <1>8, Spliced
  <2> QED
    BY <2>1 DEF TextKept, EntryTexts, p, ms, tools, list, system
<1>10. CallsListedOnce
  <2> SUFFICES ASSUME tools PROVE CallsListedOnce
    BY DEF CallsListedOnce, tools, list
  <2>1. \A i \in 1..Len(Entries) : IsInjective(Entries[i].uses)
    BY <1>5 DEF Tellable, Once
  <2>2. ASSUME NEW i \in 1..Len(ms), ms[i].role = "assistant", ms[i].tool # None,
               \E j \in (i + 1)..Len(ms) : ms[j].role # "assistant"
        PROVE  \E k \in 1..Len(Entries) : ms[i].tool \in Range(Entries[k].uses)
    <3>1. Sealed(Meant(Numbered(ms), TRUE), ms[i].tool)
      BY <1>3, <2>2, MeantSealed
    <3>2. tools = TRUE
      BY <1>2
    <3>3. Sealed(gs, ms[i].tool)
      BY <3>1, <3>2
    <3> HIDE DEF gs, hs
    <3>4. Sealed(hs, ms[i].tool)
      BY <1>3, <3>3 DEF Tells
    <3>5. Used(Entries, ms[i].tool)
      BY <1>5, <3>4 DEF Tellable, hs
    <3> QED
      BY <3>5 DEF Used
  <2> QED
    BY <2>1, <2>2 DEF CallsListedOnce, ms
<1> QED
  BY <1>9, <1>10 DEF ConversationTold

(* Kiro is told the whole conversation: every text in order and with the   *)
(* system prompt once among them, the results of an Anthropic client that  *)
(* lists no tools twice and everything else once, and every call that has  *)
(* been followed by somebody else's message, whichever roles are mixed.    *)
THEOREM ConversationKept == PayloadSpec => []ConversationTold
  BY PayloadSteps, PayloadTells, PTL DEF PayloadSpec
=============================================================================
