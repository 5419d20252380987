----------------------------- MODULE LoopLemmas ----------------------------
(***************************************************************************)
(* What the proofs about loops over sequences share: induction stated for  *)
(* a set of numbers or of sequences, the result of steps taken one after   *)
(* the other, and what the operators of Sequences and SequencesExt return. *)
(***************************************************************************)
EXTENDS Naturals, Sequences, SequencesExt, FiniteSetTheorems, SequenceTheorems,
        WellFoundedInduction, TLAPS

(* Induction, for a set of numbers instead of a formula.                   *)
LEMMA Upwards ==
    ASSUME NEW P, 0 \in P, \A n \in Nat : n \in P => n + 1 \in P
    PROVE  Nat \subseteq P
<1> DEFINE Bad == Nat \ P
<1>1. SUFFICES ASSUME Bad # {} PROVE FALSE
  OBVIOUS
<1>2. PICK n \in Bad : \A m \in Bad : <<m, n>> \notin OpToRel(<, Nat)
  BY <1>1, NatLessThanWellFounded, WFMin
<1>3. n \in Nat /\ n # 0
  OBVIOUS
<1>4. n - 1 \in Nat /\ n - 1 < n /\ (n - 1) + 1 = n
  BY <1>3
<1>5. n - 1 \notin Bad
  BY <1>2, <1>3, <1>4, Zenon DEF OpToRel
<1> QED
  BY <1>2, <1>3, <1>4, <1>5

(* The steps of a loop, taken one after the other from a first state.      *)
Steps(S, n) == [1..n -> [S -> S]]
Visits(f, S, first, step, n) ==
    f \in [0..n -> S] /\ f[0] = first /\ \A i \in 1..n : f[i] = step[i][f[i - 1]]

LEMMA Iterates ==
    ASSUME NEW S, NEW first \in S, NEW n \in Nat, NEW step \in Steps(S, n)
    PROVE  \E f : Visits(f, S, first, step, n)
<1> USE DEF Steps
<1> DEFINE Run(f, m) == f[0] = first /\ \A i \in 1..m : f[i] = step[i][f[i - 1]]
           P == {m \in Nat : m <= n => \E f \in [0..m -> S] : Run(f, m)}
<1>1. 0 \in P
  <2> DEFINE f == [i \in 0..0 |-> first]
  <2>1. f \in [0..0 -> S] /\ Run(f, 0)
    OBVIOUS
  <2> QED
    BY <2>1
<1>2. ASSUME NEW m \in Nat, m \in P PROVE m + 1 \in P
  <2>1. SUFFICES ASSUME m + 1 <= n PROVE \E f \in [0..(m + 1) -> S] : Run(f, m + 1)
    OBVIOUS
  <2>2. PICK f \in [0..m -> S] : Run(f, m)
    BY <1>2, <2>1
  <2> DEFINE g == [i \in 0..(m + 1) |-> IF i = m + 1 THEN step[m + 1][f[m]] ELSE f[i]]
  <2>3. step[m + 1][f[m]] \in S
    BY <2>1
  <2>4. g \in [0..(m + 1) -> S]
    BY <2>3
  <2>5. g[0] = first
    BY <2>2
  <2>6. ASSUME NEW i \in 1..(m + 1) PROVE g[i] = step[i][g[i - 1]]
    <3>1. g[i - 1] = f[i - 1]
      OBVIOUS
    <3>2. CASE i = m + 1
      BY <3>1, <3>2
    <3>3. CASE i # m + 1
      <4>1. i \in 1..m /\ g[i] = f[i]
        BY <3>3
      <4> QED
        BY <2>2, <3>1, <4>1
    <3> QED
      BY <3>2, <3>3
  <2> HIDE DEF g
  <2> QED
    BY <2>4, <2>5, <2>6
<1> HIDE DEF P
<1>3. Nat \subseteq P
  BY <1>1, <1>2, Upwards
<1>4. n \in P
  BY <1>3
<1> QED
  BY <1>4 DEF P, Visits

LEMMA LeastOf ==
    ASSUME NEW S \in SUBSET Nat, S # {}
    PROVE  \E x \in S : \A y \in S : x <= y
<1>1. PICK x \in S : \A y \in S : <<y, x>> \notin OpToRel(<, Nat)
  BY NatLessThanWellFounded, WFMin
<1>2. ASSUME NEW y \in S PROVE x <= y
  <2>1. y \in Nat /\ x \in Nat
    OBVIOUS
  <2>2. ~(y < x)
    BY <1>1, <2>1, Zenon DEF OpToRel
  <2> QED
    BY <2>1, <2>2
<1> QED
  BY <1>2

Joins(p, q, r, v) ==
    /\ Len(v) = Len(p) + Len(q) + Len(r)
    /\ \A i \in 1..Len(p) : v[i] = p[i]
    /\ \A i \in 1..Len(q) : v[Len(p) + i] = q[i]
    /\ \A i \in 1..Len(r) : v[Len(p) + Len(q) + i] = r[i]

LEMMA Concat ==
    ASSUME NEW S, NEW p \in Seq(S), NEW q \in Seq(S)
    PROVE  p \o q \in Seq(S) /\ Joins(p, q, <<>>, p \o q)
<1> DEFINE u == p \o q
<1>1. /\ u \in Seq(S) /\ Len(u) = Len(p) + Len(q)
      /\ \A i \in 1..Len(p) : u[i] = p[i]
      /\ \A i \in 1..Len(q) : u[Len(p) + i] = q[i]
  OBVIOUS
<1>2. Len(<<>>) = 0 /\ Len(p) \in Nat /\ Len(q) \in Nat
  OBVIOUS
<1> HIDE DEF u
<1>3. u \in Seq(S) /\ Joins(p, q, <<>>, u)
  BY <1>1, <1>2 DEF Joins
<1> QED
  BY <1>3 DEF u

LEMMA PartOf ==
    ASSUME NEW S, NEW t \in Seq(S), NEW a \in Nat, NEW c \in Nat, 1 <= a, a <= c + 1, c <= Len(t)
    PROVE  /\ SubSeq(t, a, c) \in Seq(S) /\ Len(SubSeq(t, a, c)) = c + 1 - a
           /\ \A k \in 1..(c + 1 - a) : SubSeq(t, a, c)[k] = t[a + k - 1]
  OBVIOUS

(***************************************************************************)
(* Loops over sequences: induction for a set of sequences, and what a loop *)
(* that acts on one element after the other comes to.                      *)
(***************************************************************************)
LEMMA OneByOne ==
    ASSUME NEW X, NEW P, <<>> \in P, \A xs \in Seq(X) : \A x \in X : xs \in P => Append(xs, x) \in P
    PROVE  Seq(X) \subseteq P
<1> DEFINE Q == {n \in Nat : \A xs \in Seq(X) : Len(xs) = n => xs \in P}
<1>1. 0 \in Q
  <2> SUFFICES ASSUME NEW xs \in Seq(X), Len(xs) = 0 PROVE xs \in P
    OBVIOUS
  <2>1. xs = <<>>
    BY EmptySeq
  <2> QED
    BY <2>1
<1>2. ASSUME NEW n \in Nat, n \in Q PROVE n + 1 \in Q
  <2> SUFFICES ASSUME NEW xs \in Seq(X), Len(xs) = n + 1 PROVE xs \in P
    OBVIOUS
  <2>1. xs # <<>>
    BY EmptySeq
  <2>2. PICK ys \in Seq(X), x \in X : xs = Append(ys, x)
    BY <2>1, SequenceEmptyOrAppend
  <2>3. Len(ys) = n
    BY <2>2
  <2> QED
    BY <1>2, <2>2, <2>3
<1> HIDE DEF Q
<1>3. \A n \in Nat : n \in Q
  BY <1>1, <1>2, Upwards
<1> QED
  <2> SUFFICES ASSUME NEW xs \in Seq(X) PROVE xs \in P
    OBVIOUS
  <2>1. Len(xs) \in Nat
    OBVIOUS
  <2> QED
    BY <1>3, <2>1 DEF Q

Acting(S, X) == [S \X X -> S]

Acts(f, first, act, xs) ==
    f[0] = first /\ \A k \in 1..Len(xs) : f[k] = act[<<f[k - 1], xs[k]>>]

Outcome(S, first, act, xs) ==
    (CHOOSE f \in [0..Len(xs) -> S] : Acts(f, first, act, xs))[Len(xs)]

LEMMA OneAct ==
    ASSUME NEW S, NEW X, NEW first \in S, NEW act \in Acting(S, X), NEW xs \in Seq(X)
    PROVE  \E f \in [0..Len(xs) -> S] : Acts(f, first, act, xs)
<1> DEFINE n == Len(xs)
           step == [k \in 1..n |-> [s \in S |-> act[<<s, xs[k]>>]]]
<1> USE DEF Acting
<1>1. n \in Nat
  OBVIOUS
<1>2. step \in Steps(S, n)
  <2>1. \A k \in 1..n : xs[k] \in X
    OBVIOUS
  <2> QED
    BY <2>1 DEF Steps
<1>3. PICK f : Visits(f, S, first, step, n)
  <2> HIDE DEF step, n
  <2> QED
    BY <1>1, <1>2, Iterates
<1>4. f \in [0..n -> S] /\ f[0] = first /\ \A k \in 1..n : f[k] = step[k][f[k - 1]]
  BY <1>3 DEF Visits
<1>5. ASSUME NEW k \in 1..n PROVE f[k] = act[<<f[k - 1], xs[k]>>]
  <2>1. k - 1 \in 0..n
    BY <1>1
  <2>2. f[k - 1] \in S
    BY <1>4, <2>1
  <2> QED
    BY <1>4, <2>2
<1> QED
  BY <1>4, <1>5 DEF Acts

LEMMA SameActs ==
    ASSUME NEW first, NEW act, NEW xs, NEW f, NEW g, NEW n \in Nat,
           Acts(f, first, act, xs), Acts(g, first, act, xs), n <= Len(xs), Len(xs) \in Nat
    PROVE  f[n] = g[n]
<1> DEFINE P == {k \in Nat : k <= n => f[k] = g[k]}
<1>1. 0 \in P
  BY DEF Acts
<1>2. ASSUME NEW k \in Nat, k \in P PROVE k + 1 \in P
  <2>1. SUFFICES ASSUME k + 1 <= n PROVE f[k + 1] = g[k + 1]
    OBVIOUS
  <2>2. k + 1 \in 1..Len(xs) /\ (k + 1) - 1 = k /\ f[k] = g[k]
    BY <1>2, <2>1
  <2>3. f[k + 1] = act[<<f[(k + 1) - 1], xs[k + 1]>>] /\ g[k + 1] = act[<<g[(k + 1) - 1], xs[k + 1]>>]
    BY <2>2 DEF Acts
  <2> QED
    BY <2>2, <2>3
<1> HIDE DEF P
<1>3. n \in P
  BY <1>1, <1>2, Upwards
<1> QED
  BY <1>3 DEF P

LEMMA OutcomeIs ==
    ASSUME NEW S, NEW X, NEW first \in S, NEW act \in Acting(S, X), NEW xs \in Seq(X),
           NEW f, Acts(f, first, act, xs)
    PROVE  Outcome(S, first, act, xs) = f[Len(xs)] /\ Outcome(S, first, act, xs) \in S
<1> DEFINE g == CHOOSE h \in [0..Len(xs) -> S] : Acts(h, first, act, xs)
<1>1. g \in [0..Len(xs) -> S] /\ Acts(g, first, act, xs)
  BY OneAct
<1>2. Outcome(S, first, act, xs) = g[Len(xs)]
  BY DEF Outcome
<1> HIDE DEF g
<1>3. Len(xs) \in Nat /\ Len(xs) <= Len(xs) /\ Len(xs) \in 0..Len(xs)
  OBVIOUS
<1> QED
  BY <1>1, <1>2, <1>3, SameActs

LEMMA OutcomeNext ==
    ASSUME NEW S, NEW X, NEW first \in S, NEW act \in Acting(S, X)
    PROVE  /\ Outcome(S, first, act, <<>>) = first
           /\ \A xs \in Seq(X) : Outcome(S, first, act, xs) \in S
           /\ \A xs \in Seq(X) : \A x \in X :
                Outcome(S, first, act, Append(xs, x)) = act[<<Outcome(S, first, act, xs), x>>]
<1>1. ASSUME NEW xs \in Seq(X) PROVE Outcome(S, first, act, xs) \in S
  <2>1. PICK f \in [0..Len(xs) -> S] : Acts(f, first, act, xs)
    BY OneAct
  <2> QED
    BY <2>1, OutcomeIs
<1>2. Outcome(S, first, act, <<>>) = first
  <2>1. <<>> \in Seq(X) /\ Len(<<>>) = 0
    OBVIOUS
  <2>2. PICK f \in [0..Len(<<>>) -> S] : Acts(f, first, act, <<>>)
    BY <2>1, OneAct
  <2>3. Outcome(S, first, act, <<>>) = f[Len(<<>>)]
    BY <2>1, <2>2, OutcomeIs
  <2> QED
    BY <2>1, <2>2, <2>3 DEF Acts
<1>3. ASSUME NEW xs \in Seq(X), NEW x \in X
      PROVE  Outcome(S, first, act, Append(xs, x)) = act[<<Outcome(S, first, act, xs), x>>]
  <2> DEFINE ys == Append(xs, x)
             n == Len(xs)
  <2>1. ys \in Seq(X) /\ Len(ys) = n + 1 /\ n \in Nat /\ ys[n + 1] = x /\ \A k \in 1..n : ys[k] = xs[k]
    OBVIOUS
  <2> HIDE DEF ys
  <2>2. PICK f \in [0..Len(ys) -> S] : Acts(f, first, act, ys)
    BY <2>1, OneAct
  <2>3. Acts(f, first, act, xs)
    <3>1. \A k \in 1..n : k \in 1..Len(ys)
      BY <2>1
    <3> QED
      BY <2>1, <2>2, <3>1 DEF Acts
  <2>4. Outcome(S, first, act, ys) = f[n + 1] /\ Outcome(S, first, act, xs) = f[n]
    BY <2>1, <2>2, <2>3, OutcomeIs
  <2>5. f[n + 1] = act[<<f[n], x>>]
    <3>1. n + 1 \in 1..Len(ys) /\ (n + 1) - 1 = n
      BY <2>1
    <3>2. f[n + 1] = act[<<f[(n + 1) - 1], ys[n + 1]>>]
      BY <2>2, <3>1 DEF Acts
    <3> QED
      BY <2>1, <3>1, <3>2
  <2> QED
    BY <2>4, <2>5 DEF ys
<1> QED
  BY <1>1, <1>2, <1>3

(* Sequences put one after the other.                                      *)
LEMMA FlattenNext ==
    ASSUME NEW T
    PROVE  /\ FlattenSeq(<<>>) = <<>>
           /\ \A s \in Seq(Seq(T)) : FlattenSeq(s) \in Seq(T)
           /\ \A s \in Seq(Seq(T)) : \A t \in Seq(T) : FlattenSeq(Append(s, t)) = FlattenSeq(s) \o t
<1> DEFINE S == Seq(T)
           act == [p \in S \X S |-> p[1] \o p[2]]
           none == <<>>
<1>2. none \in S /\ \A t \in S : none \o t = t
  OBVIOUS
<1>7. \A s, t \in S : s \o t \in S
  OBVIOUS
<1> HIDE DEF S
<1>1. act \in [S \X S -> S] /\ \A s, t \in S : act[<<s, t>>] = s \o t
  <2>1. \A p \in S \X S : p[1] \in S /\ p[2] \in S
    OBVIOUS
  <2>2. act \in [S \X S -> S]
    BY <1>7, <2>1
  <2>3. ASSUME NEW s \in S, NEW t \in S PROVE act[<<s, t>>] = s \o t
    <3>1. <<s, t>> \in S \X S
      OBVIOUS
    <3> QED
      BY <3>1
  <2> QED
    BY <2>2, <2>3
<1>8. act \in Acting(S, S)
  BY <1>1 DEF Acting
<1> HIDE DEF act, none
<1>3. ASSUME NEW s \in Seq(S) PROVE FlattenSeq(s) = Outcome(S, none, act, s)
  <2>1. CASE s = <<>>
    <3>1. FlattenSeq(s) = none
      BY <2>1 DEF FlattenSeq, none
    <3>2. Outcome(S, none, act, <<>>) = none
      BY <1>8, <1>2, OutcomeNext
    <3> QED
      BY <2>1, <3>1, <3>2
  <2>2. CASE s # <<>>
    <3> DEFINE n == Len(s)
               After(f) == [i \in 1..n |-> IF i = 1 THEN s[i] ELSE f[i - 1] \o s[i]]
               flatten == CHOOSE f : f = After(f)
    <3>1. n \in Nat /\ n # 0 /\ n >= 1
      BY <2>2, EmptySeq
    <3>2. FlattenSeq(s) = flatten[n]
      <4>1. FlattenSeq(s) = IF Len(s) = 0 THEN s ELSE flatten[n]
        BY Zenon DEF FlattenSeq
      <4> QED
        BY <3>1, <4>1
    <3>3. PICK f \in [0..n -> S] : Acts(f, none, act, s)
      BY <1>8, <1>2, OneAct
    <3>4. \A k \in 1..n : f[k] = f[k - 1] \o s[k]
      <4> SUFFICES ASSUME NEW k \in 1..n PROVE f[k] = f[k - 1] \o s[k]
        OBVIOUS
      <4>1. f[k - 1] \in S /\ s[k] \in S
        BY <3>1, <3>3
      <4> QED
        BY <1>1, <3>3, <4>1 DEF Acts
    <3>5. f[1] = s[1]
      <4>1. 1 \in 1..n /\ s[1] \in S /\ 1 - 1 = 0 /\ f[0] = none
        BY <3>1, <3>3 DEF Acts
      <4>2. f[1] = none \o s[1]
        BY <3>4, <4>1
      <4> QED
        BY <1>2, <4>1, <4>2
    <3> DEFINE g == [k \in 1..n |-> f[k]]
    <3>6. g = After(g)
      <4>1. ASSUME NEW k \in 1..n PROVE g[k] = After(g)[k]
        <5>1. CASE k = 1
          BY <3>5, <5>1
        <5>2. CASE k # 1
          <6>1. k - 1 \in 1..n
            BY <3>1, <5>2
          <6> QED
            BY <3>4, <5>2, <6>1
        <5> QED
          BY <5>1, <5>2
      <4> QED
        BY <4>1
    <3>7. flatten = After(flatten)
      <4> HIDE DEF g
      <4> QED
        BY <3>6, Zenon
    <3> HIDE DEF flatten
    <3> DEFINE P == {k \in Nat : k + 1 <= n => flatten[k + 1] = f[k + 1]}
    <3>8. 0 \in P
      <4>1. 1 \in 1..n /\ 0 + 1 = 1
        BY <3>1
      <4>2. flatten[1] = s[1]
        BY <3>7, <4>1
      <4> QED
        BY <3>5, <4>1, <4>2
    <3>9. ASSUME NEW k \in Nat, k \in P PROVE k + 1 \in P
      <4> DEFINE j == k + 1
      <4>1. SUFFICES ASSUME j + 1 <= n PROVE flatten[j + 1] = f[j + 1]
        OBVIOUS
      <4>2. j + 1 \in 1..n /\ j + 1 # 1 /\ (j + 1) - 1 = j /\ j <= n
        BY <3>1, <4>1
      <4>3. flatten[j] = f[j]
        BY <3>9, <4>2
      <4> HIDE DEF j
      <4>4. flatten[j + 1] = flatten[j] \o s[j + 1]
        BY <3>7, <4>2
      <4>5. f[j + 1] = f[j] \o s[j + 1]
        BY <3>4, <4>2
      <4> QED
        BY <4>3, <4>4, <4>5
    <3> HIDE DEF P
    <3>10. n - 1 \in P
      <4>1. n - 1 \in Nat
        BY <3>1
      <4> QED
        BY <3>8, <3>9, <4>1, Upwards
    <3>11. flatten[n] = f[n]
      <4>1. (n - 1) + 1 = n /\ n - 1 \in Nat
        BY <3>1
      <4> QED
        BY <3>10, <4>1 DEF P
    <3>12. Outcome(S, none, act, s) = f[n]
      BY <1>8, <1>2, <3>3, OutcomeIs
    <3> QED
      BY <3>2, <3>11, <3>12
  <2> QED
    BY <2>1, <2>2
<1>4. FlattenSeq(<<>>) = <<>>
  BY DEF FlattenSeq
<1>5. ASSUME NEW s \in Seq(S) PROVE FlattenSeq(s) \in S
  <2>1. Outcome(S, none, act, s) \in S
    BY <1>8, <1>2, OutcomeNext
  <2> QED
    BY <1>3, <2>1
<1>6. ASSUME NEW s \in Seq(S), NEW t \in S PROVE FlattenSeq(Append(s, t)) = FlattenSeq(s) \o t
  <2>1. Append(s, t) \in Seq(S)
    BY AppendProperties
  <2>2. Outcome(S, none, act, Append(s, t)) = act[<<Outcome(S, none, act, s), t>>]
    BY <1>8, <1>2, OutcomeNext
  <2> HIDE DEF S
  <2> QED
    BY <1>1, <1>3, <1>5, <2>1, <2>2
<1> QED
  BY <1>4, <1>5, <1>6 DEF S

(* A loop written as a function of the number of turns.                    *)
LEMMA LoopIs ==
    ASSUME NEW S, NEW X, NEW first \in S, NEW act \in Acting(S, X), NEW xs \in Seq(X), NEW upto,
           upto[0] = first,
           \A k \in 1..Len(xs) : upto[k - 1] \in S => upto[k] = act[<<upto[k - 1], xs[k]>>]
    PROVE  upto[Len(xs)] = Outcome(S, first, act, xs)
<1> DEFINE n == Len(xs)
<1>1. PICK f \in [0..n -> S] : Acts(f, first, act, xs)
  BY OneAct
<1>2. n \in Nat
  OBVIOUS
<1> HIDE DEF n
<1> DEFINE P == {k \in Nat : k <= n => upto[k] = f[k]}
<1>3. 0 \in P
  BY <1>1 DEF Acts
<1>4. ASSUME NEW k \in Nat, k \in P PROVE k + 1 \in P
  <2>1. SUFFICES ASSUME k + 1 <= n PROVE upto[k + 1] = f[k + 1]
    OBVIOUS
  <2>2. k + 1 \in 1..n /\ (k + 1) - 1 = k /\ upto[k] = f[k] /\ k \in 0..n
    BY <1>2, <1>4, <2>1
  <2>3. f[k] \in S
    BY <1>1, <2>2
  <2>4. upto[k + 1] = act[<<upto[(k + 1) - 1], xs[k + 1]>>]
    BY <2>2, <2>3 DEF n
  <2>5. f[k + 1] = act[<<f[(k + 1) - 1], xs[k + 1]>>]
    BY <1>1, <2>2 DEF Acts, n
  <2> QED
    BY <2>2, <2>4, <2>5
<1> HIDE DEF P
<1>5. n \in P
  BY <1>2, <1>3, <1>4, Upwards
<1>6. upto[n] = f[n]
  BY <1>2, <1>5 DEF P
<1> QED
  BY <1>1, <1>6, OutcomeIs DEF n

LEMMA LastOf ==
    ASSUME NEW S
    PROVE  /\ \A s \in Seq(S) : s # <<>> =>
                Front(s) \in Seq(S) /\ Last(s) \in S /\ s = Append(Front(s), Last(s))
           /\ \A s \in Seq(S) : \A x \in S :
                Append(s, x) # <<>> /\ Front(Append(s, x)) = s /\ Last(Append(s, x)) = x
<1>1. ASSUME NEW s \in Seq(S), NEW x \in S
      PROVE  Append(s, x) # <<>> /\ Front(Append(s, x)) = s /\ Last(Append(s, x)) = x
  <2> DEFINE t == Append(s, x)
  <2>1. /\ t \in Seq(S) /\ Len(t) = Len(s) + 1 /\ Len(s) \in Nat
        /\ t[Len(s) + 1] = x /\ \A i \in 1..Len(s) : t[i] = s[i]
    OBVIOUS
  <2> HIDE DEF t
  <2>2. Last(t) = x
    BY <2>1 DEF Last
  <2>3. Front(t) = s
    <3>1. Front(t) = SubSeq(t, 1, Len(s))
      BY <2>1 DEF Front
    <3> DEFINE n == Len(s)
               u == SubSeq(t, 1, n)
    <3>2. 1 \in Nat /\ n \in Nat /\ 1 <= n + 1 /\ n <= Len(t)
      BY <2>1
    <3>3. u \in Seq(S) /\ Len(u) = n + 1 - 1 /\ \A k \in 1..(n + 1 - 1) : u[k] = t[1 + k - 1]
      BY <2>1, <3>2, PartOf
    <3> HIDE DEF u
    <3>4. Len(u) = n /\ \A k \in 1..n : u[k] = t[k]
      BY <3>2, <3>3
    <3>5. u = s
      BY <2>1, <3>3, <3>4, SeqEqual
    <3> QED
      BY <3>1, <3>5 DEF u
  <2>4. t # <<>>
    BY <2>1
  <2> QED
    BY <2>2, <2>3, <2>4 DEF t
<1>2. ASSUME NEW s \in Seq(S), s # <<>>
      PROVE  Front(s) \in Seq(S) /\ Last(s) \in S /\ s = Append(Front(s), Last(s))
  <2>1. PICK r \in Seq(S), x \in S : s = Append(r, x)
    BY <1>2, SequenceEmptyOrAppend
  <2> QED
    BY <1>1, <2>1
<1> QED
  BY <1>1, <1>2
=============================================================================
