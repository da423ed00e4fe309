----------------------------- MODULE ListFacts ------------------------------
(* Lemmas about lists without repetition, which the models of the watches,  *)
(* the signal handlers, the trackers and the rows of a table have in common.*)
EXTENDS Integers, SequencesExt, SequenceTheorems, FiniteSetTheorems, WellFoundedInduction, TLAPS

\* Appending an element, mrp_list_append.
LEMMA AppendFacts ==
    ASSUME NEW T, NEW q \in Seq(T), NEW w \in T
    PROVE  /\ Append(q, w) \in Seq(T)
           /\ ToSet(Append(q, w)) = ToSet(q) \union {w}
           /\ Len(Append(q, w)) = Len(q) + 1
           /\ \A i \in 1 .. Len(q) : Append(q, w)[i] = q[i]
           /\ Append(q, w)[Len(q) + 1] = w
           /\ w \notin ToSet(q) /\ IsInjective(q) => IsInjective(Append(q, w))
<1> DEFINE a == Append(q, w)
<1>1. Len(q) \in Nat /\ DOMAIN q = 1 .. Len(q) /\ \A i \in 1 .. Len(q) : q[i] \in T
  BY LenProperties, ElementOfSeq
<1>2. /\ a \in Seq(T) /\ DOMAIN a = 1 .. (Len(q) + 1)
      /\ \A i \in 1 .. Len(q) : a[i] = q[i]
      /\ a[Len(q) + 1] = w
  BY <1>1
<1> HIDE DEF a
<1>3. ToSet(a) = ToSet(q) \union {w}
  <2>1. ToSet(a) \subseteq ToSet(q) \union {w}
    BY <1>1, <1>2 DEF ToSet
  <2>2. ToSet(q) \subseteq ToSet(a)
    BY <1>1, <1>2 DEF ToSet
  <2>3. w \in ToSet(a)
    BY <1>1, <1>2 DEF ToSet
  <2> QED  BY <2>1, <2>2, <2>3
<1>4. w \notin ToSet(q) /\ IsInjective(q) => IsInjective(a)
  BY <1>1, <1>2 DEF IsInjective, ToSet
<1> QED  BY <1>2, <1>3, <1>4 DEF a

\* A list without its first element.
LEMMA TailFacts ==
    ASSUME NEW T, NEW q \in Seq(T), q # <<>>, IsInjective(q)
    PROVE  /\ Head(q) \in ToSet(q) /\ Head(q) \in T
           /\ Tail(q) \in Seq(T)
           /\ ToSet(Tail(q)) = ToSet(q) \ {Head(q)}
           /\ Len(Tail(q)) = Len(q) - 1
           /\ \A i \in 1 .. Len(q) - 1 : Tail(q)[i] = q[i + 1]
           /\ IsInjective(Tail(q))
<1> DEFINE t == Tail(q)
<1>1. Len(q) \in Nat \ {0} /\ DOMAIN q = 1 .. Len(q) /\ Head(q) = q[1] /\ \A i \in 1 .. Len(q) : q[i] \in T
  BY LenProperties, ElementOfSeq, EmptySeq
<1>2. t \in Seq(T) /\ Len(t) = Len(q) - 1 /\ \A i \in 1 .. Len(q) - 1 : t[i] = q[i + 1]
  BY HeadTailProperties
<1>3. DOMAIN t = 1 .. Len(q) - 1
  BY <1>2, LenProperties
<1> HIDE DEF t
<1>4. 1 \in DOMAIN q /\ Head(q) \in ToSet(q) /\ Head(q) \in T
  BY <1>1 DEF ToSet
<1>5. IsInjective(t)
  <2> SUFFICES ASSUME NEW i \in DOMAIN t, NEW j \in DOMAIN t, t[i] = t[j]  PROVE i = j
    BY DEF IsInjective
  <2>1. i \in 1 .. Len(q) - 1 /\ j \in 1 .. Len(q) - 1 /\ i + 1 \in DOMAIN q /\ j + 1 \in DOMAIN q
    BY <1>1, <1>3
  <2>2. q[i + 1] = q[j + 1]
    BY <1>2, <2>1
  <2>3. i + 1 = j + 1
    BY <2>1, <2>2 DEF IsInjective
  <2> QED  BY <2>1, <2>3
<1>6. ToSet(t) \subseteq ToSet(q) \ {Head(q)}
  BY <1>1, <1>2, <1>3 DEF ToSet, IsInjective
<1>7. ToSet(q) \ {Head(q)} \subseteq ToSet(t)
  <2> SUFFICES ASSUME NEW i \in 1 .. Len(q), q[i] # q[1]  PROVE q[i] \in ToSet(t)
    BY <1>1 DEF ToSet
  <2>1. i - 1 \in DOMAIN t /\ t[i - 1] = q[i]
    <3>1. i # 1
      OBVIOUS
    <3>2. i - 1 \in 1 .. Len(q) - 1 /\ (i - 1) + 1 = i
      BY <1>1, <3>1
    <3> QED  BY <1>2, <1>3, <3>2
  <2> QED  BY <2>1 DEF ToSet
<1> QED  BY <1>2, <1>4, <1>5, <1>6, <1>7 DEF t

\* Taking the element at a place out of a sequence.
LEMMA RemoveAtElements ==
    ASSUME NEW T, NEW q \in Seq(T), NEW p \in 1 .. Len(q)
    PROVE  /\ RemoveAt(q, p) \in Seq(T)
           /\ Len(RemoveAt(q, p)) = Len(q) - 1
           /\ \A i \in 1 .. Len(q) - 1 : RemoveAt(q, p)[i] = IF i < p THEN q[i] ELSE q[i + 1]
<1> DEFINE a == SubSeq(q, 1, p - 1)
           b == SubSeq(q, p + 1, Len(q))
           r == RemoveAt(q, p)
<1>1. Len(q) \in Nat /\ DOMAIN q = 1 .. Len(q) /\ \A i \in 1 .. Len(q) : q[i] \in T
  BY LenProperties, ElementOfSeq
<1>2. /\ a \in Seq(T) /\ Len(a) = p - 1
      /\ \A i \in 1 .. p - 1 : a[i] = q[i]
  BY <1>1, SubSeqProperties
<1>3. /\ b \in Seq(T) /\ Len(b) = Len(q) - p
      /\ \A i \in 1 .. Len(q) - p : b[i] = q[p + i]
  <2>1. /\ b \in Seq(T) /\ Len(b) = IF p + 1 <= Len(q) THEN Len(q) - (p + 1) + 1 ELSE 0
        /\ \A i \in 1 .. Len(q) - (p + 1) + 1 : b[i] = q[p + 1 + i - 1]
    BY <1>1, SubSeqProperties
  <2> HIDE DEF b
  <2>2. Len(b) = Len(q) - p
    <3>1. CASE p + 1 <= Len(q)
      BY <1>1, <2>1, <3>1
    <3>2. CASE ~(p + 1 <= Len(q))
      <4>1. p = Len(q)
        <5>1. p \in Nat /\ p <= Len(q) /\ Len(q) \in Nat
          BY <1>1
        <5>2. \A l, k \in Nat : k <= l /\ ~(k + 1 <= l) => k = l
          OBVIOUS
        <5> QED  BY <3>2, <5>1, <5>2
      <4>2. Len(b) = 0
        BY <2>1, <3>2
      <4> QED  BY <1>1, <4>1, <4>2
    <3> QED  BY <3>1, <3>2
  <2>3. \A i \in 1 .. Len(q) - p : i \in 1 .. Len(q) - (p + 1) + 1 /\ p + 1 + i - 1 = p + i
    BY <1>1
  <2> QED  BY <2>1, <2>2, <2>3
<1> HIDE DEF a, b, r
<1>4. r = a \o b
  BY DEF RemoveAt, a, b, r
<1>5. /\ r \in Seq(T) /\ Len(r) = Len(q) - 1
      /\ \A i \in 1 .. Len(q) - 1 : r[i] = IF i < p THEN q[i] ELSE q[i + 1]
  <2>1. /\ r \in Seq(T) /\ Len(r) = Len(a) + Len(b)
        /\ \A i \in 1 .. Len(a) + Len(b) : r[i] = IF i <= Len(a) THEN a[i] ELSE b[i - Len(a)]
    <3>1. a \in Seq(T) /\ b \in Seq(T)
      BY <1>2, <1>3
    <3> QED  BY <3>1, <1>4, ConcatProperties
  <2>2. Len(a) + Len(b) = Len(q) - 1
    BY <1>1, <1>2, <1>3
  <2>3. ASSUME NEW i \in 1 .. Len(q) - 1  PROVE r[i] = IF i < p THEN q[i] ELSE q[i + 1]
    <3>1. CASE i < p
      BY <1>1, <1>2, <2>1, <2>2, <3>1
    <3>2. CASE ~(i < p)
      <4>1. i - (p - 1) \in 1 .. Len(q) - p /\ ~(i <= Len(a)) /\ p + (i - (p - 1)) = i + 1
        BY <1>1, <1>2, <3>2
      <4>2. r[i] = b[i - (p - 1)]
        BY <1>2, <2>1, <2>2, <4>1
      <4> QED  BY <1>3, <3>2, <4>1, <4>2
    <3> QED  BY <3>1, <3>2
  <2> QED  BY <2>1, <2>2, <2>3
<1> QED  BY <1>5 DEF r

\* The same when no element is there twice, mrp_list_delete.
LEMMA RemoveAtFacts ==
    ASSUME NEW T, NEW q \in Seq(T), NEW p \in 1 .. Len(q), IsInjective(q)
    PROVE  /\ RemoveAt(q, p) \in Seq(T)
           /\ ToSet(RemoveAt(q, p)) = ToSet(q) \ {q[p]}
           /\ Len(RemoveAt(q, p)) = Len(q) - 1
           /\ \A i \in 1 .. Len(q) - 1 : RemoveAt(q, p)[i] = IF i < p THEN q[i] ELSE q[i + 1]
           /\ IsInjective(RemoveAt(q, p))
<1> DEFINE r == RemoveAt(q, p)
<1>1. Len(q) \in Nat /\ DOMAIN q = 1 .. Len(q) /\ \A i \in 1 .. Len(q) : q[i] \in T
  BY LenProperties, ElementOfSeq
<1>2. /\ r \in Seq(T) /\ Len(r) = Len(q) - 1
      /\ \A i \in 1 .. Len(q) - 1 : r[i] = IF i < p THEN q[i] ELSE q[i + 1]
  BY RemoveAtElements
<1> HIDE DEF r
<1>3. DOMAIN r = 1 .. (Len(q) - 1)
  BY <1>2, LenProperties
<1>4. IsInjective(r)
  BY <1>1, <1>2, <1>3 DEF IsInjective
<1>5. ToSet(r) = ToSet(q) \ {q[p]}
  <2>1. ToSet(r) \subseteq ToSet(q) \ {q[p]}
    BY <1>1, <1>2, <1>3 DEF ToSet, IsInjective
  <2>2. ASSUME NEW i \in 1 .. Len(q), q[i] # q[p]  PROVE q[i] \in ToSet(r)
    <3>1. CASE i < p
      BY <1>1, <1>2, <1>3, <3>1 DEF ToSet
    <3>2. CASE i > p
      <4>1. i - 1 \in DOMAIN r /\ r[i - 1] = q[i]
        BY <1>1, <1>2, <1>3, <3>2
      <4> QED  BY <4>1 DEF ToSet
    <3> QED  BY <1>1, <2>2, <3>1, <3>2
  <2> QED  BY <1>1, <2>1, <2>2 DEF ToSet
<1> QED  BY <1>2, <1>4, <1>5 DEF r

\* A set of natural numbers has a least one.
LEMMA NatMinimum ==
    ASSUME NEW S, S \subseteq Nat, S # {}
    PROVE  \E x \in S : \A y \in S : x <= y
<1> DEFINE R == OpToRel(<, Nat)
<1>1. IsWellFoundedOn(R, Nat)
  BY NatLessThanWellFounded
<1>2. \A x, y \in Nat : ~(<<y, x>> \in R) => x <= y
  BY DEF OpToRel
<1> HIDE DEF R
<1>3. \E x \in S : \A y \in S : ~(<<y, x>> \in R)
  BY <1>1, WFMin
<1> QED  BY <1>2, <1>3

\* What InsertAt returns, element by element.
LEMMA InsertAtFacts ==
    ASSUME NEW T, NEW s \in Seq(T), NEW t \in T, NEW k \in 1 .. Len(s) + 1
    PROVE  /\ InsertAt(s, k, t) \in Seq(T)
           /\ Len(InsertAt(s, k, t)) = Len(s) + 1
           /\ \A i \in 1 .. Len(s) + 1 :
                  InsertAt(s, k, t)[i] = IF i < k THEN s[i]
                                         ELSE IF i = k THEN t ELSE s[i - 1]
<1> DEFINE a == SubSeq(s, 1, k - 1)
           b == <<t>>
           c == SubSeq(s, k, Len(s))
           ab == a \o b
<1>1. Len(s) \in Nat /\ \A i \in 1 .. Len(s) : s[i] \in T
  BY LenProperties, ElementOfSeq
<1>2. a \in Seq(T) /\ Len(a) = k - 1 /\ \A i \in 1 .. k - 1 : a[i] = s[i]
  BY <1>1, SubSeqProperties
<1>3. b \in Seq(T) /\ Len(b) = 1 /\ b[1] = t
  OBVIOUS
<1>4. /\ c \in Seq(T) /\ Len(c) = Len(s) - k + 1
      /\ \A i \in 1 .. Len(s) - k + 1 : c[i] = s[k + i - 1]
  BY <1>1, SubSeqProperties
<1> HIDE DEF a, b, c
<1>5. /\ ab \in Seq(T) /\ Len(ab) = k
      /\ \A i \in 1 .. k : ab[i] = IF i < k THEN s[i] ELSE t
  <2>1. /\ ab \in Seq(T) /\ Len(ab) = Len(a) + Len(b)
        /\ \A i \in 1 .. Len(a) + Len(b) : ab[i] = IF i <= Len(a) THEN a[i] ELSE b[i - Len(a)]
    BY <1>2, <1>3, ConcatProperties
  <2> QED  BY <1>2, <1>3, <2>1
<1> HIDE DEF ab
<1>6. /\ ab \o c \in Seq(T) /\ Len(ab \o c) = Len(ab) + Len(c)
      /\ \A i \in 1 .. Len(ab) + Len(c) :
             (ab \o c)[i] = IF i <= Len(ab) THEN ab[i] ELSE c[i - Len(ab)]
  BY <1>4, <1>5, ConcatProperties
<1>7. InsertAt(s, k, t) = ab \o c
  BY DEF InsertAt, ab, a, b, c
<1> QED  BY <1>1, <1>4, <1>5, <1>6, <1>7

\* Taking an element out again from where it was put.
LEMMA InsertRemove ==
    ASSUME NEW T, NEW s \in Seq(T), NEW t \in T, NEW k \in 1 .. Len(s) + 1
    PROVE  RemoveAt(InsertAt(s, k, t), k) = s
<1> DEFINE b == InsertAt(s, k, t)
           r == RemoveAt(b, k)
<1>1. Len(s) \in Nat /\ k \in 1 .. Len(s) + 1
  BY LenProperties
<1>2. /\ b \in Seq(T) /\ Len(b) = Len(s) + 1
      /\ \A i \in 1 .. Len(s) + 1 : b[i] = IF i < k THEN s[i] ELSE IF i = k THEN t ELSE s[i - 1]
  BY InsertAtFacts
<1> HIDE DEF b
<1>3. /\ r \in Seq(T) /\ Len(r) = Len(b) - 1
      /\ \A i \in 1 .. Len(b) - 1 : r[i] = IF i < k THEN b[i] ELSE b[i + 1]
  BY <1>1, <1>2, RemoveAtElements
<1> HIDE DEF r
<1>4. Len(r) = Len(s) /\ \A i \in 1 .. Len(s) : r[i] = s[i]
  <2>1. Len(r) = Len(s) /\ Len(b) - 1 = Len(s)
    BY <1>1, <1>2, <1>3
  <2>2. ASSUME NEW i \in 1 .. Len(s)  PROVE r[i] = s[i]
    <3>1. CASE i < k
      BY <1>1, <1>2, <1>3, <2>1, <3>1
    <3>2. CASE ~(i < k)
      <4>1. i + 1 \in 1 .. Len(s) + 1 /\ ~(i + 1 < k) /\ i + 1 # k /\ (i + 1) - 1 = i
        BY <1>1, <3>2
      <4>2. b[i + 1] = s[i]
        BY <1>2, <4>1
      <4> QED  BY <1>3, <2>1, <3>2, <4>2
    <3> QED  BY <3>1, <3>2
  <2> QED  BY <2>1, <2>2
<1> QED  BY <1>3, <1>4, SeqEqual DEF r, b

\* A recursive function exists when its body, as a function E of functions,
\* looks only at arguments of less weight.
LooksBelow(D, V, E, w, n) ==
    /\ E \in [[D -> V] -> [D -> V]] /\ w \in [D -> Nat] /\ \A r \in D : w[r] < n
    /\ \A f, g \in [D -> V], r \in D :
           (\A q \in D : w[q] < w[r] => f[q] = g[q]) => E[f][r] = E[g][r]

LEMMA RecursionExists ==
    ASSUME NEW D, NEW V, NEW E, NEW w, NEW n \in Nat, NEW v \in V, LooksBelow(D, V, E, w, n)
    PROVE  \E f \in [D -> V] : f = E[f]
<1> DEFINE Good(f, k) == \A r \in D : w[r] < k => f[r] = E[f][r]
           Bad == {k \in Nat : ~\E f \in [D -> V] : Good(f, k)}
<1>0. E \in [[D -> V] -> [D -> V]] /\ w \in [D -> Nat]
  BY DEF LooksBelow
<1>1. ASSUME NEW k \in Nat, NEW f \in [D -> V], Good(f, k)  PROVE Good(E[f], k + 1)
  <2> DEFINE g == E[f]
  <2>1. g \in [D -> V]
    BY <1>0
  <2>2. ASSUME NEW r \in D, w[r] < k + 1  PROVE g[r] = E[g][r]
    <3>1. \A q \in D : w[q] < w[r] => w[q] < k
      <4> SUFFICES ASSUME NEW q \in D, w[q] < w[r] PROVE w[q] < k
        OBVIOUS
      <4>1. w[q] \in Nat /\ w[r] \in Nat
        BY <1>0
      <4> QED  BY <2>2, <4>1
    <3>2. \A q \in D : w[q] < w[r] => f[q] = g[q]
      BY <1>1, <3>1
    <3> QED  BY <2>1, <3>2 DEF LooksBelow
  <2> QED  BY <2>2
<1>2. 0 \notin Bad
  <2>1. [r \in D |-> v] \in [D -> V] /\ Good([r \in D |-> v], 0)
    <3>1. \A r \in D : w[r] \in Nat /\ ~(w[r] < 0)
      BY <1>0
    <3> QED  BY <3>1
  <2> QED  BY <2>1
<1>3. ASSUME NEW k \in Nat, k \notin Bad  PROVE k + 1 \notin Bad
  <2>1. PICK f \in [D -> V] : Good(f, k)
    BY <1>3
  <2>2. E[f] \in [D -> V] /\ Good(E[f], k + 1)
    BY <1>0, <1>1, <2>1
  <2> QED  BY <2>2
<1> HIDE DEF Bad
<1>4. n \notin Bad
  <2> SUFFICES ASSUME n \in Bad  PROVE FALSE
    OBVIOUS
  <2>1. PICK m \in Bad : \A y \in Bad : m <= y
    <3>1. Bad \subseteq Nat
      BY DEF Bad
    <3> QED  BY <3>1, NatMinimum
  <2>2. m \in Nat /\ m # 0
    BY <1>2 DEF Bad
  <2>3. m - 1 \in Nat /\ ~(m <= m - 1) /\ (m - 1) + 1 = m
    BY <2>2
  <2>4. m - 1 \notin Bad
    BY <2>1, <2>3
  <2> QED  BY <1>3, <2>3, <2>4
<1>5. PICK f \in [D -> V] : Good(f, n)
  BY <1>4 DEF Bad
<1>6. \A r \in D : f[r] = E[f][r]
  BY <1>5 DEF LooksBelow
<1> QED  BY <1>0, <1>6

\* RemoveFirst takes out the place of an element that is there once.
LEMMA RemoveFirstIsRemoveAt ==
    ASSUME NEW T, NEW q \in Seq(T), IsInjective(q), NEW p \in 1 .. Len(q)
    PROVE  RemoveFirst(q, q[p]) = RemoveAt(q, p)
<1> DEFINE I == {j \in 1 .. Len(q) : q[j] = q[p]}
<1>1. I = {p}
  <2>1. DOMAIN q = 1 .. Len(q)
    BY LenProperties
  <2> QED  BY <2>1 DEF IsInjective
<1>2. Min(I) = p
  <2>1. p \in Nat
    BY LenProperties
  <2>2. \A y \in {p} : p <= y
    BY <2>1
  <2> QED  BY <1>1, <2>1, <2>2 DEF Min
<1>3. SelectInSeq(q, LAMBDA x : x = q[p]) = IF I # {} THEN Min(I) ELSE 0
  BY DEF SelectInSeq
<1>4. SelectInSeq(q, LAMBDA x : x = q[p]) = p
  BY <1>1, <1>2, <1>3
<1> QED  BY <1>4 DEF RemoveFirst

LEMMA RemoveFirstFacts ==
    ASSUME NEW T, NEW q \in Seq(T), IsInjective(q), NEW e \in ToSet(q)
    PROVE  /\ RemoveFirst(q, e) \in Seq(T) /\ IsInjective(RemoveFirst(q, e))
           /\ ToSet(RemoveFirst(q, e)) = ToSet(q) \ {e}
<1>1. PICK p \in 1 .. Len(q) : q[p] = e
  <2>1. DOMAIN q = 1 .. Len(q)
    BY LenProperties
  <2> QED  BY <2>1 DEF ToSet
<1> QED  BY <1>1, RemoveFirstIsRemoveAt, RemoveAtFacts

\* Counting up to n, with the set of the numbers a fact is true of.
LEMMA CountingUp ==
    ASSUME NEW n \in Nat, NEW S, 0 \in S, \A k \in 0 .. n - 1 : k \in S => k + 1 \in S
    PROVE  0 .. n \subseteq S
<1> SUFFICES ASSUME {k \in 0 .. n : k \notin S} # {}  PROVE FALSE
  OBVIOUS
<1>1. PICK x \in {k \in 0 .. n : k \notin S} : \A y \in {k \in 0 .. n : k \notin S} : x <= y
  <2>1. {k \in 0 .. n : k \notin S} \subseteq Nat
    OBVIOUS
  <2> QED  BY <2>1, NatMinimum
<1>2. x \in 0 .. n /\ x \notin S /\ x # 0
  BY <1>1
<1>3. x - 1 \in 0 .. n - 1 /\ x - 1 \in 0 .. n /\ ~(x <= x - 1) /\ (x - 1) + 1 = x
  BY <1>2
<1>4. x - 1 \in S
  BY <1>1, <1>3
<1> QED  BY <1>2, <1>3, <1>4

\* A loop, as a recursive function: what is known after k of n steps.
IsStep(n, V, v, step) == n \in Nat /\ v \in V /\ step \in [(1 .. n) \X V -> V]

LEMMA StepsExist ==
    ASSUME NEW n, NEW V, NEW v, NEW step, IsStep(n, V, v, step)
    PROVE  \E f \in [0 .. n -> V] : f[0] = v /\ \A k \in 1 .. n : f[k] = step[<<k, f[k - 1]>>]
<1> DEFINE D == 0 .. n
           B(f) == [k \in D |-> IF k = 0 THEN v ELSE step[<<k, f[k - 1]>>]]
           E == [f \in [D -> V] |-> B(f)]
           w == [k \in D |-> k]
<1> USE DEF IsStep
<1>1. ASSUME NEW f \in [D -> V]  PROVE B(f) \in [D -> V]
  <2> SUFFICES ASSUME NEW k \in D, k # 0  PROVE step[<<k, f[k - 1]>>] \in V
    OBVIOUS
  <2>1. k \in 1 .. n /\ k - 1 \in D
    OBVIOUS
  <2>2. f[k - 1] \in V
    BY <2>1
  <2>3. <<k, f[k - 1]>> \in (1 .. n) \X V
    BY <2>1, <2>2
  <2> QED  BY <2>3
<1>2. ASSUME NEW f \in [D -> V], NEW g \in [D -> V], NEW k \in D,
             \A q \in D : w[q] < w[k] => f[q] = g[q]
      PROVE  E[f][k] = E[g][k]
  <2>1. k # 0 => k - 1 \in D /\ k - 1 < k
    OBVIOUS
  <2>2. k # 0 => f[k - 1] = g[k - 1]
    BY <1>2, <2>1
  <2> QED  BY <2>2
<1>3. E \in [[D -> V] -> [D -> V]]
  BY <1>1
<1>4. w \in [D -> Nat] /\ \A k \in D : w[k] < n + 1
  OBVIOUS
<1> HIDE DEF D, E, w
<1>5. LooksBelow(D, V, E, w, n + 1)
  BY <1>2, <1>3, <1>4 DEF LooksBelow
<1>6. n + 1 \in Nat
  OBVIOUS
<1>7. PICK f \in [D -> V] : f = E[f]
  BY <1>5, <1>6, RecursionExists
<1>8. f = B(f)
  BY <1>7 DEF E
<1>9. 0 \in 0 .. n /\ \A k \in 1 .. n : k \in 0 .. n /\ k # 0
  OBVIOUS
<1> QED  BY <1>8, <1>9 DEF D

\* How many there are of what a set of marks counts, when one is appended, and
\* when one is taken out.
Marked(q, M) == {j \in DOMAIN q : q[j] \in M}

LEMMA AppendCounts ==
    ASSUME NEW T, NEW q \in Seq(T), NEW e \in T, NEW M
    PROVE  /\ IsFiniteSet(Marked(q, M)) /\ Cardinality(Marked(q, M)) \in Nat
           /\ Cardinality(Marked(Append(q, e), M)) = Cardinality(Marked(q, M)) + (IF e \in M THEN 1 ELSE 0)
<1> DEFINE a == Append(q, e)
<1>1. /\ a \in Seq(T) /\ Len(a) = Len(q) + 1 /\ a[Len(q) + 1] = e /\ Len(q) \in Nat
      /\ \A i \in 1 .. Len(q) : a[i] = q[i]
  BY AppendFacts, LenProperties
<1>2. DOMAIN q = 1 .. Len(q) /\ DOMAIN a = 1 .. Len(q) + 1
  BY <1>1, LenProperties
<1> HIDE DEF a
<1>3. IsFiniteSet(Marked(q, M)) /\ Cardinality(Marked(q, M)) \in Nat
  <2>1. IsFiniteSet(1 .. Len(q))
    BY <1>1, FS_Interval
  <2>2. Marked(q, M) \subseteq 1 .. Len(q)
    BY <1>2 DEF Marked
  <2> QED  BY <2>1, <2>2, FS_Subset, FS_CardinalityType
<1>4. Marked(a, M) = IF e \in M THEN Marked(q, M) \cup {Len(q) + 1} ELSE Marked(q, M)
  <2>1. \A j : j \in 1 .. Len(q) + 1 <=> j \in 1 .. Len(q) \/ j = Len(q) + 1
    BY <1>1
  <2>2. Len(q) + 1 \notin 1 .. Len(q)
    BY <1>1
  <2> QED  BY <1>1, <1>2, <2>1, <2>2 DEF Marked
<1>5. Len(q) + 1 \notin Marked(q, M)
  BY <1>1, <1>2 DEF Marked
<1>6. Cardinality(Marked(a, M)) = Cardinality(Marked(q, M)) + (IF e \in M THEN 1 ELSE 0)
  <2>1. CASE e \in M
    <3>1. Cardinality(Marked(q, M) \cup {Len(q) + 1}) = Cardinality(Marked(q, M)) + 1
      BY <1>3, <1>5, FS_AddElement
    <3> QED  BY <1>4, <2>1, <3>1
  <2>2. CASE e \notin M
    BY <1>3, <1>4, <2>2
  <2> QED  BY <2>1, <2>2
<1> QED  BY <1>3, <1>6 DEF a

LEMMA RemoveAtCounts ==
    ASSUME NEW T, NEW q \in Seq(T), NEW p \in 1 .. Len(q), NEW M
    PROVE  Cardinality(Marked(RemoveAt(q, p), M)) = Cardinality(Marked(q, M)) - (IF q[p] \in M THEN 1 ELSE 0)
<1> DEFINE r == RemoveAt(q, p)
           A == Marked(q, M)
           B == Marked(r, M)
           f == [j \in A \ {p} |-> IF j < p THEN j ELSE j - 1]
<1>1. /\ r \in Seq(T) /\ Len(r) = Len(q) - 1 /\ Len(q) \in Nat
      /\ \A i \in 1 .. Len(q) - 1 : r[i] = IF i < p THEN q[i] ELSE q[i + 1]
  BY RemoveAtElements, LenProperties
<1>2. DOMAIN q = 1 .. Len(q) /\ DOMAIN r = 1 .. Len(q) - 1
  BY <1>1, LenProperties
<1> HIDE DEF r
<1>3. IsFiniteSet(A)
  <2>1. IsFiniteSet(1 .. Len(q))
    BY <1>1, FS_Interval
  <2>2. A \subseteq 1 .. Len(q)
    BY <1>2 DEF Marked
  <2> QED  BY <2>1, <2>2, FS_Subset
<1>4. f \in [A \ {p} -> B]
  <2> SUFFICES ASSUME NEW j \in A \ {p}  PROVE (IF j < p THEN j ELSE j - 1) \in B
    OBVIOUS
  <2>1. j \in 1 .. Len(q) /\ j # p /\ q[j] \in M
    BY <1>2 DEF Marked
  <2>2. CASE j < p
    <3>1. j \in 1 .. Len(q) - 1
      BY <1>1, <2>1, <2>2
    <3> QED  BY <1>1, <1>2, <2>1, <2>2, <3>1 DEF Marked
  <2>3. CASE j > p
    <3>1. j - 1 \in 1 .. Len(q) - 1 /\ ~(j - 1 < p) /\ (j - 1) + 1 = j
      BY <1>1, <2>1, <2>3
    <3> QED  BY <1>1, <1>2, <2>1, <2>3, <3>1 DEF Marked
  <2> QED  BY <1>1, <2>1, <2>2, <2>3
<1>5. \A j \in A \ {p} : j \in 1 .. Len(q) /\ j # p
  BY <1>2 DEF Marked
<1>6. \A i, j \in A \ {p} : f[i] = f[j] => i = j
  BY <1>1, <1>5
<1>7. \A i \in B : \E j \in A \ {p} : f[j] = i
  <2> SUFFICES ASSUME NEW i \in B  PROVE \E j \in A \ {p} : f[j] = i
    OBVIOUS
  <2>1. i \in 1 .. Len(q) - 1 /\ r[i] \in M
    BY <1>2 DEF Marked
  <2>2. CASE i < p
    <3>1. i \in 1 .. Len(q) /\ r[i] = q[i] /\ i # p
      BY <1>1, <2>1, <2>2
    <3>2. i \in A \ {p}
      BY <1>2, <2>1, <3>1 DEF Marked
    <3> QED  BY <2>2, <3>2
  <2>3. CASE i >= p
    <3>1. i + 1 \in 1 .. Len(q) /\ r[i] = q[i + 1] /\ i + 1 # p /\ ~(i + 1 < p) /\ (i + 1) - 1 = i
      BY <1>1, <2>1, <2>3
    <3>2. i + 1 \in A \ {p}
      BY <1>2, <2>1, <3>1 DEF Marked
    <3> QED  BY <3>1, <3>2
  <2> QED  BY <1>1, <2>1, <2>2, <2>3
<1> HIDE DEF f, A, B
<1>8. ExistsBijection(A \ {p}, B)
  BY <1>4, <1>6, <1>7 DEF ExistsBijection, Bijection, Injection, Surjection, IsInjective
<1>9. IsFiniteSet(A \ {p}) /\ Cardinality(A \ {p}) = IF p \in A THEN Cardinality(A) - 1 ELSE Cardinality(A)
  BY <1>3, FS_RemoveElement
<1>10. Cardinality(B) = Cardinality(A \ {p})
  BY <1>8, <1>9, FS_Bijection
<1>11. p \in A <=> q[p] \in M
  BY <1>2 DEF A, Marked
<1>12. Cardinality(A) \in Nat
  BY <1>3, FS_CardinalityType
<1> QED  BY <1>9, <1>10, <1>11, <1>12 DEF A, B, r
------------------------------------------------------------------------------
\* Induction over the subsets of a finite set.
LEMMA TakingAway ==
    ASSUME NEW S, IsFiniteSet(S), NEW G, {} \in G,
           \A s \in SUBSET S : s # {} /\ (\A x \in s : s \ {x} \in G) => s \in G
    PROVE  SUBSET S \subseteq G
<1> DEFINE Bad == {Cardinality(s) : s \in (SUBSET S) \ G}
<1>1. \A s \in SUBSET S : IsFiniteSet(s) /\ Cardinality(s) \in Nat
  BY FS_Subset, FS_CardinalityType
<1>2. Bad \subseteq Nat
  BY <1>1
<1> SUFFICES ASSUME Bad # {}  PROVE FALSE
  OBVIOUS
<1>3. PICK m \in Bad : \A y \in Bad : m <= y
  <2> HIDE DEF Bad
  <2> QED  BY <1>2, NatMinimum
<1>4. PICK s \in (SUBSET S) \ G : m = Cardinality(s)
  OBVIOUS
<1>5. ASSUME NEW x \in s  PROVE s \ {x} \in G
  <2>1. Cardinality(s \ {x}) = m - 1 /\ m \in Nat
    BY <1>1, <1>4, FS_RemoveElement
  <2>2. m - 1 \notin Bad
    <3>1. ~(m <= m - 1)
      BY <2>1
    <3> HIDE DEF Bad
    <3> QED  BY <1>3, <3>1
  <2> QED  BY <2>1, <2>2
<1>6. s \in SUBSET S /\ s # {} /\ s \notin G
  BY <1>4
<1> QED  BY <1>5, <1>6

\* A sum is computed by taking an element after the other.
TakesEach(g, f, S) ==
    /\ g \in [SUBSET S -> Int]
    /\ \A s \in SUBSET S : g[s] = IF s = {} THEN 0 ELSE f[CHOOSE x \in s : TRUE] + g[s \ {CHOOSE x \in s : TRUE}]

LEMMA SumUnfolds ==
    ASSUME NEW f, NEW S, IsFiniteSet(S), \A x \in S : f[x] \in Int
    PROVE  \E g : TakesEach(g, f, S) /\ SumFunctionOnSet(f, S) = g[S]
<1> DEFINE B(g) == [s \in SUBSET S |-> IF s = {} THEN 0 ELSE f[CHOOSE x \in s : TRUE] + g[s \ {CHOOSE x \in s : TRUE}]]
           h == CHOOSE g : g = B(g)
           D == SUBSET S
           E == [g \in [D -> Int] |-> B(g)]
           w == [s \in D |-> Cardinality(s)]
           n == Cardinality(S) + 1
<1>1. SumFunctionOnSet(f, S) = h[S]
  BY Zenon DEF SumFunctionOnSet, FoldFunctionOnSet, MapThenFoldSet
<1>2. \A s \in D : s # {} => (CHOOSE x \in s : TRUE) \in s /\ s \ {CHOOSE x \in s : TRUE} \in D
  OBVIOUS
<1>3. \A s \in D : IsFiniteSet(s) /\ Cardinality(s) \in Nat /\ Cardinality(s) <= Cardinality(S)
  BY FS_Subset, FS_CardinalityType
<1>4. \A s \in D : s # {} => w[s \ {CHOOSE x \in s : TRUE}] < w[s]
  <2> SUFFICES ASSUME NEW s \in D, s # {}
               PROVE  Cardinality(s \ {CHOOSE x \in s : TRUE}) < Cardinality(s)
    BY <1>2
  <2>1. Cardinality(s \ {CHOOSE x \in s : TRUE}) = Cardinality(s) - 1
    BY <1>2, <1>3, FS_RemoveElement
  <2> QED  BY <1>3, <2>1
<1>5. ASSUME NEW g \in [D -> Int]  PROVE B(g) \in [D -> Int]
  <2> SUFFICES ASSUME NEW s \in D, s # {}
               PROVE  f[CHOOSE x \in s : TRUE] + g[s \ {CHOOSE x \in s : TRUE}] \in Int
    OBVIOUS
  <2>1. f[CHOOSE x \in s : TRUE] \in Int /\ g[s \ {CHOOSE x \in s : TRUE}] \in Int
    BY <1>2
  <2> QED  BY <2>1
<1>6. LooksBelow(D, Int, E, w, n)
  <2>1. E \in [[D -> Int] -> [D -> Int]]
    BY <1>5
  <2>2. w \in [D -> Nat] /\ \A s \in D : w[s] < n
    <3>1. Cardinality(S) \in Nat
      BY FS_CardinalityType
    <3>2. \A s \in D : w[s] = Cardinality(s)
      OBVIOUS
    <3> HIDE DEF D
    <3> QED  BY <1>3, <3>1, <3>2
  <2>3. ASSUME NEW g1 \in [D -> Int], NEW g2 \in [D -> Int], NEW s \in D,
               \A q \in D : w[q] < w[s] => g1[q] = g2[q]
        PROVE  E[g1][s] = E[g2][s]
    <3>1. E[g1] = B(g1) /\ E[g2] = B(g2)
      OBVIOUS
    <3>2. CASE s = {}
      BY <3>1, <3>2
    <3>3. CASE s # {}
      <4>1. g1[s \ {CHOOSE x \in s : TRUE}] = g2[s \ {CHOOSE x \in s : TRUE}]
        <5> HIDE DEF w
        <5> QED  BY <1>2, <1>4, <2>3, <3>3
      <4>2. B(g1)[s] = B(g2)[s]
        BY <4>1
      <4> QED  BY <3>1, <4>2
    <3> QED  BY <3>2, <3>3
  <2> HIDE DEF D, E, w, n
  <2> QED  BY <2>1, <2>2, <2>3 DEF LooksBelow
<1>7. \E g \in [D -> Int] : g = E[g]
  <2>1. n \in Nat /\ 0 \in Int
    BY FS_CardinalityType
  <2> HIDE DEF D, E, w, n
  <2> QED  BY <1>6, <2>1, RecursionExists
<1>8. h = B(h)
  <2>1. PICK g \in [D -> Int] : g = B(g)
    BY <1>7
  <2> QED  BY <2>1
<1>9. DOMAIN h = D /\ \A s \in D : h[s] = IF s = {} THEN 0 ELSE f[CHOOSE x \in s : TRUE] + h[s \ {CHOOSE x \in s : TRUE}]
  <2> HIDE DEF h
  <2> QED  BY <1>8
<1>10. \A s \in D : h[s] \in Int
  <2> DEFINE G == {s \in D : h[s] \in Int}
  <2>1. {} \in G
    <3> HIDE DEF h
    <3>1. {} \in D /\ 0 \in Int
      OBVIOUS
    <3> QED  BY <1>9, <3>1
  <2>2. ASSUME NEW s \in D, s # {}, \A x \in s : s \ {x} \in G  PROVE s \in G
    <3>1. f[CHOOSE x \in s : TRUE] \in Int /\ h[s \ {CHOOSE x \in s : TRUE}] \in Int
      BY <1>2, <2>2
    <3> HIDE DEF h
    <3> QED  BY <1>9, <2>2, <3>1
  <2> HIDE DEF G
  <2>3. D \subseteq G
    BY <2>1, <2>2, TakingAway
  <2> QED  BY <2>3 DEF G
<1> HIDE DEF h
<1> QED  BY <1>1, <1>8, <1>9, <1>10 DEF TakesEach

\* The order does not matter, and the sum depends on the summands only.
LEMMA SumTakes ==
    ASSUME NEW f, NEW S, IsFiniteSet(S), \A x \in S : f[x] \in Int, NEW g, TakesEach(g, f, S)
    PROVE  \A s \in SUBSET S : \A a \in s : g[s] = f[a] + g[s \ {a}]
<1> DEFINE G == {s \in SUBSET S : \A a \in s : g[s] = f[a] + g[s \ {a}]}
<1>1. {} \in G
  OBVIOUS
<1>2. ASSUME NEW s \in SUBSET S, s # {}, \A x \in s : s \ {x} \in G  PROVE s \in G
  <2> SUFFICES ASSUME NEW a \in s  PROVE g[s] = f[a] + g[s \ {a}]
    OBVIOUS
  <2>1. PICK x \in s : g[s] = f[x] + g[s \ {x}]
    BY ZenonT(40), <1>2 DEF TakesEach
  <2>2. CASE x = a
    BY <2>1, <2>2
  <2>3. CASE x # a
    <3>1. g[s \ {x}] = f[a] + g[(s \ {x}) \ {a}]
      BY <1>2, <2>3
    <3>2. g[s \ {a}] = f[x] + g[(s \ {a}) \ {x}]
      BY <1>2, <2>3
    <3>3. (s \ {x}) \ {a} = (s \ {a}) \ {x}
      OBVIOUS
    <3>4. f[a] \in Int /\ f[x] \in Int /\ g[(s \ {a}) \ {x}] \in Int
      BY DEF TakesEach
    <3>5. \A p, q, r \in Int : p + (q + r) = q + (p + r)
      OBVIOUS
    <3>6. g[s] = f[x] + (f[a] + g[(s \ {a}) \ {x}])
      BY <2>1, <3>1, <3>3
    <3>7. f[x] + (f[a] + g[(s \ {a}) \ {x}]) = f[a] + (f[x] + g[(s \ {a}) \ {x}])
      BY <3>4, <3>5
    <3> QED  BY <3>2, <3>6, <3>7
  <2> QED  BY <2>2, <2>3
<1> HIDE DEF G
<1>3. SUBSET S \subseteq G
  BY <1>1, <1>2, TakingAway
<1> QED  BY <1>3 DEF G

LEMMA SumSame ==
    ASSUME NEW f, NEW h, NEW S, NEW T, T \subseteq S, IsFiniteSet(S), \A x \in S : f[x] \in Int,
           \A x \in T : h[x] = f[x], NEW g, TakesEach(g, f, S), NEW k, TakesEach(k, h, T)
    PROVE  g[T] = k[T]
<1> DEFINE G == {s \in SUBSET T : g[s] = k[s]}
<1>1. {} \in G
  BY DEF TakesEach
<1>2. ASSUME NEW s \in SUBSET T, s # {}, \A x \in s : s \ {x} \in G  PROVE s \in G
  <2>1. PICK x \in s : k[s] = h[x] + k[s \ {x}]
    <3>1. k[s] = h[CHOOSE x \in s : TRUE] + k[s \ {CHOOSE x \in s : TRUE}] /\ (CHOOSE x \in s : TRUE) \in s
      BY <1>2 DEF TakesEach
    <3> QED  BY <3>1
  <2>2. g[s] = f[x] + g[s \ {x}]
    <3>1. s \in SUBSET S
      OBVIOUS
    <3> QED  BY <3>1, SumTakes
  <2>3. g[s \ {x}] = k[s \ {x}]
    BY <1>2
  <2> QED  BY <2>1, <2>2, <2>3
<1>3. IsFiniteSet(T)
  BY FS_Subset
<1> HIDE DEF G
<1>4. SUBSET T \subseteq G
  BY <1>1, <1>2, <1>3, TakingAway
<1> QED  BY <1>4 DEF G

LEMMA SumFacts ==
    ASSUME NEW f, NEW S, IsFiniteSet(S), \A x \in S : f[x] \in Int
    PROVE  /\ SumFunctionOnSet(f, S) \in Int
           /\ S = {} => SumFunctionOnSet(f, S) = 0
           /\ \A h : \A a \in S : (\A x \in S \ {a} : h[x] = f[x]) =>
                  SumFunctionOnSet(f, S) = f[a] + SumFunctionOnSet(h, S \ {a})
<1>1. PICK g : TakesEach(g, f, S) /\ SumFunctionOnSet(f, S) = g[S]
  BY SumUnfolds
<1>2. g[S] \in Int /\ (S = {} => g[S] = 0)
  BY <1>1 DEF TakesEach
<1>3. ASSUME NEW h, NEW a \in S, \A x \in S \ {a} : h[x] = f[x]
      PROVE  g[S] = f[a] + SumFunctionOnSet(h, S \ {a})
  <2>1. IsFiniteSet(S \ {a}) /\ \A x \in S \ {a} : h[x] \in Int
    BY <1>3, FS_Subset
  <2>2. PICK k : TakesEach(k, h, S \ {a}) /\ SumFunctionOnSet(h, S \ {a}) = k[S \ {a}]
    BY <2>1, SumUnfolds
  <2>3. g[S \ {a}] = k[S \ {a}]
    BY <1>1, <1>3, <2>2, SumSame
  <2> QED  BY <1>1, <2>2, <2>3, SumTakes
<1> QED  BY <1>1, <1>2, <1>3

\* The sum of the first k elements, one more at a time, whatever comes after;
\* and with an element before all of them.
Upto(f, k) == SumFunctionOnSet(f, 1 .. k)

LEMMA SumWithout ==
    ASSUME NEW f, NEW k \in Nat, k > 0, \A i \in 1 .. k : f[i] \in Int
    PROVE  \A h : (\A i \in 1 .. k - 1 : h[i] = f[i]) => Upto(f, k) = f[k] + SumFunctionOnSet(h, 1 .. k - 1)
<1> DEFINE S == 1 .. k
<1>1. k \in S /\ S \ {k} = 1 .. k - 1
  OBVIOUS
<1>2. IsFiniteSet(S) /\ \A x \in S : f[x] \in Int
  BY FS_Interval
<1>3. Upto(f, k) = SumFunctionOnSet(f, S)
  BY DEF Upto
<1> HIDE DEF S
<1>4. \A h : \A a \in S : (\A x \in S \ {a} : h[x] = f[x]) =>
          SumFunctionOnSet(f, S) = f[a] + SumFunctionOnSet(h, S \ {a})
  BY <1>2, SumFacts
<1> QED  BY <1>1, <1>3, <1>4

LEMMA UptoFacts ==
    ASSUME NEW f, NEW k \in Nat, \A i \in 1 .. k : f[i] \in Int
    PROVE  /\ Upto(f, k) \in Int /\ Upto(f, 0) = 0
           /\ k > 0 => Upto(f, k) = Upto(f, k - 1) + f[k]
           /\ \A h : (\A i \in 1 .. k : h[i] = f[i]) => Upto(h, k) = Upto(f, k)
<1>1. IsFiniteSet(1 .. k) /\ IsFiniteSet(1 .. 0) /\ 1 .. 0 = {}
  BY FS_Interval
<1>2. Upto(f, k) \in Int /\ (k = 0 => Upto(f, k) = 0)
  BY <1>1, SumFacts DEF Upto
<1>3. Upto(f, 0) = 0
  <2>1. \A x \in {} : f[x] \in Int
    OBVIOUS
  <2> QED  BY <1>1, <2>1, SumFacts DEF Upto
<1>6. ASSUME k > 0  PROVE Upto(f, k) = Upto(f, k - 1) + f[k]
  <2>1. Upto(f, k) = f[k] + Upto(f, k - 1)
    BY <1>6, SumWithout DEF Upto
  <2>2. f[k] \in Int
    BY <1>6
  <2>3. Upto(f, k - 1) \in Int
    <3>1. IsFiniteSet(1 .. k - 1) /\ \A x \in 1 .. k - 1 : f[x] \in Int
      BY FS_Interval
    <3> QED  BY <3>1, SumFacts DEF Upto
  <2> HIDE DEF Upto
  <2> QED  BY <2>1, <2>2, <2>3
<1>7. ASSUME NEW h, \A i \in 1 .. k : h[i] = f[i]  PROVE Upto(h, k) = Upto(f, k)
  <2>1. CASE k = 0
    <3>1. \A x \in {} : h[x] \in Int
      OBVIOUS
    <3>2. SumFunctionOnSet(h, {}) = 0 /\ SumFunctionOnSet(f, {}) = 0
      BY <1>1, <1>2, <2>1, <3>1, SumFacts DEF Upto
    <3> QED  BY <1>1, <2>1, <3>2 DEF Upto
  <2>2. CASE k > 0
    <3>1. Upto(f, k) = f[k] + SumFunctionOnSet(h, 1 .. k - 1)
      BY <1>7, <2>2, SumWithout
    <3>2. Upto(h, k) = h[k] + SumFunctionOnSet(h, 1 .. k - 1)
      <4>1. \A x \in 1 .. k : h[x] \in Int
        BY <1>7
      <4> QED  BY <2>2, <4>1, SumWithout
    <3> QED  BY <1>7, <2>2, <3>1, <3>2
  <2> QED  BY <2>1, <2>2
<1> QED  BY <1>2, <1>3, <1>6, <1>7

LEMMA UptoGrows ==
    ASSUME NEW f, NEW n \in Nat, \A i \in 1 .. n : f[i] \in Nat
    PROVE  /\ Upto(f, n) \in Nat
           /\ \A k \in 0 .. n : Upto(f, k) \in Nat /\ Upto(f, k) <= Upto(f, n)
<1>1. ASSUME NEW k \in 1 .. n  PROVE Upto(f, k) = Upto(f, k - 1) + f[k] /\ f[k] \in Nat
  <2>1. k \in Nat /\ k > 0 /\ \A i \in 1 .. k : f[i] \in Int
    OBVIOUS
  <2> QED  BY <2>1, UptoFacts
<1>2. Upto(f, 0) = 0
  <2>1. \A i \in 1 .. n : f[i] \in Int
    OBVIOUS
  <2> QED  BY <2>1, UptoFacts
<1> DEFINE S == {k \in 0 .. n : Upto(f, k) \in Nat /\ \A j \in 0 .. k : Upto(f, j) \in Nat /\ Upto(f, j) <= Upto(f, k)}
<1>3. 0 \in S
  <2>1. 0 \in 0 .. n /\ \A j \in 0 .. 0 : j = 0
    OBVIOUS
  <2> QED  BY <1>2, <2>1
<1>4. ASSUME NEW k \in 0 .. n - 1, k \in S  PROVE k + 1 \in S
  <2>1. k + 1 \in 1 .. n /\ k + 1 \in 0 .. n /\ (k + 1) - 1 = k /\ \A j \in 0 .. k + 1 : j \in 0 .. k \/ j = k + 1
    OBVIOUS
  <2>2. Upto(f, k + 1) = Upto(f, k) + f[k + 1] /\ f[k + 1] \in Nat /\ Upto(f, k) \in Nat
    BY <1>1, <1>4, <2>1
  <2>3. Upto(f, k + 1) \in Nat /\ Upto(f, k) <= Upto(f, k + 1)
    BY <2>2
  <2>4. ASSUME NEW j \in 0 .. k + 1  PROVE Upto(f, j) \in Nat /\ Upto(f, j) <= Upto(f, k + 1)
    <3>1. CASE j = k + 1
      BY <2>3, <3>1
    <3>2. CASE j \in 0 .. k
      <4>1. Upto(f, j) \in Nat /\ Upto(f, j) <= Upto(f, k)
        BY <1>4, <3>2
      <4> QED  BY <2>2, <2>3, <4>1
    <3> QED  BY <2>1, <3>1, <3>2
  <2> QED  BY <2>1, <2>3, <2>4
<1> HIDE DEF S
<1>5. n \in S
  <2>1. 0 .. n \subseteq S
    BY <1>3, <1>4, CountingUp
  <2> QED  BY <2>1
<1> QED  BY <1>5 DEF S

LEMMA UptoShifts ==
    ASSUME NEW f, NEW g, NEW n \in Nat, g[1] \in Int, \A i \in 1 .. n : f[i] \in Int /\ g[i + 1] = f[i]
    PROVE  Upto(g, n + 1) = g[1] + Upto(f, n)
<1>1. ASSUME NEW k \in 1 .. n  PROVE Upto(f, k) = Upto(f, k - 1) + f[k] /\ Upto(f, k - 1) \in Int
  <2>1. k \in Nat /\ k > 0 /\ k - 1 \in Nat /\ (\A i \in 1 .. k : f[i] \in Int) /\ \A i \in 1 .. k - 1 : f[i] \in Int
    OBVIOUS
  <2> QED  BY <2>1, UptoFacts
<1>2. \A i \in 1 .. n + 1 : g[i] \in Int
  <2> SUFFICES ASSUME NEW i \in 1 .. n + 1, i # 1  PROVE g[i] \in Int
    OBVIOUS
  <2>1. i - 1 \in 1 .. n /\ (i - 1) + 1 = i
    OBVIOUS
  <2> QED  BY <2>1
<1>3. ASSUME NEW k \in 1 .. n + 1  PROVE Upto(g, k) = Upto(g, k - 1) + g[k]
  <2>1. k \in Nat /\ k > 0 /\ \A i \in 1 .. k : g[i] \in Int
    BY <1>2
  <2> QED  BY <2>1, UptoFacts
<1>4. Upto(f, 0) = 0 /\ Upto(g, 0) = 0
  BY <1>2, UptoFacts
<1> DEFINE S == {k \in 0 .. n : Upto(g, k + 1) = g[1] + Upto(f, k)}
<1>5. 0 \in S
  <2>1. 0 \in 0 .. n /\ 1 \in 1 .. n + 1 /\ 1 - 1 = 0 /\ 0 + 1 = 1
    OBVIOUS
  <2>2. Upto(g, 1) = Upto(g, 0) + g[1]
    BY <1>3, <2>1
  <2> QED  BY <1>4, <2>1, <2>2
<1>6. ASSUME NEW k \in 0 .. n - 1, k \in S  PROVE k + 1 \in S
  <2>1. k + 1 \in 1 .. n /\ k + 1 \in 0 .. n /\ (k + 1) + 1 \in 1 .. n + 1 /\ (k + 1) - 1 = k /\ ((k + 1) + 1) - 1 = k + 1
    OBVIOUS
  <2>2. Upto(g, (k + 1) + 1) = Upto(g, k + 1) + g[(k + 1) + 1]
    BY <1>3, <2>1
  <2>3. Upto(f, k + 1) = Upto(f, k) + f[k + 1] /\ Upto(f, k) \in Int /\ f[k + 1] \in Int
    BY <1>1, <2>1
  <2>4. g[(k + 1) + 1] = f[k + 1]
    BY <2>1
  <2>5. Upto(g, k + 1) = g[1] + Upto(f, k)
    BY <1>6
  <2>6. Upto(g, (k + 1) + 1) = g[1] + Upto(f, k + 1)
    BY <2>2, <2>3, <2>4, <2>5
  <2> QED  BY <2>1, <2>6
<1> HIDE DEF S
<1>7. n \in S
  <2>1. 0 .. n \subseteq S
    BY <1>5, <1>6, CountingUp
  <2> QED  BY <2>1
<1> QED  BY <1>7 DEF S

\* Sequences laid end to end: the j-th element of the k-th one comes after
\* all the elements of those before it.
Lengths(s) == [i \in 1 .. Len(s) |-> Len(s[i])]

LEMMA LengthsFacts ==
    ASSUME NEW T, NEW s \in Seq(Seq(T))
    PROVE  /\ Upto(Lengths(s), 0) = 0
           /\ \A k \in 1 .. Len(s) :
                 /\ Upto(Lengths(s), k) = Upto(Lengths(s), k - 1) + Len(s[k])
                 /\ Upto(Lengths(s), k - 1) \in Nat /\ Upto(Lengths(s), k) \in Nat
<1> DEFINE n == Len(s)
           L == Lengths(s)
<1>1. n \in Nat /\ \A k \in 1 .. n : L[k] \in Nat /\ L[k] = Len(s[k])
  BY DEF Lengths
<1> HIDE DEF L, n
<1>2. \A i \in 1 .. n : L[i] \in Int
  BY <1>1
<1>3. Upto(L, 0) = 0
  BY <1>1, <1>2, UptoFacts
<1>4. ASSUME NEW k \in 1 .. n
      PROVE  Upto(L, k) = Upto(L, k - 1) + L[k] /\ Upto(L, k - 1) \in Nat /\ Upto(L, k) \in Nat
  <2>1. k \in Nat /\ k > 0 /\ (\A i \in 1 .. k : L[i] \in Int) /\ k \in 0 .. n /\ k - 1 \in 0 .. n
    BY <1>1, <1>2
  <2>2. \A i \in 0 .. n : Upto(L, i) \in Nat
    BY <1>1, UptoGrows
  <2>3. Upto(L, k) = Upto(L, k - 1) + L[k]
    BY <2>1, UptoFacts
  <2> QED  BY <2>1, <2>2, <2>3
<1> QED  BY <1>1, <1>3, <1>4 DEF L, n

LEMMA FlattenFacts ==
    ASSUME NEW T, NEW s \in Seq(Seq(T))
    PROVE  /\ FlattenSeq(s) \in Seq(T) /\ Len(FlattenSeq(s)) = Upto(Lengths(s), Len(s))
           /\ \A k \in 1 .. Len(s) : \A j \in 1 .. Len(s[k]) :
                 LET p == Upto(Lengths(s), k - 1) + j
                 IN  p \in 1 .. Len(FlattenSeq(s)) /\ FlattenSeq(s)[p] = s[k][j]
<1> DEFINE n == Len(s)
           L == Lengths(s)
           B(h) == [i \in 1 .. n |-> IF i = 1 THEN s[i] ELSE h[i - 1] \o s[i]]
           c == CHOOSE h : h = B(h)
           step == [x \in (1 .. n) \X Seq(T) |-> x[2] \o s[x[1]]]
<1>1. n \in Nat /\ \A k \in 1 .. n : s[k] \in Seq(T)
  OBVIOUS
<1>2. CASE n = 0
  <2>1. s = <<>>
    BY <1>2
  <2>2. FlattenSeq(s) = <<>>
    BY <2>1 DEF FlattenSeq
  <2>3. Upto(Lengths(s), Len(s)) = 0
    BY <1>2, LengthsFacts
  <2> QED  BY <1>2, <2>2, <2>3
<1>3. CASE n > 0
  <2>1. IsStep(n, Seq(T), <<>>, step)
    <3>1. \A x \in (1 .. n) \X Seq(T) : x[2] \o s[x[1]] \in Seq(T)
      BY <1>1, ConcatProperties
    <3> QED  BY <1>1, <3>1 DEF IsStep
  <2>2. PICK f \in [0 .. n -> Seq(T)] : f[0] = <<>> /\ \A k \in 1 .. n : f[k] = step[<<k, f[k - 1]>>]
    <3> HIDE DEF step, n
    <3> QED  BY <2>1, StepsExist
  <2>3. \A k \in 1 .. n : f[k] = f[k - 1] \o s[k]
    <3> SUFFICES ASSUME NEW k \in 1 .. n  PROVE f[k] = f[k - 1] \o s[k]
      OBVIOUS
    <3>1. k - 1 \in 0 .. n
      BY <1>1
    <3>2. <<k, f[k - 1]>> \in (1 .. n) \X Seq(T)
      BY <3>1
    <3>3. step[<<k, f[k - 1]>>] = f[k - 1] \o s[k]
      BY <3>2
    <3> HIDE DEF step
    <3> QED  BY <2>2, <3>3
  <2> DEFINE g == [i \in 1 .. n |-> f[i]]
  <2>4. g = B(g)
    <3>1. ASSUME NEW i \in 1 .. n  PROVE f[i] = IF i = 1 THEN s[i] ELSE g[i - 1] \o s[i]
      <4>1. CASE i = 1
        <5>0. 1 \in 1 .. n /\ 1 - 1 = 0
          BY <1>1, <1>3
        <5>1. f[1] = <<>> \o s[1] /\ s[1] \in Seq(T)
          <6>1. f[1] = f[1 - 1] \o s[1]
            BY <2>3, <5>0
          <6> HIDE DEF n, step
          <6> QED  BY <1>1, <2>2, <5>0, <6>1
        <5>2. <<>> \o s[1] = s[1]
          BY <5>1
        <5> QED  BY <4>1, <5>1, <5>2
      <4>2. CASE i # 1
        <5>1. i - 1 \in 1 .. n
          BY <1>1, <4>2
        <5>2. g[i - 1] = f[i - 1]
          BY <5>1
        <5> HIDE DEF g
        <5> QED  BY <2>3, <4>2, <5>2
      <4> QED  BY <4>1, <4>2
    <3> QED  BY <3>1
  <2>5. c = B(c)
    <3> HIDE DEF B, g
    <3> QED  BY <2>4
  <2>6. FlattenSeq(s) = c[n]
    <3>1. Len(s) # 0
      BY <1>3
    <3> QED  BY <3>1, Zenon DEF FlattenSeq
  <2> HIDE DEF c
  <2>7. /\ c[1] = s[1]
        /\ \A k \in 2 .. n : c[k] = c[k - 1] \o s[k]
    <3>1. 1 \in 1 .. n /\ \A k \in 2 .. n : k \in 1 .. n /\ k # 1
      BY <1>1, <1>3
    <3> QED  BY <2>5, <3>1
  <2>8. \A k \in 1 .. n : L[k] \in Nat /\ L[k] = Len(s[k])
    BY <1>1 DEF Lengths
  <2> HIDE DEF B, L, n
  <2>9. /\ Upto(L, 0) = 0
        /\ \A k \in 1 .. n : Upto(L, k) = Upto(L, k - 1) + L[k] /\ Upto(L, k - 1) \in Nat /\ Upto(L, k) \in Nat
    BY <2>8, LengthsFacts DEF L, n
  <2> DEFINE At(i, j) == Upto(L, i - 1) + j
             Good(k) == /\ c[k] \in Seq(T) /\ Len(c[k]) = Upto(L, k)
                        /\ \A i \in 1 .. k : \A j \in 1 .. Len(s[i]) :
                              At(i, j) \in 1 .. Upto(L, k) /\ c[k][At(i, j)] = s[i][j]
             S == {k \in 0 .. n : k = 0 \/ Good(k)}
  <2>10. 0 \in S
    BY <1>1
  <2>11. ASSUME NEW k \in 0 .. n - 1, k \in S  PROVE k + 1 \in S
    <3>1. k \in Nat /\ k + 1 \in 1 .. n /\ k + 1 \in 0 .. n /\ (k + 1) - 1 = k
      BY <1>1
    <3>2. /\ s[k + 1] \in Seq(T) /\ L[k + 1] = Len(s[k + 1]) /\ L[k + 1] \in Nat
          /\ Upto(L, k + 1) = Upto(L, k) + L[k + 1] /\ Upto(L, k) \in Nat
      BY <1>1, <2>8, <2>9, <3>1
    <3>3. CASE k = 0
      <4>1. c[1] = s[1] /\ Upto(L, 1) = L[1] /\ Upto(L, 0) = 0 /\ L[1] = Len(s[1]) /\ s[1] \in Seq(T)
        BY <2>7, <2>9, <3>2, <3>3
      <4>2. Good(1)
        <5>1. ASSUME NEW i \in 1 .. 1, NEW j \in 1 .. Len(s[i])
              PROVE  At(i, j) \in 1 .. Upto(L, 1) /\ c[1][At(i, j)] = s[i][j]
          <6>1. i = 1 /\ i - 1 = 0 /\ j \in 1 .. Len(s[1])
            BY <5>1
          <6>2. At(i, j) = j
            BY <4>1, <6>1
          <6> HIDE DEF At
          <6> QED  BY <4>1, <6>1, <6>2
        <5> HIDE DEF At
        <5> QED  BY <4>1, <5>1
      <4> HIDE DEF Good
      <4> QED  BY <3>1, <3>3, <4>2
    <3>4. CASE k # 0
      <4> DEFINE a == c[k]
                 b == s[k + 1]
                 d == c[k + 1]
                 m == Upto(L, k)
      <4>1. /\ a \in Seq(T) /\ Len(a) = m
            /\ \A i \in 1 .. k : \A j \in 1 .. Len(s[i]) : At(i, j) \in 1 .. m /\ a[At(i, j)] = s[i][j]
        BY <2>11, <3>4
      <4>2. d = a \o b
        <5>1. k + 1 \in 2 .. n
          BY <3>1, <3>4
        <5> QED  BY <2>7, <3>1, <5>1
      <4>3. b \in Seq(T) /\ Upto(L, k + 1) = m + Len(b) /\ m \in Nat
        BY <3>2
      <4>4. At(k + 1, 0) = m /\ \A j \in 1 .. Len(b) : At(k + 1, j) = m + j
        BY <3>1, <4>3
      <4> HIDE DEF a, b, d, m, At
      <4>5. /\ d \in Seq(T) /\ Len(d) = m + Len(b)
            /\ \A p \in 1 .. m : d[p] = a[p]
            /\ \A j \in 1 .. Len(b) : d[m + j] = b[j] /\ m + j \in 1 .. m + Len(b)
        <5>1. /\ d \in Seq(T) /\ Len(d) = Len(a) + Len(b)
              /\ \A p \in 1 .. Len(a) + Len(b) : d[p] = IF p <= Len(a) THEN a[p] ELSE b[p - Len(a)]
          BY <4>1, <4>2, <4>3, ConcatProperties
        <5>2. Len(b) \in Nat
          BY <4>3
        <5>3. \A p \in 1 .. m : p \in 1 .. m + Len(b) /\ p <= m
          BY <4>3, <5>2
        <5>4. ASSUME NEW j \in 1 .. Len(b)  PROVE d[m + j] = b[j] /\ m + j \in 1 .. m + Len(b)
          <6>1. m + j \in 1 .. m + Len(b) /\ ~(m + j <= m) /\ (m + j) - m = j
            BY <4>3, <5>2
          <6> QED  BY <4>1, <5>1, <6>1
        <5> QED  BY <4>1, <5>1, <5>3, <5>4
      <4>6. ASSUME NEW i \in 1 .. k + 1, NEW j \in 1 .. Len(s[i])
            PROVE  At(i, j) \in 1 .. m + Len(b) /\ d[At(i, j)] = s[i][j]
        <5>1. CASE i = k + 1
          BY <4>4, <4>5, <5>1 DEF b
        <5>2. CASE i # k + 1
          <6>1. i \in 1 .. k
            BY <3>1, <5>2
          <6>2. At(i, j) \in 1 .. m /\ a[At(i, j)] = s[i][j]
            BY <4>1, <6>1
          <6>3. At(i, j) \in 1 .. m + Len(b)
            <7>1. Len(b) \in Nat
              BY <4>3
            <7> QED  BY <4>3, <6>2, <7>1
          <6> QED  BY <4>5, <6>2, <6>3
        <5> QED  BY <5>1, <5>2
      <4>7. Good(k + 1)
        BY <4>3, <4>5, <4>6 DEF d, m
      <4> HIDE DEF Good
      <4> QED  BY <3>1, <4>7
    <3> QED  BY <3>3, <3>4
  <2> HIDE DEF S
  <2>12. n \in S
    <3>1. 0 .. n \subseteq S
      BY <1>1, <2>10, <2>11, CountingUp
    <3> QED  BY <1>1, <3>1
  <2>13. Good(n)
    BY <1>3, <2>12 DEF S
  <2> QED  BY <2>6, <2>13 DEF n, L
<1> QED  BY <1>1, <1>2, <1>3

LEMMA InItsSet == ASSUME NEW T, NEW q \in Seq(T)  PROVE q \in Seq(ToSet(q)) /\ DOMAIN q = 1 .. Len(q)
<1>1. DOMAIN q = 1 .. Len(q) /\ Len(q) \in Nat
  OBVIOUS
<1>2. \A i \in 1 .. Len(q) : q[i] \in ToSet(q)
  BY <1>1 DEF ToSet
<1> QED  BY <1>1, <1>2
==============================================================================
