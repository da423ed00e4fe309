----------------------------- MODULE TimersProofs -----------------------------
(***************************************************************************)
(* The safety properties of Timers, for any timers, intervals and units.   *)
(*                                                                         *)
(* The inductive invariant says, besides TimersSound, that the cursors p   *)
(* and n differ before the callback too, that what subloops changed is     *)
(* accounted for from the moment the poll timeout is computed, and that a  *)
(* timer that fires has expired.                                           *)
(***************************************************************************)
EXTENDS Timers, ListFacts

Sorted(s, c, r) ==
    \A i, j \in DOMAIN s : i < j /\ c[s[i]] /\ c[s[j]] => r[s[i]] <= r[s[j]]

Walk ==
    /\ pc \in {"check", "callback"} => p \in Elements(timers) \union {TimerList}
                                    /\ n \in Elements(timers) \union {TimerList}
    /\ pc \in {"check", "callback"} /\ p # TimerList => p # n
    /\ pc = "callback" => p # TimerList /\ rem[p] <= 0

Timeout ==
    pc \in {"subloops", "poll"} =>
        /\ sleep = Forever => Live \subseteq late
        /\ sleep > 0 /\ late = {} => next # NULL /\ rem[next] <= sleep

IInv ==
    /\ TypeOK
    /\ TimersOnOneList
    /\ Sorted(timers, cb, rem)
    /\ NextTimerIsLive
    /\ Walk
    /\ Timeout

-----------------------------------------------------------------------------
\* The least of the places a search ends at.
LEMMA LeastExists ==
    ASSUME NEW S, S \subseteq Nat, S # {}
    PROVE  /\ Least(S) \in S
           /\ \A j \in S : Least(S) <= j
BY NatMinimum DEF Least

\* Unlinking a timer removes it and keeps the order of the others.
LEMMA WithoutFacts ==
    ASSUME NEW T, NEW s \in Seq(T), NEW t, NoRepeats(s)
    PROVE  /\ Without(s, t) \in Seq(T)
           /\ Elements(Without(s, t)) = Elements(s) \ {t}
           /\ NoRepeats(Without(s, t))
           /\ \A i, j \in DOMAIN Without(s, t) : i < j =>
                  \E k, m \in DOMAIN s : /\ k < m
                                         /\ Without(s, t)[i] = s[k]
                                         /\ Without(s, t)[j] = s[m]
<1>1. Len(s) \in Nat /\ DOMAIN s = 1 .. Len(s) /\ \A i \in 1 .. Len(s) : s[i] \in T
  BY LenProperties, ElementOfSeq
<1>2. CASE t \notin Elements(s)
  BY <1>1, <1>2 DEF Without, Elements, NoRepeats
<1>3. CASE t \in Elements(s)
  <2> DEFINE k == CHOOSE i \in DOMAIN s : s[i] = t
             a == SubSeq(s, 1, k - 1)
             b == SubSeq(s, k + 1, Len(s))
             r == a \o b
  <2>1. k \in 1 .. Len(s) /\ s[k] = t
    BY <1>1, <1>3 DEF Elements
  <2>2. Without(s, t) = r
    BY <1>3 DEF Without
  <2> HIDE DEF k
  <2>3. a \in Seq(T) /\ Len(a) = k - 1 /\ \A i \in 1 .. k - 1 : a[i] = s[i]
    BY <1>1, <2>1, SubSeqProperties
  <2>4. /\ b \in Seq(T) /\ Len(b) = Len(s) - k
        /\ \A i \in 1 .. Len(s) - k : b[i] = s[k + i]
    <3>1. \A i \in k + 1 .. Len(s) : s[i] \in T
      BY <1>1, <2>1
    <3>2. /\ b \in Seq(T)
          /\ Len(b) = IF k + 1 <= Len(s) THEN Len(s) - (k + 1) + 1 ELSE 0
          /\ \A i \in 1 .. Len(s) - (k + 1) + 1 : b[i] = s[(k + 1) + i - 1]
      BY <1>1, <2>1, <3>1, SubSeqProperties
    <3> HIDE DEF b
    <3>3. ASSUME NEW i \in 1 .. Len(s) - k  PROVE  b[i] = s[k + i]
      <4>1. i \in 1 .. Len(s) - (k + 1) + 1 /\ (k + 1) + i - 1 = k + i
        BY <1>1, <2>1
      <4> QED  BY <3>2, <4>1
    <3>4. Len(b) = Len(s) - k
      <4>1. Len(s) \in Nat /\ k \in 1 .. Len(s)
        BY <1>1, <2>1
      <4>2. Len(b) = IF k + 1 <= Len(s) THEN Len(s) - (k + 1) + 1 ELSE 0
        BY <3>2
      <4>3. (IF k + 1 <= Len(s) THEN Len(s) - (k + 1) + 1 ELSE 0) = Len(s) - k
        BY <4>1
      <4> QED  BY <4>2, <4>3
    <3> QED  BY <3>2, <3>3, <3>4
  <2> HIDE DEF a, b
  <2>5. /\ r \in Seq(T) /\ Len(r) = Len(a) + Len(b)
        /\ \A i \in 1 .. Len(a) + Len(b) : r[i] = IF i <= Len(a) THEN a[i] ELSE b[i - Len(a)]
    BY <2>3, <2>4, ConcatProperties
  <2> HIDE DEF r
  <2>6. /\ DOMAIN r = 1 .. Len(s) - 1
        /\ \A i \in 1 .. Len(s) - 1 : r[i] = IF i < k THEN s[i] ELSE s[i + 1]
    <3>1. Len(r) = Len(s) - 1
      BY <1>1, <2>1, <2>3, <2>4, <2>5
    <3>2. DOMAIN r = 1 .. Len(r)
      BY <2>5, LenProperties
    <3>3. ASSUME NEW i \in 1 .. Len(s) - 1
          PROVE  r[i] = IF i < k THEN s[i] ELSE s[i + 1]
      <4>1. r[i] = IF i <= k - 1 THEN a[i] ELSE b[i - (k - 1)]
        BY <1>1, <2>1, <2>3, <2>4, <2>5
      <4>2. CASE i < k
        BY <2>1, <2>3, <4>1, <4>2
      <4>3. CASE i >= k
        <5>1. i - (k - 1) \in 1 .. Len(s) - k /\ k + (i - (k - 1)) = i + 1
          BY <1>1, <2>1, <4>3
        <5> QED  BY <1>1, <2>1, <2>4, <4>1, <4>3, <5>1
      <4> QED  BY <2>1, <4>2, <4>3
    <3> QED  BY <3>1, <3>2, <3>3
  <2>7. \A i \in 1 .. Len(s) : i = k <=> s[i] = t
    BY <1>1, <2>1 DEF NoRepeats
  <2>8. Elements(r) = Elements(s) \ {t}
    <3>1. ASSUME NEW i \in 1 .. Len(s) - 1 PROVE r[i] \in Elements(s) \ {t}
      BY <1>1, <2>1, <2>6, <2>7 DEF Elements
    <3>2. ASSUME NEW i \in 1 .. Len(s), s[i] # t PROVE s[i] \in Elements(r)
      <4>1. CASE i < k
        BY <1>1, <2>1, <2>6, <4>1 DEF Elements
      <4>2. CASE i > k
        <5>1. i - 1 \in DOMAIN r /\ r[i - 1] = s[i]
          BY <1>1, <2>1, <2>6, <4>2
        <5> QED  BY <5>1 DEF Elements
      <4> QED  BY <2>1, <2>7, <3>2, <4>1, <4>2
    <3> QED  BY <1>1, <2>6, <3>1, <3>2 DEF Elements
  <2>9. \A i, j \in DOMAIN r : i < j =>
            \E l, m \in DOMAIN s : l < m /\ r[i] = s[l] /\ r[j] = s[m]
    <3> SUFFICES ASSUME NEW i \in DOMAIN r, NEW j \in DOMAIN r, i < j
                 PROVE  \E l, m \in DOMAIN s : l < m /\ r[i] = s[l] /\ r[j] = s[m]
      OBVIOUS
    <3> DEFINE l == IF i < k THEN i ELSE i + 1
               m == IF j < k THEN j ELSE j + 1
    <3>1. l \in DOMAIN s /\ m \in DOMAIN s /\ l < m /\ r[i] = s[l] /\ r[j] = s[m]
      BY <1>1, <2>1, <2>6
    <3> QED  BY <3>1
  <2>10. NoRepeats(r)
    BY <1>1, <2>1, <2>6 DEF NoRepeats
  <2> QED  BY <2>2, <2>5, <2>8, <2>9, <2>10
<1> QED  BY <1>2, <1>3

\* insert_timer puts the timer behind every live one that expires earlier and
\* in front of every other live one: a sorted list stays sorted.
LEMMA InsertTimerFacts ==
    ASSUME TypeOK, NEW s \in Seq(TimerBlocks), NoRepeats(s), Sorted(s, cb, rem),
           NEW t \in TimerBlocks, t \notin Elements(s), NEW e \in Int
    PROVE  /\ InsertTimer(s, t, e) \in Seq(TimerBlocks)
           /\ Elements(InsertTimer(s, t, e)) = Elements(s) \union {t}
           /\ NoRepeats(InsertTimer(s, t, e))
           /\ \A c, q : (\A x \in Elements(s) : c[x] = cb[x] /\ q[x] = rem[x]) /\ q[t] = e
                            => Sorted(InsertTimer(s, t, e), c, q)
<1> DEFINE later == {i \in DOMAIN s : cb[s[i]] /\ e <= rem[s[i]]}
           k == IF later = {} THEN Len(s) + 1 ELSE Least(later)
           r == InsertAt(s, k, t)
<1>1. /\ Len(s) \in Nat /\ DOMAIN s = 1 .. Len(s)
      /\ \A i \in 1 .. Len(s) : s[i] \in TimerBlocks /\ cb[s[i]] \in BOOLEAN /\ rem[s[i]] \in Int
  <2>1. Len(s) \in Nat /\ DOMAIN s = 1 .. Len(s) /\ \A i \in 1 .. Len(s) : s[i] \in TimerBlocks
    BY LenProperties, ElementOfSeq
  <2>2. \A x \in TimerBlocks : cb[x] \in BOOLEAN /\ rem[x] \in Int
    BY TimersAssumption DEF TypeOK, Overdue
  <2> QED  BY <2>1, <2>2
<1>2. /\ k \in 1 .. Len(s) + 1
      /\ \A i \in 1 .. Len(s) : cb[s[i]] => /\ i < k => rem[s[i]] < e
                                            /\ i >= k => e <= rem[s[i]]
  <2>1. CASE later = {}
    BY <1>1, <2>1
  <2>2. CASE later # {}
    <3>1. k \in later /\ \A i \in later : k <= i
      <4>1. later \subseteq Nat
        BY <1>1
      <4>2. k = Least(later)
        BY <2>2
      <4> HIDE DEF later, k
      <4> QED  BY <2>2, <4>1, <4>2, LeastExists
    <3> HIDE DEF k
    <3>2. k \in 1 .. Len(s) /\ cb[s[k]] /\ e <= rem[s[k]]
      BY <1>1, <3>1
    <3>3. ASSUME NEW i \in 1 .. Len(s), cb[s[i]], i < k PROVE rem[s[i]] < e
      <4>1. i \notin later
        BY <1>1, <3>1, <3>2, <3>3
      <4> QED  BY <1>1, <3>3, <4>1
    <3>4. ASSUME NEW i \in 1 .. Len(s), cb[s[i]], i >= k PROVE e <= rem[s[i]]
      BY <1>1, <3>2, <3>4 DEF Sorted
    <3> QED  BY <3>2, <3>3, <3>4
  <2> QED  BY <2>1, <2>2
<1>3. InsertTimer(s, t, e) = r
  BY DEF InsertTimer
<1> HIDE DEF k
<1>4. /\ r \in Seq(TimerBlocks) /\ DOMAIN r = 1 .. Len(s) + 1
      /\ \A i \in 1 .. Len(s) + 1 : r[i] = IF i < k THEN s[i]
                                           ELSE IF i = k THEN t ELSE s[i - 1]
  BY <1>2, InsertAtFacts, LenProperties
<1> HIDE DEF r
<1>5. \A i \in 1 .. Len(s) : s[i] # t
  BY <1>1 DEF Elements
<1>6. Elements(r) = Elements(s) \union {t}
  <2>1. ASSUME NEW i \in 1 .. Len(s) + 1 PROVE r[i] \in Elements(s) \union {t}
    <3>1. i < k => i \in DOMAIN s
      BY <1>1, <1>2
    <3>2. i > k => i - 1 \in DOMAIN s
      BY <1>1, <1>2
    <3>3. CASE i < k
      BY <1>2, <1>4, <3>1, <3>3 DEF Elements
    <3>4. CASE i = k
      BY <1>4, <3>4
    <3>5. CASE i > k
      BY <1>2, <1>4, <3>2, <3>5 DEF Elements
    <3> QED  BY <1>2, <3>3, <3>4, <3>5
  <2>2. t \in Elements(r)
    BY <1>2, <1>4 DEF Elements
  <2>3. ASSUME NEW i \in 1 .. Len(s) PROVE s[i] \in Elements(r)
    <3>1. CASE i < k
      <4>1. i \in DOMAIN r /\ r[i] = s[i]
        BY <1>1, <1>2, <1>4, <3>1
      <4> QED  BY <4>1 DEF Elements
    <3>2. CASE i >= k
      <4>1. i + 1 \in DOMAIN r /\ r[i + 1] = s[i]
        BY <1>1, <1>2, <1>4, <3>2
      <4> QED  BY <4>1 DEF Elements
    <3> QED  BY <1>2, <3>1, <3>2
  <2> QED  BY <1>1, <1>4, <2>1, <2>2, <2>3 DEF Elements
<1>7. NoRepeats(r)
  <2> SUFFICES ASSUME NEW i \in 1 .. Len(s) + 1, NEW j \in 1 .. Len(s) + 1, i < j
               PROVE  r[i] # r[j]
    BY <1>1, <1>4 DEF NoRepeats
  <2> DEFINE at(x) == IF x < k THEN x ELSE x - 1
  <2>0. \A x \in 1 .. Len(s) + 1 :
            x # k => at(x) \in 1 .. Len(s) /\ r[x] = s[at(x)]
    BY <1>1, <1>2, <1>4
  <2>1. CASE j < k
    <3>1. at(i) # at(j) /\ i # k /\ j # k
      BY <1>2, <2>1
    <3> HIDE DEF at
    <3> QED  BY <1>1, <2>0, <3>1 DEF NoRepeats
  <2>2. CASE i < k /\ j = k
    BY <1>1, <1>2, <1>4, <1>5, <2>2
  <2>3. CASE i < k /\ j > k
    <3>1. at(i) # at(j) /\ i # k /\ j # k
      BY <1>1, <1>2, <2>3
    <3> HIDE DEF at
    <3> QED  BY <1>1, <2>0, <3>1 DEF NoRepeats
  <2>4. CASE i = k
    BY <1>1, <1>2, <1>4, <1>5, <2>4
  <2>5. CASE i > k
    <3>1. at(i) # at(j) /\ i # k /\ j # k
      BY <1>2, <2>5
    <3> HIDE DEF at
    <3> QED  BY <1>1, <2>0, <3>1 DEF NoRepeats
  <2> QED  BY <1>2, <2>1, <2>2, <2>3, <2>4, <2>5
<1>8. ASSUME NEW c, NEW q, q[t] = e,
             \A x \in Elements(s) : c[x] = cb[x] /\ q[x] = rem[x]
      PROVE  Sorted(r, c, q)
  <2> SUFFICES ASSUME NEW i \in 1 .. Len(s) + 1, NEW j \in 1 .. Len(s) + 1, i < j,
                      c[r[i]], c[r[j]]
               PROVE  q[r[i]] <= q[r[j]]
    BY <1>4 DEF Sorted
  <2>1. \A l \in 1 .. Len(s) : c[s[l]] = cb[s[l]] /\ q[s[l]] = rem[s[l]]
    BY <1>1, <1>8 DEF Elements
  <2>2. CASE j < k
    BY <1>1, <1>2, <1>4, <2>1, <2>2 DEF Sorted
  <2>3. CASE i < k /\ j = k
    BY <1>1, <1>2, <1>4, <1>8, <2>1, <2>3
  <2>4. CASE i < k /\ j > k
    <3>1. /\ r[i] = s[i] /\ r[j] = s[j - 1]
          /\ i \in 1 .. Len(s) /\ j - 1 \in 1 .. Len(s) /\ j - 1 >= k
      BY <1>1, <1>2, <1>4, <2>4
    <3>2. rem[s[i]] < e /\ e <= rem[s[j - 1]] /\ rem[s[i]] \in Int /\ rem[s[j - 1]] \in Int
      BY <1>1, <1>2, <2>1, <2>4, <3>1
    <3> QED  BY <2>1, <3>1, <3>2
  <2>5. CASE i = k
    <3>1. r[i] = t
      BY <1>4, <2>5
    <3>2. j - 1 \in 1 .. Len(s) /\ j - 1 >= k
      BY <1>1, <1>2, <2>5
    <3>3. r[j] = s[j - 1]
      BY <1>1, <1>2, <1>4, <2>5
    <3> QED  BY <1>1, <1>2, <1>8, <2>1, <3>1, <3>2, <3>3
  <2>6. CASE i > k
    <3>1. /\ r[i] = s[i - 1] /\ r[j] = s[j - 1] /\ i - 1 < j - 1
          /\ i - 1 \in 1 .. Len(s) /\ j - 1 \in 1 .. Len(s)
      BY <1>1, <1>2, <1>4, <2>6
    <3> QED  BY <1>1, <2>1, <3>1 DEF Sorted
  <2> QED  BY <1>2, <2>2, <2>3, <2>4, <2>5, <2>6
<1> QED  BY <1>3, <1>4, <1>6, <1>7, <1>8

\* Unlinking a timer keeps the list sorted.
LEMMA WithoutSorted ==
    ASSUME NEW s \in Seq(TimerBlocks), NEW t, NoRepeats(s), NEW c, NEW q, Sorted(s, c, q)
    PROVE  Sorted(Without(s, t), c, q)
BY WithoutFacts DEF Sorted

\* The next pointer of a hook of the list leads to another hook of the list.
LEMMA SuccFacts ==
    ASSUME NEW ts \in Seq(TimerBlocks), NoRepeats(ts), NEW ds \in Seq(TimerBlocks),
           NEW x \in Elements(ts) \union {TimerList}
    PROVE  /\ Succ(ts, ds, x) \in Elements(ts) \union {TimerList}
           /\ x # TimerList => Succ(ts, ds, x) # x
<1>1. /\ Len(ts) \in Nat /\ DOMAIN ts = 1 .. Len(ts) /\ \A i \in 1 .. Len(ts) : ts[i] \in TimerBlocks
      /\ Len(ds) \in Nat /\ DOMAIN ds = 1 .. Len(ds) /\ \A i \in 1 .. Len(ds) : ds[i] \in TimerBlocks
  BY LenProperties, ElementOfSeq
<1>2. TimerList \notin Elements(ts) /\ TimerList \notin Elements(ds)
  BY <1>1, TimersAssumption DEF Elements
<1>3. CASE x = TimerList
  <2>1. Succ(ts, ds, x) = IF ts = <<>> THEN x ELSE ts[1]
    BY <1>2, <1>3 DEF Succ
  <2>2. ts # <<>> => 1 \in DOMAIN ts
    BY <1>1, EmptySeq
  <2> QED  BY <1>3, <2>1, <2>2 DEF Elements
<1>4. CASE x \in Elements(ts)
  <2> DEFINE i == CHOOSE i \in DOMAIN ts : ts[i] = x
  <2>1. i \in DOMAIN ts /\ ts[i] = x
    BY <1>4 DEF Elements
  <2>2. Succ(ts, ds, x) = IF i = Len(ts) THEN TimerList ELSE ts[i + 1]
    BY <1>4 DEF Succ, NextIn
  <2> HIDE DEF i
  <2>3. CASE i = Len(ts)
    BY <1>2, <1>4, <2>2, <2>3
  <2>4. CASE i # Len(ts)
    <3>1. i + 1 \in DOMAIN ts /\ i + 1 # i
      BY <1>1, <2>1, <2>4
    <3>2. ts[i + 1] # ts[i]
      BY <2>1, <3>1 DEF NoRepeats
    <3> QED  BY <2>1, <2>2, <2>4, <3>1, <3>2 DEF Elements
  <2> QED  BY <2>3, <2>4
<1> QED  BY <1>3, <1>4

\* find_next_timer finds a live timer if there is one.
LEMMA FindNextFacts ==
    ASSUME NEW s \in Seq(TimerBlocks), NEW L
    PROVE  LET f == FindNext(s, L)
           IN  /\ f # NULL => f \in Elements(s) \cap L
               /\ f = NULL => Elements(s) \cap L = {}
               /\ f \in TimerBlocks \union {NULL}
<1> DEFINE I == {i \in DOMAIN s : s[i] \in L}
<1>1. DOMAIN s \subseteq Nat /\ \A i \in DOMAIN s : s[i] \in TimerBlocks
  BY LenProperties, ElementOfSeq
<1>2. CASE I = {}
  BY <1>2 DEF FindNext, Elements
<1>3. CASE I # {}
  <2>1. Least(I) \in I
    BY <1>1, <1>3, LeastExists
  <2>2. FindNext(s, L) = s[Least(I)]
    BY <1>3 DEF FindNext
  <2>3. s[Least(I)] \in TimerBlocks /\ s[Least(I)] \in Elements(s) \cap L
    BY <1>1, <2>1 DEF Elements
  <2>4. s[Least(I)] # NULL
    BY <2>3, TimersAssumption
  <2> QED  BY <2>2, <2>3, <2>4
<1> QED  BY <1>2, <1>3

\* usecs_to_msecs never rounds a timeout down.
LEMMA RoundUpFacts ==
    ASSUME NEW u \in Nat
    PROVE  RoundUp(u) \in Nat /\ u <= RoundUp(u)
<1>1. ASSUME NEW d \in Nat \ {0}
      PROVE  ((u + d - 1) \div d) * d \in Nat /\ u <= ((u + d - 1) \div d) * d
  <2>1. ((u + d - 1) \div d) * d \in Nat
    OBVIOUS
  <2>2. u <= ((u + d - 1) \div d) * d
    OBVIOUS
  <2> QED  BY <2>1, <2>2
<1> QED  BY <1>1, TimersAssumption DEF RoundUp

-----------------------------------------------------------------------------
\* An interval converted to microseconds fits the clock.
LEMMA UsecsFacts ==
    ASSUME NEW i \in Intervals \union {0}
    PROVE  Usecs(i) \in 0 .. UintSize
<1>1. ASSUME NEW a \in Nat, NEW d \in Nat \ {0}, NEW m \in Nat PROVE (m * a) % d \in 0 .. d
  <2>1. m * a \in Nat
    OBVIOUS
  <2>2. \A x \in Nat : x % d \in 0 .. d
    OBVIOUS
  <2> QED  BY <2>1, <2>2
<1> QED  BY <1>1, TimersAssumption DEF Usecs

LEMMA InitIInv == Init => IInv
<1> SUFFICES ASSUME Init PROVE IInv
  OBVIOUS
<1>1. TypeOK
  <2>1. 0 \in Overdue .. UintSize /\ 0 \in 0 .. MaxLag
    BY TimersAssumption DEF Overdue
  <2>2. timers \in Seq(TimerBlocks) /\ deleted \in Seq(TimerBlocks)
    BY DEF Init
  <2>3. rem \in [TimerBlocks -> Overdue .. UintSize] /\ interval \in [TimerBlocks -> Intervals \union {0}]
    BY <2>1 DEF Init
  <2> QED  BY <2>1, <2>2, <2>3 DEF Init, TypeOK
<1>2. QED
  BY <1>1 DEF Init, IInv, TimersOnOneList, NoRepeats, Elements, Sorted, NextTimerIsLive, Live, Walk,
              Timeout

\* What inserting a timer that is on no list does to the list and next_timer.
LEMMA InsertIInv ==
    ASSUME IInv, pc # "gone", NEW s \in Seq(TimerBlocks), NoRepeats(s), Sorted(s, cb, rem),
           NEW t \in TimerBlocks, t \notin Elements(s), t \notin Elements(deleted),
           Elements(s) \union {t} = Elements(timers) \union {t},
           NEW i \in Intervals \union {0},
           timers' = InsertTimer(s, t, Usecs(i)), rem' = [rem EXCEPT ![t] = Usecs(i)],
           cb' = [cb EXCEPT ![t] = TRUE], deleted' = deleted, next' = NextAfterInsert(t, rem')
    PROVE  /\ timers' \in Seq(TimerBlocks) /\ Elements(timers') = Elements(timers) \union {t}
           /\ rem' \in [TimerBlocks -> Overdue .. UintSize] /\ cb' \in [TimerBlocks -> BOOLEAN]
           /\ TimersOnOneList'
           /\ Sorted(timers, cb, rem)'
           /\ Live' = Live \union {t}
           /\ next' # NULL /\ next' \in Live'
<1> USE DEF IInv
<1>1. /\ Usecs(i) \in 0 .. UintSize /\ Usecs(i) \in Overdue .. UintSize /\ Usecs(i) \in Int
  BY UsecsFacts, TimersAssumption DEF Overdue
<1>2. rem' \in [TimerBlocks -> Overdue .. UintSize] /\ cb' \in [TimerBlocks -> BOOLEAN]
  BY <1>1 DEF TypeOK
<1>3. /\ timers' \in Seq(TimerBlocks)
      /\ Elements(timers') = Elements(s) \union {t}
      /\ NoRepeats(timers')
      /\ (\A x \in Elements(s) : cb'[x] = cb[x] /\ rem'[x] = rem[x]) /\ rem'[t] = Usecs(i)
             => Sorted(timers', cb', rem')
  BY <1>1, InsertTimerFacts
<1>4. \A x \in Elements(s) : x \in TimerBlocks /\ x # t
  BY LenProperties, ElementOfSeq DEF Elements
<1>5. Sorted(timers', cb', rem')
  BY <1>1, <1>3, <1>4 DEF TypeOK
<1>6. TimersOnOneList'
  BY <1>3 DEF TimersOnOneList
<1>7. Live' = Live \union {t}
  BY <1>3, <1>4 DEF Live, TypeOK
<1>8. next' # NULL /\ next' \in Live'
  BY <1>7, TimersAssumption DEF NextAfterInsert, NextTimerIsLive
<1> QED  BY <1>2, <1>3, <1>5, <1>6, <1>7, <1>8

LEMMA AddTimerIInv ==
    ASSUME IInv, NEW t \in TimerBlocks, NEW msecs \in Intervals, AddTimer(t, msecs)
    PROVE  IInv'
<1> USE DEF IInv
<1>1. t \notin Elements(timers) /\ t \notin Elements(deleted) /\ pc # "gone" /\ pc' = pc
  BY DEF AddTimer, ClientRuns, Allocated, walkvars
<1>2. /\ timers' \in Seq(TimerBlocks) /\ Elements(timers') = Elements(timers) \union {t}
      /\ rem' \in [TimerBlocks -> Overdue .. UintSize] /\ cb' \in [TimerBlocks -> BOOLEAN]
      /\ TimersOnOneList' /\ Sorted(timers, cb, rem)' /\ Live' = Live \union {t}
      /\ next' # NULL /\ next' \in Live'
  BY <1>1, InsertIInv DEF AddTimer, TypeOK, TimersOnOneList
<1>3. TypeOK'
  <2>1. next' \in TimerBlocks
    <3>1. Elements(timers') \subseteq TimerBlocks
      BY <1>2, LenProperties, ElementOfSeq DEF Elements
    <3> QED  BY <1>2, <3>1 DEF Live
  <2>2. late' \subseteq TimerBlocks
    BY DEF AddTimer, TypeOK
  <2> QED  BY <1>2, <2>1, <2>2 DEF AddTimer, TypeOK, walkvars
<1>4. NextTimerIsLive'
  BY <1>2 DEF NextTimerIsLive
<1>5. Walk'
  <2>1. pc = "callback" /\ p # TimerList => p \in Elements(timers) /\ rem'[p] = rem[p]
    BY <1>1 DEF Walk, AddTimer, TypeOK
  <2> QED  BY <1>2, <2>1 DEF AddTimer, walkvars, Walk
<1>6. Timeout'
  BY <1>2 DEF AddTimer, walkvars, Timeout, ClientRuns
<1> QED  BY <1>2, <1>3, <1>4, <1>5, <1>6

LEMMA DelTimerIInv ==
    ASSUME IInv, NEW t \in TimerBlocks, DelTimer(t)
    PROVE  IInv'
<1> USE DEF IInv
<1>0. /\ cb' = [cb EXCEPT ![t] = FALSE] /\ late' = IF pc = "subloops" THEN late \union {t} ELSE late
      /\ next' = IF next = t THEN FindNext(timers, Live \ {t}) ELSE next
      /\ UNCHANGED <<timers, deleted, interval, rem, sleep, since, quit, pc, p, n>>
  BY DEF DelTimer, walkvars
<1>1. Live' = Live \ {t}
  <2>1. Elements(timers) \subseteq TimerBlocks
    BY LenProperties, ElementOfSeq DEF Elements, TypeOK
  <2> QED  BY <1>0, <2>1 DEF Live, TypeOK
<1>2. /\ next = t => /\ next' # NULL => next' \in Live'
                     /\ next' = NULL => Live' = {}
                     /\ next' \in TimerBlocks \union {NULL}
  <2>1. Elements(timers) \cap (Live \ {t}) = Live \ {t}
    BY DEF Live
  <2> QED  BY <1>0, <1>1, <2>1, FindNextFacts DEF TypeOK
<1>3. TypeOK'
  BY <1>0, <1>2 DEF TypeOK
<1>4. TimersOnOneList'
  BY <1>0 DEF TimersOnOneList
<1>5. Sorted(timers, cb, rem)'
  <2>1. \A x \in TimerBlocks : cb'[x] => cb[x]
    BY <1>0 DEF TypeOK
  <2>2. \A i \in DOMAIN timers : timers[i] \in TimerBlocks
    BY LenProperties, ElementOfSeq DEF TypeOK
  <2> QED  BY <1>0, <2>1, <2>2 DEF Sorted
<1>6. NextTimerIsLive'
  BY <1>0, <1>1, <1>2 DEF NextTimerIsLive
<1>7. Walk'
  BY <1>0 DEF Walk
<1>8. Timeout'
  BY <1>0, <1>1 DEF Timeout, DelTimer, ClientRuns
<1> QED  BY <1>3, <1>4, <1>5, <1>6, <1>7, <1>8

LEMMA RearmIInv ==
    ASSUME IInv, Rearm
    PROVE  IInv'
<1> USE DEF IInv
<1> DEFINE s == Without(timers, p)
<1>1. /\ p \in Elements(timers) /\ p \in TimerBlocks /\ p # TimerList /\ cb[p] /\ p # n
      /\ n \in Elements(timers) \union {TimerList}
  <2>1. Elements(timers) \subseteq TimerBlocks
    BY LenProperties, ElementOfSeq DEF Elements, TypeOK
  <2> QED  BY <2>1 DEF Rearm, Walk
<1>2. /\ s \in Seq(TimerBlocks) /\ NoRepeats(s) /\ Elements(s) = Elements(timers) \ {p}
      /\ Sorted(s, cb, rem)
  BY WithoutFacts, WithoutSorted DEF TypeOK, TimersOnOneList
<1> HIDE DEF s
<1>3. interval[p] \in Intervals \union {0} /\ cb' = [cb EXCEPT ![p] = TRUE]
  BY <1>1 DEF TypeOK, Rearm
<1>4. /\ timers' = InsertTimer(s, p, Usecs(interval[p]))
      /\ rem' = [rem EXCEPT ![p] = Usecs(interval[p])] /\ next' = NextAfterInsert(p, rem')
      /\ UNCHANGED <<deleted, cb, interval, sleep, late, quit>> /\ Step(timers', deleted)
      /\ pc = "callback"
  BY DEF Rearm, s
<1>5. /\ timers' \in Seq(TimerBlocks) /\ Elements(timers') = Elements(timers) \union {p}
      /\ rem' \in [TimerBlocks -> Overdue .. UintSize] /\ cb' \in [TimerBlocks -> BOOLEAN]
      /\ TimersOnOneList' /\ Sorted(timers, cb, rem)' /\ Live' = Live \union {p}
      /\ next' # NULL /\ next' \in Live'
  <2>1. pc # "gone" /\ p \notin Elements(s) /\ p \notin Elements(deleted)
        /\ Elements(s) \union {p} = Elements(timers) \union {p}
    BY <1>1, <1>2, <1>4 DEF TimersOnOneList
  <2>2. IInv
    OBVIOUS
  <2> HIDE DEF IInv
  <2> QED  BY <1>1, <1>2, <1>3, <1>4, <2>1, <2>2, InsertIInv
<1>6. /\ pc' \in {"check", "purge"}
      /\ pc' = "check" => p' = n /\ n' = Succ(timers', deleted, n) /\ since' = since
      /\ pc' = "purge" => p' = TimerList /\ n' = TimerList /\ since' = 0
  BY <1>4 DEF Step
<1>7. pc' = "check" => /\ p' \in Elements(timers') \union {TimerList}
                       /\ n' \in Elements(timers') \union {TimerList}
                       /\ p' # TimerList => p' # n'
  <2>1. n \in Elements(timers') \union {TimerList} /\ deleted \in Seq(TimerBlocks)
    BY <1>1, <1>5 DEF TypeOK
  <2>2. /\ Succ(timers', deleted, n) \in Elements(timers') \union {TimerList}
        /\ n # TimerList => Succ(timers', deleted, n) # n
    BY <1>5, <2>1, SuccFacts DEF TimersOnOneList
  <2> QED  BY <1>6, <2>1, <2>2
<1>8. TypeOK'
  <2>1. Elements(timers') \subseteq TimerBlocks
    BY <1>5, LenProperties, ElementOfSeq DEF Elements
  <2>2. next' \in TimerBlocks
    BY <1>5, <2>1 DEF Live
  <2>3. p' \in TimerBlocks \union {TimerList, Deleted} /\ n' \in TimerBlocks \union {TimerList, Deleted}
    BY <1>6, <1>7, <2>1
  <2>4. since' \in 0 .. MaxLag
    BY <1>6, TimersAssumption DEF TypeOK
  <2> QED  BY <1>4, <1>5, <1>6, <2>2, <2>3, <2>4 DEF TypeOK
<1>9. NextTimerIsLive'
  BY <1>5 DEF NextTimerIsLive
<1>10. Walk' /\ Timeout'
  BY <1>6, <1>7 DEF Walk, Timeout
<1> QED  BY <1>5, <1>8, <1>9, <1>10

LEMMA RelinkIInv ==
    ASSUME IInv, Relink
    PROVE  IInv'
<1> USE DEF IInv
<1>0. /\ pc \in {"check", "callback"} /\ p # TimerList /\ ~cb[p]
      /\ timers' = Without(timers, p) /\ deleted' = Append(Without(deleted, p), p)
      /\ Step(timers', deleted') /\ UNCHANGED <<cb, interval, rem, next, sleep, late, quit>>
  BY DEF Relink
<1>1. /\ p \in Elements(timers) /\ p \in TimerBlocks /\ p # n /\ p \notin Elements(deleted)
      /\ n \in Elements(timers) \union {TimerList}
  <2>1. Elements(timers) \subseteq TimerBlocks
    BY LenProperties, ElementOfSeq DEF Elements, TypeOK
  <2> QED  BY <1>0, <2>1 DEF Walk, TimersOnOneList
<1>2. /\ timers' \in Seq(TimerBlocks) /\ NoRepeats(timers') /\ Elements(timers') = Elements(timers) \ {p}
      /\ Sorted(timers', cb, rem)
  BY <1>0, WithoutFacts, WithoutSorted DEF TypeOK, TimersOnOneList
<1>3. /\ deleted' \in Seq(TimerBlocks) /\ NoRepeats(deleted')
      /\ Elements(deleted') = Elements(deleted) \union {p}
  <2>1. deleted' = Append(deleted, p) /\ deleted \in Seq(TimerBlocks)
    BY <1>0, <1>1 DEF Without, TypeOK
  <2>2. /\ deleted' \in Seq(TimerBlocks) /\ Len(deleted) \in Nat /\ DOMAIN deleted = 1 .. Len(deleted)
        /\ DOMAIN deleted' = 1 .. Len(deleted) + 1
        /\ \A i \in 1 .. Len(deleted) : deleted'[i] = deleted[i]
        /\ deleted'[Len(deleted) + 1] = p
    BY <1>1, <2>1, AppendProperties, LenProperties
  <2>3. \A i \in 1 .. Len(deleted) : deleted[i] # p
    BY <1>1, <2>2 DEF Elements
  <2>4. NoRepeats(deleted')
    BY <2>2, <2>3 DEF TimersOnOneList, NoRepeats
  <2>5. \A x : x \in Elements(deleted') <=> x \in Elements(deleted) \/ x = p
    BY <2>2 DEF Elements
  <2> QED  BY <2>2, <2>4, <2>5
<1>4. /\ pc' \in {"check", "purge"}
      /\ pc' = "check" => p' = n /\ n' = Succ(timers', deleted', n) /\ since' = since
      /\ pc' = "purge" => p' = TimerList /\ n' = TimerList /\ since' = 0
  BY <1>0 DEF Step
<1>5. pc' = "check" => /\ p' \in Elements(timers') \union {TimerList}
                       /\ n' \in Elements(timers') \union {TimerList}
                       /\ p' # TimerList => p' # n'
  <2>1. n \in Elements(timers') \union {TimerList}
    BY <1>1, <1>2
  <2>2. /\ Succ(timers', deleted', n) \in Elements(timers') \union {TimerList}
        /\ n # TimerList => Succ(timers', deleted', n) # n
    BY <1>2, <1>3, <2>1, SuccFacts
  <2> QED  BY <1>4, <2>1, <2>2
<1>6. TypeOK'
  <2>1. Elements(timers') \subseteq TimerBlocks
    BY <1>2, LenProperties, ElementOfSeq DEF Elements
  <2>2. p' \in TimerBlocks \union {TimerList, Deleted} /\ n' \in TimerBlocks \union {TimerList, Deleted}
    BY <1>4, <1>5, <2>1
  <2>3. since' \in 0 .. MaxLag
    BY <1>4, TimersAssumption DEF TypeOK
  <2> QED  BY <1>0, <1>2, <1>3, <1>4, <2>2, <2>3 DEF TypeOK
<1>7. TimersOnOneList'
  BY <1>1, <1>2, <1>3 DEF TimersOnOneList
<1>8. Live' = Live
  BY <1>0, <1>2 DEF Live
<1>9. NextTimerIsLive' /\ Walk' /\ Timeout'
  BY <1>0, <1>4, <1>5, <1>8 DEF NextTimerIsLive, Walk, Timeout
<1> QED  BY <1>0, <1>2, <1>6, <1>7, <1>9

\* The list of timers is in the range of rem, and the clock keeps it there
\* and keeps it sorted.
LEMMA TimePassesFacts ==
    ASSUME IInv, TimePasses, UNCHANGED <<timers, cb>>
    PROVE  /\ rem' \in [TimerBlocks -> Overdue .. UintSize]
           /\ \A t \in TimerBlocks : rem'[t] <= rem[t]
           /\ \A t \in Elements(timers) : rem[t] > Overdue => rem'[t] = rem[t] - 1
           /\ Sorted(timers, cb, rem)'
<1> USE DEF IInv
<1>1. Overdue \in Int /\ UintSize \in Int /\ rem \in [TimerBlocks -> Overdue .. UintSize]
  BY TimersAssumption DEF Overdue, TypeOK
<1>2. rem' = [t \in TimerBlocks |-> IF t \in Elements(timers) /\ rem[t] > Overdue
                                      THEN rem[t] - 1 ELSE rem[t]]
  BY DEF TimePasses
<1>3. \A t \in TimerBlocks : rem'[t] \in Overdue .. UintSize /\ rem'[t] <= rem[t]
  BY <1>1, <1>2
<1>4. Elements(timers) \subseteq TimerBlocks
  BY LenProperties, ElementOfSeq DEF Elements, TypeOK
<1>5. \A t \in Elements(timers) : rem'[t] = IF rem[t] > Overdue THEN rem[t] - 1 ELSE rem[t]
  BY <1>2, <1>4
<1>6. \A t, u \in Elements(timers) : rem[t] <= rem[u] => rem'[t] <= rem'[u]
  BY <1>1, <1>4, <1>5
<1>7. Sorted(timers, cb, rem)'
  BY <1>6 DEF Sorted, Elements
<1>8. rem' \in [TimerBlocks -> Overdue .. UintSize]
  BY <1>2, <1>3
<1> QED  BY <1>3, <1>5, <1>7, <1>8

LEMMA TickIInv ==
    ASSUME IInv, TickAsleep \/ TickInCallback
    PROVE  IInv'
<1>1. TimePasses /\ UNCHANGED <<timers, deleted, cb, interval, next, late, quit, pc, p, n>>
  BY DEF TickAsleep, TickInCallback, walkvars
<1>2. /\ rem' \in [TimerBlocks -> Overdue .. UintSize]
      /\ \A t \in TimerBlocks : rem'[t] <= rem[t]
      /\ \A t \in Elements(timers) : rem[t] > Overdue => rem'[t] = rem[t] - 1
      /\ Sorted(timers, cb, rem)'
  BY <1>1, TimePassesFacts
<1>3. Overdue \in Int /\ Overdue < 0 /\ UintSize \in Int
  BY TimersAssumption DEF Overdue
<1> USE DEF IInv
<1>4. sleep' \in Nat \union {Forever} /\ since' \in 0 .. MaxLag
  BY TimersAssumption DEF TickAsleep, TickInCallback, TypeOK, Forever
<1>5. TypeOK'
  BY <1>1, <1>2, <1>4 DEF TypeOK
<1>6. TimersOnOneList' /\ NextTimerIsLive'
  BY <1>1 DEF TimersOnOneList, NextTimerIsLive, Live
<1>7. Walk'
  <2>1. pc = "callback" => rem'[p] <= 0
    <3> SUFFICES ASSUME pc = "callback" PROVE rem'[p] <= 0
      OBVIOUS
    <3>1. p \in Elements(timers) /\ rem[p] <= 0
      BY DEF Walk
    <3>2. p \in TimerBlocks
      BY <3>1, LenProperties, ElementOfSeq DEF Elements, TypeOK
    <3> QED  BY <1>2, <1>3, <3>1, <3>2 DEF TypeOK
  <2> QED  BY <1>1, <2>1 DEF Walk
<1>8. Timeout'
  <2> SUFFICES ASSUME pc = "poll" PROVE Timeout'
    BY <1>1 DEF Timeout, TickAsleep, TickInCallback
  <2>1. sleep' = IF sleep > 0 THEN sleep - 1 ELSE sleep
    BY DEF TickAsleep, TickInCallback
  <2>2. sleep' = Forever => sleep = Forever
    BY <2>1 DEF TypeOK, Forever
  <2>3. ASSUME sleep' > 0, late = {} PROVE next # NULL /\ rem'[next] <= sleep'
    <3>1. sleep > 0 /\ sleep' = sleep - 1 /\ sleep \in Nat
      BY <2>1, <2>3 DEF TypeOK, Forever
    <3>2. next # NULL /\ rem[next] <= sleep /\ next \in Elements(timers)
      BY <2>3, <3>1 DEF Timeout, NextTimerIsLive, Live
    <3>3. next \in TimerBlocks /\ rem[next] \in Int /\ rem'[next] \in Int
      BY <1>2, <1>3, <3>2 DEF TypeOK
    <3>4. CASE rem[next] > Overdue
      BY <1>2, <3>1, <3>2, <3>3, <3>4
    <3>5. CASE ~(rem[next] > Overdue)
      <4>1. rem[next] < 0 /\ rem'[next] < 0
        BY <1>2, <1>3, <3>3, <3>5
      <4> QED  BY <2>3, <3>1, <3>2, <3>3, <4>1
    <3> QED  BY <3>4, <3>5
  <2> QED  BY <1>1, <2>2, <2>3 DEF Timeout, Live
<1> QED  BY <1>2, <1>5, <1>6, <1>7, <1>8

LEMMA PrepareIInv ==
    ASSUME IInv, Prepare
    PROVE  IInv'
<1> USE DEF IInv
<1>0. /\ pc = "idle" /\ pc' = "subloops"
      /\ UNCHANGED <<timers, deleted, cb, interval, rem, next, since, late, quit, p, n>>
  BY DEF Prepare, objvars
<1>1. CASE sleep' = 0
  BY <1>0, <1>1 DEF TypeOK, TimersOnOneList, Sorted, NextTimerIsLive, Live, Walk, Timeout, Forever
<1>2. CASE next = NULL /\ sleep' = Forever
  BY <1>0, <1>2 DEF TypeOK, TimersOnOneList, Sorted, NextTimerIsLive, Live, Walk, Timeout, Forever
<1>3. CASE next # NULL /\ rem[next] > 0 /\ sleep' = RoundUp(rem[next])
  <2>1. rem[next] \in Nat
    BY <1>3, TimersAssumption DEF TypeOK, Overdue
  <2>2. sleep' \in Nat /\ rem[next] <= sleep'
    BY <1>3, <2>1, RoundUpFacts
  <2> QED
    BY <1>0, <1>3, <2>2 DEF TypeOK, TimersOnOneList, Sorted, NextTimerIsLive, Live, Walk, Timeout, Forever
<1> QED
  <2>1. next # NULL => rem[next] \in Int
    BY TimersAssumption DEF TypeOK, Overdue
  <2> QED  BY <1>1, <1>2, <1>3, <2>1 DEF Prepare

LEMMA StartDispatchIInv ==
    ASSUME IInv, StartDispatch
    PROVE  IInv'
<1> USE DEF IInv
<1>0. UNCHANGED <<timers, deleted, cb, interval, rem, next, sleep, late, quit>> /\ since' = 0
  BY DEF StartDispatch, objvars
<1> DEFINE head == Succ(timers, deleted, TimerList)
<1>1. /\ head \in Elements(timers) \union {TimerList}
      /\ Succ(timers, deleted, head) \in Elements(timers) \union {TimerList}
      /\ head # TimerList => Succ(timers, deleted, head) # head
  <2>1. head \in Elements(timers) \union {TimerList}
    BY SuccFacts DEF TypeOK, TimersOnOneList
  <2> HIDE DEF head
  <2> QED  BY <2>1, SuccFacts DEF TypeOK, TimersOnOneList
<1>2. /\ pc' \in {"check", "purge"} /\ p' \in Elements(timers) \union {TimerList}
      /\ n' \in Elements(timers) \union {TimerList}
      /\ p' # TimerList => p' # n'
  <2>1. CASE quit
    <3>1. p' = TimerList /\ pc' = "purge" /\ n' = head
      BY <2>1 DEF StartDispatch
    <3> QED  BY <1>1, <3>1
  <2>2. CASE ~quit
    <3>1. p' = head /\ pc' = "check" /\ n' = Succ(timers, deleted, head)
      BY <2>2 DEF StartDispatch
    <3> QED  BY <1>1, <3>1
  <2> QED  BY <2>1, <2>2
<1>3. TypeOK'
  <2>1. Elements(timers) \subseteq TimerBlocks
    BY LenProperties, ElementOfSeq DEF Elements, TypeOK
  <2> QED  BY <1>0, <1>2, <2>1, TimersAssumption DEF TypeOK
<1>4. QED
  BY <1>0, <1>2, <1>3 DEF TimersOnOneList, Sorted, NextTimerIsLive, Live, Walk, Timeout, StartDispatch

\* The steps of the loop that leave the timers alone.
LEMMA PhaseIInv ==
    ASSUME IInv, \/ SubloopsPrepared \/ Poll \/ EndDispatch \/ Fire \/ OthersDone \/ Quit
                 \/ UNCHANGED vars
    PROVE  IInv'
<1> USE DEF IInv
<1> USE DEF TypeOK, TimersOnOneList, Sorted, NextTimerIsLive, Live, Walk, Timeout
<1>1. CASE SubloopsPrepared
  BY <1>1 DEF SubloopsPrepared, objvars, pollvars
<1>2. CASE Poll
  BY <1>2 DEF Poll, objvars
<1>3. CASE EndDispatch
  BY <1>3, TimersAssumption DEF EndDispatch, objvars
<1>4. CASE Fire
  <2>1. /\ pc = "check" /\ p # TimerList /\ rem[p] <= -since /\ pc' = "callback"
        /\ UNCHANGED <<objvars, next, pollvars, quit, p, n>>
    BY <1>4 DEF Fire
  <2>2. p \in Elements(timers) /\ p \in TimerBlocks
    <3>1. p \in Elements(timers)
      BY <2>1
    <3> QED  BY <3>1, LenProperties, ElementOfSeq DEF Elements
  <2>3. rem[p] <= 0
    BY <2>1, <2>2, TimersAssumption DEF Overdue
  <2> QED  BY <2>1, <2>2, <2>3 DEF objvars, pollvars
<1>5. CASE OthersDone
  BY <1>5 DEF OthersDone, objvars, pollvars
<1>6. CASE Quit
  BY <1>6 DEF Quit, objvars, pollvars, walkvars
<1>7. CASE UNCHANGED vars
  BY <1>7 DEF vars
<1> QED  BY <1>1, <1>2, <1>3, <1>4, <1>5, <1>6, <1>7

LEMMA FreeIInv ==
    ASSUME IInv, PurgeDeleted \/ Destroy
    PROVE  IInv'
<1> USE DEF IInv
<1> DEFINE T == IF PurgeDeleted THEN Elements(deleted) ELSE Allocated
<1>1. /\ cb' \in [TimerBlocks -> BOOLEAN] /\ interval' \in [TimerBlocks -> Intervals \union {0}]
      /\ rem' \in [TimerBlocks -> Overdue .. UintSize]
  <2>1. Freed(Elements(deleted)) \/ Freed(Allocated)
    BY DEF PurgeDeleted, Destroy
  <2>2. 0 \in Overdue .. UintSize
    BY TimersAssumption DEF Overdue
  <2>3. ASSUME NEW F, Freed(F)
        PROVE  /\ cb' \in [TimerBlocks -> BOOLEAN] /\ interval' \in [TimerBlocks -> Intervals \union {0}]
               /\ rem' \in [TimerBlocks -> Overdue .. UintSize]
    BY <2>2, <2>3 DEF Freed, TypeOK
  <2> QED  BY <2>1, <2>3
<1>2. CASE PurgeDeleted
  <2>1. /\ UNCHANGED <<timers, next, sleep, since, late, quit, p, n>> /\ deleted' = <<>>
        /\ pc' \in {"stopped", "idle"} /\ pc # "gone"
    BY <1>2 DEF PurgeDeleted, pollvars
  <2>2. \A t \in Elements(timers) : cb'[t] = cb[t] /\ rem'[t] = rem[t]
    <3>1. Elements(timers) \subseteq TimerBlocks
      BY LenProperties, ElementOfSeq DEF Elements, TypeOK
    <3> QED  BY <1>2, <3>1 DEF PurgeDeleted, Freed, TimersOnOneList, TypeOK
  <2>3. TypeOK'
    BY <1>1, <2>1 DEF TypeOK
  <2>4. TimersOnOneList'
    BY <2>1 DEF TimersOnOneList, NoRepeats, Elements
  <2>5. Sorted(timers, cb, rem)'
    BY <2>1, <2>2 DEF Sorted, Elements
  <2>6. Live' = Live
    BY <2>1, <2>2 DEF Live
  <2> QED  BY <2>1, <2>3, <2>4, <2>5, <2>6 DEF NextTimerIsLive, Walk, Timeout
<1>3. CASE Destroy
  <2>1. /\ UNCHANGED <<next, sleep, since, late, quit, p, n>> /\ deleted' = <<>> /\ timers' = <<>>
        /\ pc' = "gone"
    BY <1>3 DEF Destroy, pollvars
  <2>2. TypeOK'
    BY <1>1, <2>1 DEF TypeOK
  <2> QED
    BY <2>1, <2>2 DEF TimersOnOneList, NoRepeats, Elements, Sorted, NextTimerIsLive, Walk, Timeout
<1> QED  BY <1>2, <1>3

LEMMA NextIInv == IInv /\ [Next]_vars => IInv'
<1> SUFFICES ASSUME IInv, [Next]_vars PROVE IInv'
  OBVIOUS
<1>1. CASE Client
  BY <1>1, AddTimerIInv, DelTimerIInv, PhaseIInv DEF Client
<1>2. CASE TickAsleep \/ TickInCallback
  BY <1>2, TickIInv
<1>3. CASE Loop
  BY <1>3, PrepareIInv, StartDispatchIInv, PhaseIInv, RearmIInv, RelinkIInv, FreeIInv DEF Loop
<1>4. CASE Destroy
  BY <1>4, FreeIInv
<1>5. CASE UNCHANGED vars
  BY <1>5, PhaseIInv
<1> QED  BY <1>1, <1>2, <1>3, <1>4, <1>5 DEF Next

LEMMA TimersInductive == Spec => []IInv
<1>1. Init => IInv
  BY InitIInv
<1>2. IInv /\ [Next]_vars => IInv'
  BY NextIInv
<1> QED  BY <1>1, <1>2, PTL DEF Spec

-----------------------------------------------------------------------------
\* The list of timers is sound while callbacks add, delete and rearm around
\* the walk of dispatch_timers: sorted, nothing on it twice or freed, its
\* cursors on it, and a next_timer that neither dangles nor is NULL while a
\* timer lives.
THEOREM TimersAreSound == Spec => []TimersSound
<1>1. IInv => TimersSound
  BY DEF IInv, TimersSound, LiveTimersSorted, Sorted, Walk, WalkStaysOnTimers, Timeout,
         NoSleepWithoutTimeout
<1> QED  BY <1>1, TimersInductive, PTL

\* When the 32-bit product of insert and rearm does not wrap, no timer fires
\* before its interval has passed.
THEOREM TimersWait ==
    ASSUME \A i \in Intervals : i * UsecsPerMsec < UintSize
    PROVE  Spec => []WaitsItsInterval
<1>1. \A i \in Intervals \union {0} : Usecs(i) = i * UsecsPerMsec
  <2>1. ASSUME NEW a \in Nat, NEW d \in Nat, a < d PROVE a % d = a
    BY <2>1
  <2>2. \A i \in Intervals \union {0} : i * UsecsPerMsec \in Nat /\ i * UsecsPerMsec < UintSize
    <3>1. ASSUME NEW i \in Nat, NEW d \in Nat PROVE i * d \in Nat /\ 0 * d = 0
      OBVIOUS
    <3> QED  BY <3>1, TimersAssumption
  <2> QED  BY <2>1, <2>2, TimersAssumption DEF Usecs
<1>2. IInv => WaitsItsInterval
  <2> SUFFICES ASSUME IInv, pc = "callback"
               PROVE  Usecs(interval[p]) - rem[p] >= interval[p] * UsecsPerMsec
    BY DEF WaitsItsInterval
  <2>1. p \in Elements(timers) /\ rem[p] <= 0
    BY DEF IInv, Walk
  <2>2. p \in TimerBlocks
    BY <2>1, LenProperties, ElementOfSeq DEF IInv, Elements, TypeOK
  <2>3. interval[p] \in Intervals \union {0} /\ rem[p] \in Int
    BY <2>2, TimersAssumption DEF IInv, TypeOK, Overdue
  <2>4. Usecs(interval[p]) = interval[p] * UsecsPerMsec /\ Usecs(interval[p]) \in Int
    BY <1>1, <2>3, UsecsFacts
  <2> QED  BY <2>1, <2>3, <2>4
<1> QED  BY <1>2, TimersInductive, PTL

\* The poll timeout is never too short: when it has passed, next_timer has
\* expired, whatever its interval is in units of the timeout.
THEOREM TimersFullSleep == Spec => FullSleepExpires
<1>1. IInv /\ [Next]_vars => [sleep = 1 /\ TickAsleep /\ late = {} => rem'[next] <= 0]_vars
  <2> SUFFICES ASSUME IInv, sleep = 1, TickAsleep, late = {} PROVE rem'[next] <= 0
    OBVIOUS
  <2>1. next # NULL /\ rem[next] <= 1
    BY DEF IInv, Timeout, TickAsleep
  <2>2. next \in Elements(timers) /\ next \in TimerBlocks
    BY <2>1 DEF IInv, NextTimerIsLive, Live, TickAsleep, TypeOK
  <2>3. /\ rem'[next] <= rem[next]
        /\ rem[next] > Overdue => rem'[next] = rem[next] - 1
        /\ rem[next] \in Int /\ rem'[next] \in Int
    <3>1. TimePasses /\ UNCHANGED <<timers, cb>>
      BY DEF TickAsleep
    <3>2. /\ rem' \in [TimerBlocks -> Overdue .. UintSize]
          /\ \A t \in TimerBlocks : rem'[t] <= rem[t]
          /\ \A t \in Elements(timers) : rem[t] > Overdue => rem'[t] = rem[t] - 1
      BY <3>1, TimePassesFacts
    <3> QED  BY <2>2, <3>2, TimersAssumption DEF IInv, TypeOK, Overdue
  <2>4. Overdue \in Int /\ Overdue < 0
    BY TimersAssumption DEF Overdue
  <2> QED  BY <2>1, <2>3, <2>4
<1> QED  BY <1>1, TimersInductive, PTL DEF Spec, FullSleepExpires
=============================================================================
