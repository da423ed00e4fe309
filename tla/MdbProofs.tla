------------------------------ MODULE MdbProofs -------------------------------
(* Proofs about Murphy-DB: its tables and transactions, the handles it gives *)
(* out, the catalog of its tables, its sorted tables and hash tables, and    *)
(* its triggers.                                                             *)
EXTENDS Store, MdbHandle, MdbTables, MdbSequence, MdbHash, MdbTrigger, ListFacts, FiniteSetTheorems, SequenceTheorems, FunctionTheorems, TLAPS

------------------------------------------------------------------------------
(* The table with its undo log, for any rows, keys, values and depths:      *)
(* rows, index and log agree, and the table is the map KeyValueTx           *)
(* describes.                                                               *)
(*                                                                          *)
(* The inductive invariant says where each row that the log points to is    *)
(* (Books), and that undoing the newest log change by change leads, through *)
(* snapshots of memory and index, to what the table held at the last begin  *)
(* or commit (Replay).                                                      *)

Cells == [Rows -> RowData \union {Freed}]
Indexes == [Keys -> Rows \union {NoRow}]

(* What a table with the memory c and the index x holds.                    *)
Holds(c, x) == [k \in Keys |-> IF x[k] \in Rows /\ c[x[k]] # Freed THEN c[x[k]].val ELSE NoVal]

(* Undoing the change e leads from memory c and index x to d and y.         *)
UndoneInsert(e, c, x, d, y) ==
    /\ c[e.after] # Freed /\ x[c[e.after].key] = e.after
    /\ d = [c EXCEPT ![e.after] = Freed]
    /\ y = [x EXCEPT ![c[e.after].key] = NoRow]

UndoneDelete(e, c, x, d, y) ==
    /\ c[e.before] # Freed /\ x[c[e.before].key] = NoRow
    /\ d = c
    /\ y = [x EXCEPT ![c[e.before].key] = e.before]

UndoneUpdate(e, c, x, d, y) ==
    /\ c[e.before] # Freed /\ c[e.after] # Freed /\ x[c[e.after].key] = e.after
    /\ c[e.before].key = c[e.after].key \/ x[c[e.before].key] = NoRow
    /\ d = [c EXCEPT ![e.after] = c[e.before], ![e.before] = Freed]
    /\ y = [[x EXCEPT ![c[e.after].key] = NoRow] EXCEPT ![c[e.before].key] = e.after]

Undone(e, c, x, d, y) ==
    \/ e.change = "insert" /\ e.before = NoRow /\ e.after \in Rows /\ UndoneInsert(e, c, x, d, y)
    \/ e.change = "delete" /\ e.before \in Rows /\ UndoneDelete(e, c, x, d, y)
    \/ e.change = "update" /\ e.before \in Rows /\ e.after \in Rows /\ UndoneUpdate(e, c, x, d, y)

(* Snapshots cs and xs, of memory and index, from the newest change of log  *)
(* to before the oldest.                                                    *)
Snapshots(log, cs, xs) ==
    /\ cs \in [0 .. Len(log) -> Cells]
    /\ xs \in [0 .. Len(log) -> Indexes]
    /\ \A i \in 1 .. Len(log) : Undone(log[i], cs[i - 1], xs[i - 1], cs[i], xs[i])

(* Undoing log leads from memory c and index x to a table that holds m.     *)
Replays(c, x, log, m) ==
    \E cs \in [0 .. Len(log) -> Cells], xs \in [0 .. Len(log) -> Indexes] :
        /\ Snapshots(log, cs, xs)
        /\ cs[0] = c /\ xs[0] = x
        /\ Holds(cs[Len(log)], xs[Len(log)]) = m

(* A row is kept for one change of one log.                                 *)
KeptOnce ==
    \A d, e \in Depths : \A i \in DOMAIN logs[d], j \in DOMAIN logs[e] :
        logs[d][i].before # NoRow /\ logs[d][i].before = logs[e][j].before => d = e /\ i = j

(* Rows that a log keeps, that the commit is reporting, and that were lost  *)
(* are in memory, out of the table, and different.                          *)
KeptApart ==
    \A d \in Depths : \A i \in DOMAIN logs[d] :
        logs[d][i].before # NoRow =>
            logs[d][i].before \in Heap \ (Linked \union lost \union {cur.entry.before})

CurApart == cur.entry.before # NoRow => cur.entry.before \in Heap \ (Linked \union lost)

LostApart == lost \subseteq Heap \ Linked

(* What a change of the newest log wrote is in memory, and no older change  *)
(* keeps it: it is there when commit gets to it.                            *)
WrittenStays ==
    pc \in {"idle", "trigger"} /\ txdepth > 0 =>
        \A i \in DOMAIN Top : Top[i].after # NoRow =>
            /\ Top[i].after \in Heap \ {cur.entry.before}
            /\ \A j \in DOMAIN Top : i < j => Top[j].before # Top[i].after

Books == KeptOnce /\ KeptApart /\ CurApart /\ LostApart /\ WrittenStays

(* Where a commit or a rollback is.                                         *)
Control ==
    /\ pc # "broken"
    /\ pc # "idle" => txdepth > 0
    /\ pc # "trigger" => cur = Idle
    /\ pc = "trigger" /\ ~cur.last => Top # <<>>
    /\ \A d \in Depths : d > txdepth => logs[d] = <<>>

(* A rollback that is on, or that may be called, restores base.             *)
Replay ==
    \/ pc = "rollback"
    \/ pc = "idle" /\ txdepth > 0 /\ ~ReplacedOwnWrite(Top)
    => Replays(cell, index, Top, base)

StoreInv == TypeOK /\ IndexMatchesRows /\ EveryRowAccounted /\ Books /\ Control /\ Replay

------------------------------------------------------------------------------
(* The list of rows.                                                        *)

\* Unlinking a row takes it out of the list and leaves the others.
LEMMA UnlinkFacts ==
    ASSUME rows \in Seq(Rows), IsInjective(rows), NEW r \in Linked
    PROVE  /\ Unlink(r) \in Seq(Rows)
           /\ ToSet(Unlink(r)) = Linked \ {r}
           /\ IsInjective(Unlink(r))
<1> DEFINE p == CHOOSE i \in DOMAIN rows : rows[i] = r
<1>1. p \in DOMAIN rows /\ rows[p] = r
  BY DEF Linked, ToSet
<1>2. p \in 1 .. Len(rows)
  BY <1>1, LenProperties
<1>3. Unlink(r) = RemoveAt(rows, p)
  BY DEF Unlink
<1> HIDE DEF p
<1> QED  BY <1>1, <1>2, <1>3, RemoveAtFacts DEF Linked

------------------------------------------------------------------------------
(* Undoing a log.                                                           *)

\* Changes in front of a log are undone before it.
LEMMA ReplayFurther ==
    ASSUME NEW new \in Seq(Changes), NEW old \in Seq(Changes), NEW m,
           NEW cs, NEW xs, Snapshots(new, cs, xs),
           Replays(cs[Len(new)], xs[Len(new)], old, m)
    PROVE  Replays(cs[0], xs[0], new \o old, m)
<1> DEFINE n == Len(new)
           k == Len(old)
           log == new \o old
<1>1. PICK ds \in [0 .. k -> Cells], ys \in [0 .. k -> Indexes] :
          /\ Snapshots(old, ds, ys)
          /\ ds[0] = cs[n] /\ ys[0] = xs[n]
          /\ Holds(ds[k], ys[k]) = m
  BY DEF Replays
<1>2. n \in Nat /\ k \in Nat /\ log \in Seq(Changes) /\ Len(log) = n + k
      /\ \A i \in 1 .. n + k : log[i] = IF i <= n THEN new[i] ELSE old[i - n]
  BY LenProperties, ConcatProperties
<1> DEFINE es == [i \in 0 .. n + k |-> IF i <= n THEN cs[i] ELSE ds[i - n]]
           zs == [i \in 0 .. n + k |-> IF i <= n THEN xs[i] ELSE ys[i - n]]
<1>3. cs \in [0 .. n -> Cells] /\ xs \in [0 .. n -> Indexes]
      /\ \A i \in 1 .. n : Undone(new[i], cs[i - 1], xs[i - 1], cs[i], xs[i])
  BY DEF Snapshots
<1>4. \A i \in 1 .. k : Undone(old[i], ds[i - 1], ys[i - 1], ds[i], ys[i])
  BY <1>1 DEF Snapshots
<1> HIDE DEF n, k, log
<1>5. es \in [0 .. n + k -> Cells] /\ zs \in [0 .. n + k -> Indexes]
  BY <1>1, <1>2, <1>3
<1>6. ASSUME NEW i \in 1 .. n + k  PROVE Undone(log[i], es[i - 1], zs[i - 1], es[i], zs[i])
  <2>1. CASE i <= n
    <3>1. i \in 1 .. n /\ log[i] = new[i] /\ es[i - 1] = cs[i - 1] /\ zs[i - 1] = xs[i - 1] /\ es[i] = cs[i] /\ zs[i] = xs[i]
      BY <1>2, <2>1
    <3> QED  BY <1>3, <3>1
  <2>2. CASE i > n
    <3> DEFINE j == i - n
    <3>1. j \in 1 .. k /\ log[i] = old[j] /\ es[i] = ds[j] /\ zs[i] = ys[j]
      BY <1>2, <2>2
    <3>2. es[i - 1] = ds[j - 1] /\ zs[i - 1] = ys[j - 1]
      <4>1. CASE j = 1
        <5>1. i - 1 = n /\ j - 1 = 0 /\ n \in 0 .. n + k /\ n <= n
          BY <1>2, <2>2, <4>1
        <5>2. es[n] = cs[n] /\ zs[n] = xs[n]
          BY <5>1
        <5> HIDE DEF j, es, zs
        <5> QED  BY <1>1, <5>1, <5>2
      <4>2. CASE j # 1
        BY <1>2, <2>2, <4>2
      <4> QED  BY <4>1, <4>2
    <3> HIDE DEF j, es, zs
    <3> QED  BY <1>4, <3>1, <3>2
  <2> QED  BY <1>2, <2>1, <2>2
<1>7. es[0] = cs[0] /\ zs[0] = xs[0]
  BY <1>2
<1>8. es[n + k] = ds[k] /\ zs[n + k] = ys[k]
  <2>1. CASE k = 0
    BY <1>1, <1>2, <2>1
  <2>2. CASE k # 0
    BY <1>2, <2>2
  <2> QED  BY <2>1, <2>2
<1> HIDE DEF es, zs
<1>9. Snapshots(log, es, zs)
  BY <1>2, <1>5, <1>6 DEF Snapshots
<1> QED  BY <1>1, <1>2, <1>5, <1>7, <1>8, <1>9 DEF Replays, log

\* One change in front of a log.
LEMMA ReplayOneFurther ==
    ASSUME NEW e \in Changes, NEW old \in Seq(Changes), NEW m,
           NEW c \in Cells, NEW x \in Indexes, NEW d \in Cells, NEW y \in Indexes,
           Undone(e, c, x, d, y), Replays(d, y, old, m)
    PROVE  Replays(c, x, <<e>> \o old, m)
<1> DEFINE cs == [i \in 0 .. 1 |-> IF i = 0 THEN c ELSE d]
           xs == [i \in 0 .. 1 |-> IF i = 0 THEN x ELSE y]
<1>1. <<e>> \in Seq(Changes) /\ Len(<<e>>) = 1 /\ <<e>>[1] = e
  OBVIOUS
<1>2. cs[0] = c /\ cs[1] = d /\ xs[0] = x /\ xs[1] = y /\ cs \in [0 .. 1 -> Cells] /\ xs \in [0 .. 1 -> Indexes]
  OBVIOUS
<1> HIDE DEF cs, xs
<1>3. Snapshots(<<e>>, cs, xs)
  BY <1>1, <1>2 DEF Snapshots
<1>4. Replays(cs[Len(<<e>>)], xs[Len(<<e>>)], old, m)
  BY <1>1, <1>2
<1>5. Replays(cs[0], xs[0], <<e>> \o old, m)
  BY <1>1, <1>3, <1>4, ReplayFurther
<1> QED  BY <1>2, <1>5

\* The newest change of a log can be undone, and the others after it.
LEMMA ReplayNext ==
    ASSUME NEW log \in Seq(Changes), log # <<>>, NEW m, NEW c, NEW x, Replays(c, x, log, m)
    PROVE  \E d \in Cells, y \in Indexes : Undone(Head(log), c, x, d, y) /\ Replays(d, y, Tail(log), m)
<1> DEFINE n == Len(log)
<1>1. PICK cs \in [0 .. n -> Cells], xs \in [0 .. n -> Indexes] :
          /\ Snapshots(log, cs, xs)
          /\ cs[0] = c /\ xs[0] = x
          /\ Holds(cs[n], xs[n]) = m
  BY DEF Replays
<1>2. n \in Nat \ {0} /\ Head(log) = log[1]
  BY EmptySeq
<1>3. Tail(log) \in Seq(Changes) /\ Len(Tail(log)) = n - 1 /\ \A i \in 1 .. n - 1 : Tail(log)[i] = log[i + 1]
  BY HeadTailProperties
<1>4. \A i \in 1 .. n : Undone(log[i], cs[i - 1], xs[i - 1], cs[i], xs[i])
  BY <1>1 DEF Snapshots
<1> DEFINE ds == [i \in 0 .. n - 1 |-> cs[i + 1]]
           ys == [i \in 0 .. n - 1 |-> xs[i + 1]]
<1> HIDE DEF n
<1>5. /\ ds \in [0 .. n - 1 -> Cells] /\ ys \in [0 .. n - 1 -> Indexes]
      /\ ds[0] = cs[1] /\ ys[0] = xs[1] /\ ds[n - 1] = cs[n] /\ ys[n - 1] = xs[n]
      /\ \A i \in 1 .. n - 1 : ds[i - 1] = cs[i] /\ ds[i] = cs[i + 1] /\ ys[i - 1] = xs[i] /\ ys[i] = xs[i + 1]
  BY <1>1, <1>2
<1> HIDE DEF ds, ys
<1>6. \A i \in 1 .. n - 1 : Undone(Tail(log)[i], ds[i - 1], ys[i - 1], ds[i], ys[i])
  <2> TAKE i \in 1 .. n - 1
  <2>1. i + 1 \in 1 .. n /\ (i + 1) - 1 = i
    BY <1>2
  <2>2. Undone(log[i + 1], cs[i], xs[i], cs[i + 1], xs[i + 1])
    BY <1>4, <2>1
  <2> QED  BY <1>3, <1>5, <2>2
<1>7. Snapshots(Tail(log), ds, ys)
  BY <1>3, <1>5, <1>6 DEF Snapshots
<1>8. Replays(cs[1], xs[1], Tail(log), m)
  <2>1. Len(Tail(log)) = n - 1
    BY <1>3
  <2>2. /\ ds \in [0 .. Len(Tail(log)) -> Cells] /\ ys \in [0 .. Len(Tail(log)) -> Indexes]
        /\ Holds(ds[Len(Tail(log))], ys[Len(Tail(log))]) = m
        /\ ds[0] = cs[1] /\ ys[0] = xs[1]
    BY <1>1, <1>5, <2>1
  <2> QED  BY <1>7, <2>2 DEF Replays
<1>9. Undone(log[1], cs[0], xs[0], cs[1], xs[1])
  BY <1>2, <1>4
<1>10. cs[1] \in Cells /\ xs[1] \in Indexes
  BY <1>2
<1> QED  BY <1>1, <1>2, <1>8, <1>9, <1>10

\* Undoing an empty log changes nothing.
LEMMA ReplayNothing ==
    ASSUME NEW c \in Cells, NEW x \in Indexes, NEW m
    PROVE  Replays(c, x, <<>>, m) <=> Holds(c, x) = m
<1>1. Len(<<>>) = 0
  OBVIOUS
<1>2. ASSUME Replays(c, x, <<>>, m)  PROVE Holds(c, x) = m
  BY <1>1, <1>2 DEF Replays
<1>3. ASSUME Holds(c, x) = m  PROVE Replays(c, x, <<>>, m)
  <2> DEFINE cs == [i \in 0 .. 0 |-> c]
             xs == [i \in 0 .. 0 |-> x]
  <2>1. cs \in [0 .. 0 -> Cells] /\ xs \in [0 .. 0 -> Indexes] /\ cs[0] = c /\ xs[0] = x
    OBVIOUS
  <2> HIDE DEF cs, xs
  <2>2. Snapshots(<<>>, cs, xs)
    BY <1>1, <2>1 DEF Snapshots
  <2> QED  BY <1>1, <1>3, <2>1, <2>2 DEF Replays
<1> QED  BY <1>2, <1>3

(* Replacing a row puts new contents elsewhere in memory, and undoing that  *)
(* puts the old contents there: from then on the two cells are exchanged.   *)
Exchanged(a, b, z) == IF z = a THEN b ELSE IF z = b THEN a ELSE z
ExchangedCells(a, b, c) == [z \in Rows |-> c[Exchanged(a, b, z)]]
ExchangedIndex(a, b, x) == [k \in Keys |-> Exchanged(a, b, x[k])]

\* Two cells exchanged, in memory and in the index, hold what they held.
LEMMA ExchangedFacts ==
    ASSUME NEW a \in Rows, NEW b \in Rows, NEW c \in Cells, NEW x \in Indexes
    PROVE  /\ ExchangedCells(a, b, c) \in Cells
           /\ ExchangedIndex(a, b, x) \in Indexes
           /\ Holds(ExchangedCells(a, b, c), ExchangedIndex(a, b, x)) = Holds(c, x)
<1>1. \A z \in Rows : Exchanged(a, b, z) \in Rows /\ Exchanged(a, b, Exchanged(a, b, z)) = z
  BY DEF Exchanged
<1>2. Exchanged(a, b, NoRow) = NoRow
  BY StoreAssumption DEF Exchanged
<1> DEFINE d == ExchangedCells(a, b, c)
           y == ExchangedIndex(a, b, x)
<1>3. d \in Cells /\ \A z \in Rows : d[z] = c[Exchanged(a, b, z)]
  BY <1>1 DEF Cells, ExchangedCells
<1>4. y \in Indexes /\ \A k \in Keys : y[k] = Exchanged(a, b, x[k])
  BY <1>1, <1>2 DEF Indexes, ExchangedIndex
<1> HIDE DEF d, y
<1>5. ASSUME NEW k \in Keys
      PROVE  /\ y[k] \in Rows <=> x[k] \in Rows
             /\ y[k] \in Rows => d[y[k]] = c[x[k]]
  <2>1. x[k] \in Rows \union {NoRow}
    BY DEF Indexes
  <2>2. CASE x[k] = NoRow
    BY <1>2, <1>4, <2>2, StoreAssumption
  <2>3. CASE x[k] \in Rows
    BY <1>1, <1>3, <1>4, <2>3
  <2> QED  BY <2>1, <2>2, <2>3
<1>6. Holds(d, y) = Holds(c, x)
  BY <1>5 DEF Holds
<1> QED  BY <1>3, <1>4, <1>6 DEF d, y

\* A change that mentions neither row is undone as before.
LEMMA UndoneExchanged ==
    ASSUME NEW a \in Rows, NEW b \in Rows, NEW e \in Changes,
           e.before \notin {a, b}, e.after \notin {a, b},
           NEW c \in Cells, NEW x \in Indexes, NEW d \in Cells, NEW y \in Indexes,
           Undone(e, c, x, d, y)
    PROVE  Undone(e, ExchangedCells(a, b, c), ExchangedIndex(a, b, x),
                     ExchangedCells(a, b, d), ExchangedIndex(a, b, y))
<1> DEFINE c2 == ExchangedCells(a, b, c)
           x2 == ExchangedIndex(a, b, x)
           d2 == ExchangedCells(a, b, d)
           y2 == ExchangedIndex(a, b, y)
           X(z) == Exchanged(a, b, z)
<1> SUFFICES Undone(e, c2, x2, d2, y2)
  OBVIOUS
<1>1. /\ \A z \in Rows : X(z) \in Rows
      /\ \A z : X(X(z)) = z
      /\ X(NoRow) = NoRow
      /\ \A z : z \notin {a, b} => X(z) = z
  BY StoreAssumption DEF Exchanged
<1>2. /\ c2 = [z \in Rows |-> c[X(z)]] /\ x2 = [k \in Keys |-> X(x[k])]
      /\ d2 = [z \in Rows |-> d[X(z)]] /\ y2 = [k \in Keys |-> X(y[k])]
  BY DEF ExchangedCells, ExchangedIndex
<1>3. c2 \in Cells /\ x2 \in Indexes /\ d2 \in Cells /\ y2 \in Indexes
  BY ExchangedFacts
<1>4. X(e.before) = e.before /\ X(e.after) = e.after
  BY <1>1
<1>5. \A z \in Rows : z # a /\ z # b => c2[z] = c[z] /\ d2[z] = d[z]
  BY <1>1, <1>2
<1> HIDE DEF c2, x2, d2, y2, X
<1>6. \A z \in Rows : c[z] # Freed => c[z].key \in Keys
  BY DEF Cells, RowData
<1>7. \A k \in Keys : \A z : (z # a /\ z # b) => (x2[k] = z <=> x[k] = z)
  BY <1>1, <1>2
<1>8. CASE e.change = "insert" /\ e.before = NoRow /\ e.after \in Rows /\ UndoneInsert(e, c, x, d, y)
  <2>1. c[e.after] # Freed /\ x[c[e.after].key] = e.after /\ c2[e.after] = c[e.after] /\ c[e.after].key \in Keys
    BY <1>5, <1>6, <1>8 DEF UndoneInsert
  <2>2. c2[e.after] # Freed /\ x2[c2[e.after].key] = e.after
    BY <1>7, <2>1
  <2>3. d2 = [c2 EXCEPT ![e.after] = Freed]
    <3>1. d = [c EXCEPT ![e.after] = Freed]
      BY <1>8 DEF UndoneInsert
    <3>2. ASSUME NEW z \in Rows  PROVE d2[z] = IF z = e.after THEN Freed ELSE c2[z]
      <4>1. X(z) \in Rows /\ (X(z) = e.after <=> z = e.after)
        BY <1>1, <1>4
      <4>2. d[X(z)] = IF X(z) = e.after THEN Freed ELSE c[X(z)]
        BY <3>1, <4>1 DEF Cells
      <4> QED  BY <1>2, <4>1, <4>2
    <3> QED  BY <1>3, <3>2 DEF Cells
  <2>4. y2 = [x2 EXCEPT ![c2[e.after].key] = NoRow]
    <3>1. y = [x EXCEPT ![c[e.after].key] = NoRow]
      BY <1>8 DEF UndoneInsert
    <3>2. ASSUME NEW k \in Keys  PROVE y2[k] = IF k = c2[e.after].key THEN NoRow ELSE x2[k]
      <4>1. y[k] = IF k = c2[e.after].key THEN NoRow ELSE x[k]
        BY <2>1, <3>1 DEF Indexes
      <4> QED  BY <1>1, <1>2, <4>1
    <3> QED  BY <1>3, <3>2 DEF Indexes
  <2> QED  BY <1>8, <2>2, <2>3, <2>4 DEF Undone, UndoneInsert
<1>9. CASE e.change = "delete" /\ e.before \in Rows /\ UndoneDelete(e, c, x, d, y)
  <2>1. c[e.before] # Freed /\ x[c[e.before].key] = NoRow /\ c2[e.before] = c[e.before] /\ c[e.before].key \in Keys
    BY <1>5, <1>6, <1>9 DEF UndoneDelete
  <2>2. c2[e.before] # Freed /\ x2[c2[e.before].key] = NoRow
    BY <1>1, <1>2, <2>1
  <2>3. d2 = c2
    BY <1>2, <1>9 DEF UndoneDelete
  <2>4. y2 = [x2 EXCEPT ![c2[e.before].key] = e.before]
    <3>1. y = [x EXCEPT ![c[e.before].key] = e.before]
      BY <1>9 DEF UndoneDelete
    <3>2. ASSUME NEW k \in Keys  PROVE y2[k] = IF k = c2[e.before].key THEN e.before ELSE x2[k]
      <4>1. y[k] = IF k = c2[e.before].key THEN e.before ELSE x[k]
        BY <2>1, <3>1 DEF Indexes
      <4> QED  BY <1>2, <1>4, <4>1
    <3> QED  BY <1>3, <3>2 DEF Indexes
  <2> QED  BY <1>9, <2>2, <2>3, <2>4 DEF Undone, UndoneDelete
<1>10. CASE e.change = "update" /\ e.before \in Rows /\ e.after \in Rows /\ UndoneUpdate(e, c, x, d, y)
  <2>1. /\ c[e.before] # Freed /\ c[e.after] # Freed /\ x[c[e.after].key] = e.after
        /\ c[e.before].key = c[e.after].key \/ x[c[e.before].key] = NoRow
        /\ c2[e.before] = c[e.before] /\ c2[e.after] = c[e.after]
        /\ c[e.before].key \in Keys /\ c[e.after].key \in Keys
    BY <1>5, <1>6, <1>10 DEF UndoneUpdate
  <2>2. /\ c2[e.before] # Freed /\ c2[e.after] # Freed /\ x2[c2[e.after].key] = e.after
        /\ c2[e.before].key = c2[e.after].key \/ x2[c2[e.before].key] = NoRow
    BY <1>1, <1>2, <1>7, <2>1
  <2>3. d2 = [c2 EXCEPT ![e.after] = c2[e.before], ![e.before] = Freed]
    <3>1. d = [c EXCEPT ![e.after] = c[e.before], ![e.before] = Freed]
      BY <1>10 DEF UndoneUpdate
    <3>2. ASSUME NEW z \in Rows
          PROVE  d2[z] = IF z = e.before THEN Freed ELSE IF z = e.after THEN c2[e.before] ELSE c2[z]
      <4>1. X(z) \in Rows /\ (X(z) = e.after <=> z = e.after) /\ (X(z) = e.before <=> z = e.before)
        BY <1>1, <1>4
      <4>2. d[X(z)] = IF X(z) = e.before THEN Freed ELSE IF X(z) = e.after THEN c[e.before] ELSE c[X(z)]
        BY <3>1, <4>1 DEF Cells
      <4> QED  BY <1>2, <2>1, <4>1, <4>2
    <3> QED  BY <1>3, <3>2 DEF Cells
  <2>4. y2 = [[x2 EXCEPT ![c2[e.after].key] = NoRow] EXCEPT ![c2[e.before].key] = e.after]
    <3>1. y = [[x EXCEPT ![c[e.after].key] = NoRow] EXCEPT ![c[e.before].key] = e.after]
      BY <1>10 DEF UndoneUpdate
    <3>2. ASSUME NEW k \in Keys
          PROVE  y2[k] = IF k = c2[e.before].key THEN e.after ELSE IF k = c2[e.after].key THEN NoRow ELSE x2[k]
      <4>1. y[k] = IF k = c2[e.before].key THEN e.after ELSE IF k = c2[e.after].key THEN NoRow ELSE x[k]
        BY <2>1, <3>1 DEF Indexes
      <4> QED  BY <1>1, <1>2, <1>4, <4>1
    <3> QED  BY <1>3, <3>2 DEF Indexes
  <2> QED  BY <1>10, <2>2, <2>3, <2>4 DEF Undone, UndoneUpdate
<1> QED  BY <1>8, <1>9, <1>10 DEF Undone

\* A log that mentions neither row is undone as before.
LEMMA ReplayExchanged ==
    ASSUME NEW a \in Rows, NEW b \in Rows, NEW log \in Seq(Changes), NEW m,
           \A i \in DOMAIN log : log[i].before \notin {a, b} /\ log[i].after \notin {a, b},
           NEW c \in Cells, NEW x \in Indexes, Replays(c, x, log, m)
    PROVE  Replays(ExchangedCells(a, b, c), ExchangedIndex(a, b, x), log, m)
<1> DEFINE n == Len(log)
<1>1. PICK cs \in [0 .. n -> Cells], xs \in [0 .. n -> Indexes] :
          /\ Snapshots(log, cs, xs)
          /\ cs[0] = c /\ xs[0] = x
          /\ Holds(cs[n], xs[n]) = m
  BY DEF Replays
<1>2. n \in Nat /\ DOMAIN log = 1 .. n /\ \A i \in 1 .. n : log[i] \in Changes
  BY LenProperties, ElementOfSeq
<1> DEFINE ds == [i \in 0 .. n |-> ExchangedCells(a, b, cs[i])]
           ys == [i \in 0 .. n |-> ExchangedIndex(a, b, xs[i])]
<1> HIDE DEF n
<1>3. \A i \in 0 .. n : /\ ds[i] = ExchangedCells(a, b, cs[i]) /\ ys[i] = ExchangedIndex(a, b, xs[i])
                        /\ ds[i] \in Cells /\ ys[i] \in Indexes
                        /\ Holds(ds[i], ys[i]) = Holds(cs[i], xs[i])
  BY ExchangedFacts
<1>4. ds \in [0 .. n -> Cells] /\ ys \in [0 .. n -> Indexes]
  BY <1>3
<1> HIDE DEF ds, ys
<1>5. ASSUME NEW i \in 1 .. n  PROVE Undone(log[i], ds[i - 1], ys[i - 1], ds[i], ys[i])
  <2>1. i \in 0 .. n /\ i - 1 \in 0 .. n
    BY <1>2
  <2>2. Undone(log[i], cs[i - 1], xs[i - 1], cs[i], xs[i])
    BY <1>1 DEF Snapshots, n
  <2>3. cs[i - 1] \in Cells /\ xs[i - 1] \in Indexes /\ cs[i] \in Cells /\ xs[i] \in Indexes
    BY <2>1
  <2>4. log[i] \in Changes /\ log[i].before \notin {a, b} /\ log[i].after \notin {a, b}
    BY <1>2
  <2> QED  BY <1>3, <2>1, <2>2, <2>3, <2>4, UndoneExchanged
<1>6. Snapshots(log, ds, ys)
  BY <1>4, <1>5 DEF Snapshots, n
<1>7. ds[0] = ExchangedCells(a, b, c) /\ ys[0] = ExchangedIndex(a, b, x) /\ Holds(ds[n], ys[n]) = m
  BY <1>1, <1>2, <1>3
<1> QED  BY <1>4, <1>6, <1>7 DEF Replays, n

------------------------------------------------------------------------------
(* What writes do to the log.                                               *)

\* A transaction that did not replace a row of its own did not before either.
LEMMA OlderChanges ==
    ASSUME NEW new \in Seq(Changes), NEW old \in Seq(Changes), ~ReplacedOwnWrite(new \o old)
    PROVE  /\ ~ReplacedOwnWrite(old)
           /\ \A i \in 1 .. Len(new), j \in 1 .. Len(old) :
                  new[i].change = "update" => new[i].before # old[j].after
<1> DEFINE n == Len(new)
           k == Len(old)
           log == new \o old
<1>1. /\ n \in Nat /\ k \in Nat /\ DOMAIN old = 1 .. k
      /\ log \in Seq(Changes) /\ Len(log) = n + k
      /\ \A i \in 1 .. n + k : log[i] = IF i <= n THEN new[i] ELSE old[i - n]
  BY LenProperties, ConcatProperties
<1>2. DOMAIN log = 1 .. n + k
  BY <1>1, LenProperties
<1>3. \A i, j \in DOMAIN log : ~(i < j /\ log[i].change = "update" /\ log[i].before = log[j].after)
  BY DEF ReplacedOwnWrite
<1> HIDE DEF n, k, log
<1>4. \A i \in 1 .. k : i + n \in DOMAIN log /\ log[i + n] = old[i]
  BY <1>1, <1>2
<1>5. ASSUME NEW i \in 1 .. k, NEW j \in 1 .. k, i < j
      PROVE  ~(old[i].change = "update" /\ old[i].before = old[j].after)
  <2>1. i + n < j + n
    BY <1>1, <1>5
  <2> QED  BY <1>3, <1>4, <2>1
<1>6. ASSUME NEW i \in 1 .. n, NEW j \in 1 .. k, new[i].change = "update"
      PROVE  new[i].before # old[j].after
  <2>1. i \in DOMAIN log /\ log[i] = new[i] /\ i < j + n
    BY <1>1, <1>2
  <2> QED  BY <1>3, <1>4, <1>6, <2>1
<1> QED  BY <1>1, <1>5, <1>6 DEF ReplacedOwnWrite, n, k

\* The log after changes were put in front of the newest one.
LEMMA LogFacts ==
    ASSUME TypeOK, txdepth > 0, NEW new \in Seq(Changes), UNCHANGED txdepth,
           logs' = [logs EXCEPT ![txdepth] = new \o @]
    PROVE  /\ txdepth \in Depths /\ Top \in Seq(Changes) /\ Top' = new \o Top
           /\ logs' \in [Depths -> Seq(Changes)]
           /\ \A d \in Depths : d # txdepth => logs'[d] = logs[d]
           /\ DOMAIN Top = 1 .. Len(Top) /\ Len(Top) \in Nat /\ Len(new) \in Nat
           /\ DOMAIN Top' = 1 .. Len(new) + Len(Top)
           /\ \A i \in 1 .. Len(new) + Len(Top) : Top'[i] = IF i <= Len(new) THEN new[i] ELSE Top[i - Len(new)]
<1>1. txdepth \in Depths /\ logs \in [Depths -> Seq(Changes)]
  BY StoreAssumption DEF TypeOK, Depths
<1>2. Top \in Seq(Changes)
  BY <1>1 DEF Top
<1>3. /\ new \o Top \in Seq(Changes) /\ Len(new \o Top) = Len(new) + Len(Top)
      /\ \A i \in 1 .. Len(new) + Len(Top) : (new \o Top)[i] = IF i <= Len(new) THEN new[i] ELSE Top[i - Len(new)]
  BY <1>2, ConcatProperties
<1>4. DOMAIN Top = 1 .. Len(Top) /\ Len(Top) \in Nat /\ Len(new) \in Nat
      /\ DOMAIN (new \o Top) = 1 .. Len(new) + Len(Top)
  BY <1>2, <1>3, LenProperties
<1>5. Top' = new \o Top
  BY <1>1 DEF Top
<1>6. logs' \in [Depths -> Seq(Changes)] /\ \A d \in Depths : d # txdepth => logs'[d] = logs[d]
  BY <1>1, <1>3 DEF Top
<1> QED  BY <1>1, <1>2, <1>3, <1>4, <1>5, <1>6

\* A write in a transaction: what it keeps in the log was in the table or is a
\* copy, and what it wrote was not kept.
LEMMA WriteKeepsBooks ==
    ASSUME TypeOK, Books, Control, txdepth > 0, pc \in {"idle", "trigger"}, WriteFrame,
           NEW new \in Seq(Changes), logs' = [logs EXCEPT ![txdepth] = new \o @],
           Heap \subseteq Heap',
           (Heap \ Linked) \cap Linked' = {},
           \A i \in 1 .. Len(new) : new[i].before # NoRow =>
               /\ new[i].before \in Heap' \ Linked'
               /\ new[i].before \notin Heap \ Linked
               /\ \A j \in 1 .. Len(new) : new[i].before = new[j].before => i = j,
           \A i \in 1 .. Len(new) : new[i].after # NoRow =>
               /\ new[i].after \in Heap'
               /\ new[i].after \notin Heap \ Linked
               /\ \A j \in 1 .. Len(new) : i < j => new[j].before # new[i].after
    PROVE  /\ Books' /\ Control' /\ logs' \in [Depths -> Seq(Changes)]
           /\ AllBefores' = AllBefores \union Befores(new)
<1> DEFINE n == Len(new)
           k == Len(Top)
<1>1. /\ txdepth \in Depths /\ Top \in Seq(Changes) /\ Top' = new \o Top
      /\ logs' \in [Depths -> Seq(Changes)]
      /\ \A d \in Depths : d # txdepth => logs'[d] = logs[d]
      /\ DOMAIN Top = 1 .. k /\ k \in Nat /\ n \in Nat
      /\ DOMAIN Top' = 1 .. n + k
      /\ \A i \in 1 .. n + k : Top'[i] = IF i <= n THEN new[i] ELSE Top[i - n]
  BY LogFacts DEF WriteFrame
<1>2. Top = logs[txdepth] /\ Top' = logs'[txdepth] /\ txdepth' = txdepth /\ pc' = pc /\ cur' = cur /\ lost' = lost
      /\ logs \in [Depths -> Seq(Changes)]
  BY DEF Top, WriteFrame, TypeOK
<1>3. DOMAIN new = 1 .. n
  BY LenProperties
<1> HIDE DEF n, k
\* Each change in a log after the write is a new one or one that was there.
<1> DEFINE Old(d, i) == IF d = txdepth THEN i - n ELSE i
           IsNew(d, i) == d = txdepth /\ i <= n
<1>4. ASSUME NEW d \in Depths, NEW i \in DOMAIN logs'[d]
      PROVE  /\ IsNew(d, i) => i \in 1 .. n /\ logs'[d][i] = new[i]
             /\ ~IsNew(d, i) => Old(d, i) \in DOMAIN logs[d] /\ logs'[d][i] = logs[d][Old(d, i)]
  BY SMTT(40), <1>1, <1>2
<1>5. \A d \in Depths : \A i \in DOMAIN logs[d] : logs[d][i].before # NoRow =>
          logs[d][i].before \in Heap \ (Linked \union lost \union {cur.entry.before})
  BY DEF Books, KeptApart
<1>6. KeptOnce'
  <2> SUFFICES ASSUME NEW d \in Depths, NEW e \in Depths,
                      NEW i \in DOMAIN logs'[d], NEW j \in DOMAIN logs'[e],
                      logs'[d][i].before # NoRow, logs'[d][i].before = logs'[e][j].before
               PROVE  d = e /\ i = j
    BY DEF KeptOnce
  <2>1. CASE IsNew(d, i) /\ IsNew(e, j)
    BY <1>4, <2>1 DEF n
  <2>2. CASE IsNew(d, i) /\ ~IsNew(e, j)
    <3>1. new[i].before \notin Heap \ Linked
      BY <1>4, <2>2 DEF n
    <3>2. logs'[e][j].before \in Heap \ Linked
      BY <1>4, <1>5, <2>2
    <3> QED  BY <1>4, <2>2, <3>1, <3>2
  <2>3. CASE ~IsNew(d, i) /\ IsNew(e, j)
    <3>1. new[j].before \notin Heap \ Linked
      BY <1>4, <2>3 DEF n
    <3>2. logs'[d][i].before \in Heap \ Linked
      BY <1>4, <1>5, <2>3
    <3> QED  BY <1>4, <2>3, <3>1, <3>2
  <2>4. CASE ~IsNew(d, i) /\ ~IsNew(e, j)
    <3>1. d = e /\ Old(d, i) = Old(e, j)
      BY <1>4, <2>4 DEF Books, KeptOnce
    <3>2. i \in Int /\ j \in Int
      BY <1>1, <1>2, LenProperties
    <3> QED  BY <1>1, <3>1, <3>2
  <2> QED  BY <2>1, <2>2, <2>3, <2>4
<1>7. KeptApart'
  <2> SUFFICES ASSUME NEW d \in Depths, NEW i \in DOMAIN logs'[d], logs'[d][i].before # NoRow
               PROVE  logs'[d][i].before \in Heap' \ (Linked' \union lost \union {cur.entry.before})
    BY <1>2 DEF KeptApart
  <2>1. CASE IsNew(d, i)
    <3>1. logs'[d][i].before \in Heap' \ Linked' /\ logs'[d][i].before \notin Heap \ Linked
      BY <1>4, <2>1 DEF n
    <3> QED  BY <3>1 DEF Books, CurApart, LostApart
  <2>2. CASE ~IsNew(d, i)
    BY <1>4, <1>5, <2>2
  <2> QED  BY <2>1, <2>2
<1>8. CurApart' /\ LostApart'
  BY <1>2 DEF Books, CurApart, LostApart
<1>9. WrittenStays'
  <2> SUFFICES ASSUME NEW i \in 1 .. n + k, Top'[i].after # NoRow
               PROVE  /\ Top'[i].after \in Heap' \ {cur.entry.before}
                      /\ \A j \in 1 .. n + k : i < j => Top'[j].before # Top'[i].after
    BY <1>1, <1>2 DEF WrittenStays
  <2>1. CASE i <= n
    <3>1. i \in 1 .. n /\ Top'[i] = new[i]
      BY <1>1, <2>1
    <3>2. Top'[i].after \in Heap' /\ Top'[i].after \notin Heap \ Linked
      BY <3>1 DEF n
    <3>3. Top'[i].after # cur.entry.before
      BY <2>1, <3>2 DEF Books, CurApart
    <3>4. ASSUME NEW j \in 1 .. n + k, i < j  PROVE Top'[j].before # Top'[i].after
      <4>1. CASE j <= n
        BY <1>1, <3>1, <3>4, <4>1 DEF n
      <4>2. CASE j > n
        <5>1. j - n \in DOMAIN Top /\ Top'[j] = Top[j - n]
          BY <1>1, <4>2
        <5> QED  BY SMTT(40), <1>1, <1>2, <1>5, <3>2, <5>1
      <4> QED  BY <1>1, <4>1, <4>2
    <3> QED  BY <3>2, <3>3, <3>4
  <2>2. CASE i > n
    <3>1. i - n \in DOMAIN Top /\ Top'[i] = Top[i - n]
      BY <1>1, <2>2
    <3>2. /\ Top'[i].after \in Heap \ {cur.entry.before}
          /\ \A j \in DOMAIN Top : i - n < j => Top[j].before # Top'[i].after
      BY <3>1 DEF Books, WrittenStays
    <3>3. ASSUME NEW j \in 1 .. n + k, i < j  PROVE Top'[j].before # Top'[i].after
      <4>1. j - n \in DOMAIN Top /\ i - n < j - n /\ Top'[j] = Top[j - n]
        BY <1>1, <2>2, <3>3
      <4> QED  BY <3>2, <4>1
    <3> QED  BY <3>2, <3>3
  <2> QED  BY <1>1, <2>1, <2>2
<1>10. Control'
  <2>1. pc = "trigger" /\ ~cur.last => Top' # <<>>
    <3>1. Len(<<>>) = 0 /\ DOMAIN <<>> = {}
      OBVIOUS
    <3>2. ASSUME Top # <<>>  PROVE Top' # <<>>
      <4>1. k > 0
        BY <1>1, <3>2, EmptySeq DEF k
      <4>2. 1 \in DOMAIN Top'
        BY <1>1, <4>1
      <4> QED  BY <4>2, <3>1
    <3> QED  BY <3>2 DEF Control
  <2>2. \A d \in Depths : d > txdepth => logs'[d] = <<>>
    <3>1. \A d \in Depths : d > txdepth => d # txdepth
      BY <1>1 DEF Depths
    <3> QED  BY <1>1, <3>1 DEF Control
  <2> QED  BY <1>2, <2>1, <2>2 DEF Control
<1>11. AllBefores' = AllBefores \union Befores(new)
  <2>1. AllBefores' \subseteq AllBefores \union Befores(new)
    <3> SUFFICES ASSUME NEW d \in Depths, NEW i \in DOMAIN logs'[d], logs'[d][i].before # NoRow
                 PROVE  logs'[d][i].before \in AllBefores \union Befores(new)
      BY DEF AllBefores, Befores
    <3>1. CASE IsNew(d, i)
      BY <1>3, <1>4, <3>1 DEF Befores
    <3>2. CASE ~IsNew(d, i)
      BY <1>4, <3>2 DEF AllBefores, Befores
    <3> QED  BY <3>1, <3>2
  <2>2. Befores(new) \subseteq AllBefores'
    <3> SUFFICES ASSUME NEW i \in 1 .. n, new[i].before # NoRow
                 PROVE  new[i].before \in AllBefores'
      BY <1>3 DEF Befores
    <3>1. i \in DOMAIN Top' /\ Top'[i] = new[i]
      BY <1>1
    <3>2. new[i].before \in Befores(logs'[txdepth])
      BY <1>2, <3>1 DEF Befores
    <3> QED  BY <1>1, <3>2 DEF AllBefores
  <2>3. AllBefores \subseteq AllBefores'
    <3> SUFFICES ASSUME NEW d \in Depths, NEW i \in DOMAIN logs[d], logs[d][i].before # NoRow
                 PROVE  logs[d][i].before \in AllBefores'
      BY SMTT(40) DEF AllBefores, Befores
    <3>1. CASE d = txdepth
      <4>1. i + n \in DOMAIN Top' /\ Top'[i + n] = Top[i]
        BY <1>1, <1>2, <3>1
      <4>2. logs[d][i].before \in Befores(logs'[txdepth])
        BY <1>2, <3>1, <4>1 DEF Befores
      <4> QED  BY <1>1, <4>2 DEF AllBefores
    <3>2. CASE d # txdepth
      BY <1>1, <3>2 DEF AllBefores, Befores
    <3> QED  BY <3>1, <3>2
  <2> QED  BY <2>1, <2>2, <2>3
<1> QED  BY <1>1, <1>6, <1>7, <1>8, <1>9, <1>10, <1>11 DEF Books

\* Outside of transactions there is no log, and nothing but lost rows is kept.
LEMMA PlainWriteKeepsBooks ==
    ASSUME TypeOK, Books, Control, txdepth = 0, WriteFrame, UNCHANGED logs,
           Heap \ Linked \subseteq Heap' \ Linked'
    PROVE  Books' /\ Control' /\ AllBefores' = {}  /\ AllBefores = {} /\ cur.entry.before = NoRow
<1>1. \A d \in Depths : logs[d] = <<>>
  BY DEF Control, Depths, TypeOK
<1>2. cur = Idle /\ cur.entry.before = NoRow
  BY DEF Control, Idle, NoChange
<1>3. UNCHANGED <<txdepth, pc, cur, base, open, lost, logs>>
  BY DEF WriteFrame
<1>4. KeptOnce' /\ KeptApart'
  BY <1>1, <1>3 DEF KeptOnce, KeptApart
<1>5. CurApart' /\ LostApart' /\ WrittenStays'
  BY <1>2, <1>3 DEF CurApart, LostApart, WrittenStays, Books
<1>6. Control'
  BY <1>3 DEF Control, Top
<1>7. AllBefores = {} /\ AllBefores' = {}
  BY <1>1, <1>3 DEF AllBefores, Befores
<1> QED  BY <1>2, <1>4, <1>5, <1>6, <1>7 DEF Books

\* A write in a transaction that the log undoes leaves rollback what it had.
LEMMA WriteKeepsReplay ==
    ASSUME TypeOK, Replay, txdepth > 0, pc \in {"idle", "trigger"}, WriteFrame,
           NEW e \in Changes, logs' = [logs EXCEPT ![txdepth] = <<e>> \o @],
           cell' \in Cells, index' \in Indexes, Undone(e, cell', index', cell, index)
    PROVE  Replay'
<1>1. UNCHANGED <<txdepth, pc, base>>
  BY DEF WriteFrame
<1>2. <<e>> \in Seq(Changes)
  OBVIOUS
<1>3. Top \in Seq(Changes) /\ Top' = <<e>> \o Top
  BY <1>1, <1>2, LogFacts
<1>4. cell \in Cells /\ index \in Indexes
  BY DEF TypeOK, Cells, Indexes
<1>5. ASSUME pc = "idle", ~ReplacedOwnWrite(Top')  PROVE Replays(cell', index', Top', base)
  <2>1. ~ReplacedOwnWrite(Top)
    BY <1>2, <1>3, <1>5, OlderChanges
  <2>2. Replays(cell, index, Top, base)
    BY <1>5, <2>1 DEF Replay
  <2> QED  BY <1>3, <1>4, <2>2, ReplayOneFurther
<1> QED  BY <1>1, <1>5 DEF Replay

------------------------------------------------------------------------------
(* The writes.                                                              *)

\* What rows, index and memory say of each other.
LEMMA TableFacts ==
    ASSUME StoreInv
    PROVE  /\ cell \in Cells /\ index \in Indexes /\ rows \in Seq(Rows) /\ logs \in [Depths -> Seq(Changes)]
           /\ IsInjective(rows) /\ Linked \subseteq Heap
           /\ \A r \in Rows : r \in Heap <=> cell[r] \in RowData
           /\ \A r \in Linked : cell[r].key \in Keys /\ index[cell[r].key] = r
           /\ \A k \in Keys : index[k] # NoRow => index[k] \in Linked /\ cell[index[k]].key = k
           /\ AllBefores \subseteq Heap \ Linked
           /\ Heap = Linked \union AllBefores \union ({cur.entry.before} \ {NoRow}) \union lost
<1>1. /\ cell \in Cells /\ index \in Indexes /\ rows \in Seq(Rows) /\ logs \in [Depths -> Seq(Changes)]
      /\ \A r \in Rows : r \in Heap <=> cell[r] \in RowData
  BY StoreAssumption DEF StoreInv, TypeOK, Cells, Indexes, RowData, Heap
<1>2. IsInjective(rows)
  BY DEF StoreInv, IndexMatchesRows, IsInjective
<1>3. Linked \subseteq Rows
  BY <1>1, LenProperties, ElementOfSeq DEF Linked, ToSet
<1>4. Linked \subseteq Heap /\ \A r \in Linked : index[cell[r].key] = r
  BY <1>3 DEF StoreInv, IndexMatchesRows, Found, Heap
<1>5. \A r \in Linked : cell[r].key \in Keys
  BY <1>1, <1>3, <1>4 DEF RowData
<1>6. \A k \in Keys : index[k] # NoRow => index[k] \in Linked /\ cell[index[k]].key = k
  BY DEF StoreInv, IndexMatchesRows
<1>7. AllBefores \subseteq Heap \ Linked
  BY DEF StoreInv, Books, KeptApart, AllBefores, Befores
<1> QED  BY <1>1, <1>2, <1>4, <1>5, <1>6, <1>7 DEF StoreInv, EveryRowAccounted

\* The same said of the next state is what IndexMatchesRows says of it.
LEMMA IndexStep ==
    ASSUME IsInjective(rows)',
           \A r \in Linked' : cell'[r] # Freed /\ index'[cell'[r].key] = r,
           \A k \in Keys : index'[k] # NoRow => index'[k] \in Linked' /\ cell'[index'[k]].key = k
    PROVE  IndexMatchesRows'
BY DEF IndexMatchesRows, IsInjective, Found

\* One change in the log, written in a transaction or not.
LEMMA LogOne ==
    ASSUME TypeOK, Control, NEW e \in Changes, Log(<<e>>)
    PROVE  /\ txdepth = 0 => UNCHANGED logs
           /\ txdepth # 0 => /\ logs' = [logs EXCEPT ![txdepth] = <<e>> \o @] /\ txdepth > 0
                             /\ <<e>> \in Seq(Changes) /\ Len(<<e>>) = 1 /\ <<e>>[1] = e
                             /\ Befores(<<e>>) = {e.before} \ {NoRow}
<1>1. <<e>> \in Seq(Changes) /\ Len(<<e>>) = 1 /\ <<e>>[1] = e /\ DOMAIN <<e>> = 1 .. 1
  OBVIOUS
<1> DEFINE l == <<e>>
<1> HIDE DEF l
<1>2. Befores(l) = {e.before} \ {NoRow}
  BY <1>1 DEF Befores, l
<1> QED  BY <1>1, <1>2 DEF Log, TypeOK, l

\* A row is inserted.
LEMMA InsertInvariant ==
    ASSUME StoreInv, NEW r \in Rows, NEW k \in Keys, NEW v \in Vals, Insert(r, k, v)
    PROVE  StoreInv'
<1> DEFINE e == Inserted(r)
<1>1. TypeOK /\ Control /\ Books /\ Replay
  BY DEF StoreInv
<1>2. /\ pc \in {"idle", "trigger"} /\ cell[r] = Freed /\ index[k] = NoRow
      /\ cell' = [cell EXCEPT ![r] = [key |-> k, val |-> v]]
      /\ rows' = Append(rows, r)
      /\ index' = [index EXCEPT ![k] = r]
      /\ Log(<<e>>) /\ WriteFrame
  BY DEF Insert, MayWrite
<1>3. r \notin Heap /\ r \notin Linked /\ r # NoRow
  BY <1>2, TableFacts, StoreAssumption DEF Heap
<1>4. e \in Changes /\ e.change = "insert" /\ e.before = NoRow /\ e.after = r
  BY DEF Inserted, Changes
<1> HIDE DEF e
<1>5. /\ cell' \in Cells /\ index' \in Indexes /\ rows' \in Seq(Rows)
      /\ Linked' = Linked \union {r} /\ IsInjective(rows)'
  <2>1. rows' \in Seq(Rows) /\ ToSet(rows') = ToSet(rows) \union {r} /\ IsInjective(rows')
    BY <1>2, <1>3, TableFacts, AppendFacts DEF Linked
  <2> QED  BY <1>2, <2>1, TableFacts DEF Cells, Indexes, RowData, Linked
<1>6. Heap' = Heap \union {r} /\ cell'[r] = [key |-> k, val |-> v] /\ \A z \in Rows : z # r => cell'[z] = cell[z]
  BY <1>2, TableFacts, StoreAssumption DEF Heap, Cells, RowData
<1>7. /\ Books' /\ Control' /\ logs' \in [Depths -> Seq(Changes)] /\ AllBefores' = AllBefores
  <2>1. CASE txdepth = 0
    <3>1. UNCHANGED logs
      BY <1>1, <1>2, <1>4, <2>1, LogOne
    <3> QED  BY <1>1, <1>2, <1>3, <1>5, <1>6, <2>1, <3>1, PlainWriteKeepsBooks, TableFacts
  <2>2. CASE txdepth # 0
    <3>1. /\ logs' = [logs EXCEPT ![txdepth] = <<e>> \o @] /\ txdepth > 0
          /\ <<e>> \in Seq(Changes) /\ Len(<<e>>) = 1 /\ <<e>>[1] = e /\ Befores(<<e>>) = {}
      BY <1>1, <1>2, <1>4, <2>2, LogOne
    <3>2. Heap \subseteq Heap' /\ (Heap \ Linked) \cap Linked' = {}
      BY <1>3, <1>5, <1>6
    <3>3. \A i \in 1 .. Len(<<e>>) : <<e>>[i].before = NoRow
      BY <1>4, <3>1
    <3>4. \A i \in 1 .. Len(<<e>>) : /\ <<e>>[i].after \in Heap' /\ <<e>>[i].after \notin Heap \ Linked
                                     /\ \A j \in 1 .. Len(<<e>>) : ~(i < j)
      BY <1>3, <1>4, <1>6, <3>1
    <3> QED  BY <1>1, <1>2, <3>1, <3>2, <3>3, <3>4, WriteKeepsBooks
  <2> QED  BY <2>1, <2>2
<1>8. UNCHANGED <<txdepth, pc, cur, base, open, lost>>
  BY <1>2 DEF WriteFrame
<1>9. TypeOK'
  BY <1>1, <1>5, <1>7, <1>8 DEF TypeOK, Cells, Indexes
<1>10. IndexMatchesRows'
  <2>1. \A z \in Linked : z # r /\ z \in Rows /\ cell[z].key # k
    BY <1>2, <1>3, TableFacts, StoreAssumption DEF Heap
  <2>2. \A z \in Linked' : cell'[z] # Freed /\ index'[cell'[z].key] = z
    BY <1>2, <1>5, <1>6, <2>1, TableFacts, StoreAssumption DEF Heap, Indexes, RowData
  <2>3. \A q \in Keys : index'[q] # NoRow => index'[q] \in Linked' /\ cell'[index'[q]].key = q
    BY <1>2, <1>5, <1>6, <2>1, TableFacts DEF Indexes
  <2> QED  BY <1>5, <2>2, <2>3, IndexStep
<1>11. EveryRowAccounted'
  BY <1>5, <1>6, <1>7, <1>8, TableFacts DEF EveryRowAccounted
<1>12. Replay'
  <2>1. CASE txdepth = 0
    BY <1>2, <1>8, <2>1 DEF Replay
  <2>2. CASE txdepth # 0
    <3>1. logs' = [logs EXCEPT ![txdepth] = <<e>> \o @] /\ txdepth > 0
      BY <1>1, <1>2, <1>4, <2>2, LogOne
    <3>2. cell = [cell' EXCEPT ![r] = Freed]
      BY <1>2, TableFacts DEF Cells
    <3>3. index = [index' EXCEPT ![k] = NoRow] /\ index'[k] = r
      BY ZenonT(40), <1>2, TableFacts DEF Indexes
    <3>4. cell'[r] # Freed /\ cell'[r].key = k
      BY <1>6, StoreAssumption DEF RowData
    <3>5. Undone(e, cell', index', cell, index)
      BY <1>4, <3>2, <3>3, <3>4 DEF Undone, UndoneInsert
    <3> QED  BY <1>1, <1>2, <1>4, <1>5, <3>1, <3>5, WriteKeepsReplay
  <2> QED  BY <2>1, <2>2
<1> QED  BY <1>7, <1>9, <1>10, <1>11, <1>12 DEF StoreInv

\* A row is deleted; outside of transactions it is freed at once.
LEMMA DeleteInvariant ==
    ASSUME StoreInv, NEW k \in Keys, Delete(k)
    PROVE  StoreInv'
<1> DEFINE r == index[k]
           e == Deleted(r)
<1>1. TypeOK /\ Control /\ Books /\ Replay
  BY DEF StoreInv
<1>2. /\ pc \in {"idle", "trigger"} /\ r # NoRow
      /\ index' = [index EXCEPT ![k] = NoRow]
      /\ rows' = Unlink(r)
      /\ cell' = IF txdepth = 0 THEN [cell EXCEPT ![r] = Freed] ELSE cell
      /\ Log(<<e>>) /\ WriteFrame
  BY DEF Delete, MayWrite
<1>3. r \in Linked /\ r \in Heap /\ r \in Rows /\ cell[r] # Freed /\ cell[r].key = k
  BY <1>2, TableFacts DEF Heap
<1>4. e \in Changes /\ e.change = "delete" /\ e.before = r /\ e.after = NoRow
  BY <1>3 DEF Deleted, Changes
<1> HIDE DEF e, r
<1>5. /\ cell' \in Cells /\ index' \in Indexes /\ rows' \in Seq(Rows)
      /\ Linked' = Linked \ {r} /\ IsInjective(rows)'
  <2>1. Unlink(r) \in Seq(Rows) /\ ToSet(Unlink(r)) = Linked \ {r} /\ IsInjective(Unlink(r))
    BY <1>3, UnlinkFacts, TableFacts
  <2> QED  BY <1>2, <2>1, TableFacts DEF Cells, Indexes, Linked
<1>6. /\ Heap' = (IF txdepth = 0 THEN Heap \ {r} ELSE Heap)
      /\ \A z \in Rows : z # r => cell'[z] = cell[z]
  BY <1>2, <1>3, TableFacts DEF Heap, Cells
<1>7. /\ Books' /\ Control' /\ logs' \in [Depths -> Seq(Changes)]
      /\ AllBefores' = IF txdepth = 0 THEN AllBefores ELSE AllBefores \union {r}
  <2>1. CASE txdepth = 0
    <3>1. UNCHANGED logs
      BY <1>1, <1>2, <1>4, <2>1, LogOne
    <3> QED  BY <1>1, <1>2, <1>3, <1>5, <1>6, <2>1, <3>1, PlainWriteKeepsBooks, TableFacts
  <2>2. CASE txdepth # 0
    <3>1. /\ logs' = [logs EXCEPT ![txdepth] = <<e>> \o @] /\ txdepth > 0
          /\ <<e>> \in Seq(Changes) /\ Len(<<e>>) = 1 /\ <<e>>[1] = e /\ Befores(<<e>>) = {r}
      BY <1>1, <1>2, <1>4, <2>2, LogOne
    <3>2. Heap \subseteq Heap' /\ (Heap \ Linked) \cap Linked' = {}
      BY <1>5, <1>6, <2>2
    <3>3. \A i \in 1 .. Len(<<e>>) : <<e>>[i].after = NoRow
      BY <1>4, <3>1
    <3>4. \A i \in 1 .. Len(<<e>>) : /\ <<e>>[i].before \in Heap' \ Linked' /\ <<e>>[i].before \notin Heap \ Linked
                                     /\ \A j \in 1 .. Len(<<e>>) : i = j
      BY <1>3, <1>4, <1>5, <1>6, <2>2, <3>1
    <3> QED  BY <1>1, <1>2, <2>2, <3>1, <3>2, <3>3, <3>4, WriteKeepsBooks
  <2> QED  BY <2>1, <2>2
<1>8. UNCHANGED <<txdepth, pc, cur, base, open, lost>>
  BY <1>2 DEF WriteFrame
<1>9. TypeOK'
  BY <1>1, <1>5, <1>7, <1>8 DEF TypeOK, Cells, Indexes
<1>10. IndexMatchesRows'
  <2>1. \A z \in Linked' : z \in Linked /\ z # r /\ z \in Rows /\ cell[z].key # k
    BY <1>5, TableFacts DEF Heap, r
  <2>2. \A z \in Linked' : cell'[z] # Freed /\ index'[cell'[z].key] = z
    BY <1>2, <1>6, <2>1, TableFacts DEF Heap, Indexes
  <2>3. \A q \in Keys : index'[q] # NoRow => index'[q] \in Linked' /\ cell'[index'[q]].key = q
    <3> SUFFICES ASSUME NEW q \in Keys, index'[q] # NoRow
                 PROVE  index'[q] \in Linked' /\ cell'[index'[q]].key = q
      OBVIOUS
    <3>1. q # k /\ index'[q] = index[q]
      BY <1>2, TableFacts DEF Indexes
    <3>2. index[q] \in Linked /\ cell[index[q]].key = q /\ index[q] \in Rows
      BY <3>1, TableFacts DEF Heap
    <3> QED  BY <1>3, <1>5, <1>6, <3>1, <3>2
  <2> QED  BY <1>5, <2>2, <2>3, IndexStep
<1>11. EveryRowAccounted'
  <2>1. r \notin AllBefores /\ r \notin lost /\ r # cur.entry.before
    BY <1>1, <1>2, <1>3, TableFacts DEF Books, CurApart, LostApart
  <2> QED  BY <1>3, <1>5, <1>6, <1>7, <1>8, <2>1, TableFacts DEF EveryRowAccounted
<1>12. Replay'
  <2>1. CASE txdepth = 0
    BY <1>2, <1>8, <2>1 DEF Replay
  <2>2. CASE txdepth # 0
    <3>1. logs' = [logs EXCEPT ![txdepth] = <<e>> \o @] /\ txdepth > 0
      BY <1>1, <1>2, <1>4, <2>2, LogOne
    <3>2. cell = cell' /\ index'[k] = NoRow
      BY <1>2, <2>2, TableFacts DEF Indexes
    <3>3. index = [index' EXCEPT ![k] = r]
      BY <1>2, TableFacts DEF Indexes, r
    <3>4. Undone(e, cell', index', cell, index)
      BY <1>3, <1>4, <3>2, <3>3 DEF Undone, UndoneDelete
    <3> QED  BY <1>1, <1>2, <1>4, <1>5, <3>1, <3>4, WriteKeepsReplay
  <2> QED  BY <2>1, <2>2
<1> QED  BY <1>7, <1>9, <1>10, <1>11, <1>12 DEF StoreInv

\* An update that keeps the key, or moves the row to a key nobody has.
LEMMA UpdateInvariant ==
    ASSUME StoreInv, Careless = {}, NEW b \in Rows, NEW k \in Keys, NEW k2 \in Keys, NEW v \in Vals,
           Update(b, k, k2, v)
    PROVE  StoreInv'
<1> DEFINE r == index[k]
           e == Updated(b, r)
           now == [key |-> k2, val |-> v]
<1>1. TypeOK /\ Control /\ Books /\ Replay
  BY DEF StoreInv
<1>2. /\ pc \in {"idle", "trigger"} /\ r # NoRow
      /\ k2 # k => index[k2] = NoRow
      /\ SaveBefore(b, r, now)
      /\ index' = [index EXCEPT ![k] = NoRow, ![k2] = r]
      /\ rows' = rows
      /\ WriteFrame
  BY DEF Update, MayWrite
<1>3. r \in Linked /\ r \in Heap /\ r \in Rows /\ cell[r] # Freed /\ cell[r].key = k /\ cell[r] \in RowData
  BY <1>2, TableFacts DEF Heap
<1>4. e \in Changes /\ e.change = "update" /\ e.before = b /\ e.after = r /\ b # NoRow
  BY <1>3, StoreAssumption DEF Updated, Changes
<1>5. now \in RowData /\ now # Freed /\ now.key = k2
  BY StoreAssumption DEF RowData
<1>6. /\ txdepth = 0 => cell' = [cell EXCEPT ![r] = now] /\ UNCHANGED logs
      /\ txdepth # 0 => /\ cell[b] = Freed /\ b # r /\ b \notin Heap
                        /\ cell' = [cell EXCEPT ![b] = cell[r], ![r] = now] /\ Log(<<e>>)
  BY <1>1, <1>2, <1>3 DEF SaveBefore, TypeOK, Heap
<1> HIDE DEF e, r, now
<1>7. /\ cell' \in Cells /\ index' \in Indexes /\ rows' \in Seq(Rows) /\ Linked' = Linked /\ IsInjective(rows)'
  BY SMTT(40), <1>2, <1>3, <1>5, <1>6, TableFacts DEF Cells, Indexes, Linked
<1>8. /\ Heap' = (IF txdepth = 0 THEN Heap ELSE Heap \union {b})
      /\ cell'[r] = now
      /\ \A z \in Rows : z # r /\ (txdepth # 0 => z # b) => cell'[z] = cell[z]
      /\ txdepth # 0 => cell'[b] = cell[r]
  BY <1>3, <1>5, <1>6, TableFacts DEF Heap, Cells
<1>9. /\ Books' /\ Control' /\ logs' \in [Depths -> Seq(Changes)]
      /\ AllBefores' = IF txdepth = 0 THEN AllBefores ELSE AllBefores \union {b}
  <2>1. CASE txdepth = 0
    BY <1>1, <1>2, <1>6, <1>7, <1>8, <2>1, PlainWriteKeepsBooks, TableFacts
  <2>2. CASE txdepth # 0
    <3>1. /\ logs' = [logs EXCEPT ![txdepth] = <<e>> \o @] /\ txdepth > 0
          /\ <<e>> \in Seq(Changes) /\ Len(<<e>>) = 1 /\ <<e>>[1] = e /\ Befores(<<e>>) = {b}
      BY <1>1, <1>4, <1>6, <2>2, LogOne
    <3>2. Heap \subseteq Heap' /\ (Heap \ Linked) \cap Linked' = {}
      BY <1>7, <1>8, <2>2
    <3>3. b \in Heap' \ Linked' /\ b \notin Heap \ Linked
      BY <1>6, <1>7, <1>8, <2>2, TableFacts
    <3>4. r \in Heap' /\ r \notin Heap \ Linked
      BY <1>3, <1>8, <2>2
    <3>5. \A i \in 1 .. Len(<<e>>) : <<e>>[i] = e /\ \A j \in 1 .. Len(<<e>>) : i = j /\ ~(i < j)
      BY <3>1
    <3> QED  BY ZenonT(40), <1>1, <1>2, <1>4, <2>2, <3>1, <3>2, <3>3, <3>4, <3>5, WriteKeepsBooks
  <2> QED  BY <2>1, <2>2
<1>10. UNCHANGED <<txdepth, pc, cur, base, open, lost>>
  BY <1>2 DEF WriteFrame
<1>11. TypeOK'
  BY <1>1, <1>7, <1>9, <1>10 DEF TypeOK, Cells, Indexes
<1>12. IndexMatchesRows'
  <2>1. \A z \in Linked : z # r => z \in Rows /\ cell'[z] = cell[z] /\ cell[z] # Freed /\ cell[z].key # k /\ cell[z].key # k2
    BY <1>2, <1>3, <1>6, <1>8, TableFacts, StoreAssumption DEF Heap, r
  <2>2. \A q \in Keys : index'[q] = IF q = k2 THEN r ELSE IF q = k THEN NoRow ELSE index[q]
    BY <1>2, TableFacts DEF Indexes
  <2>3. \A z \in Linked' : cell'[z] # Freed /\ index'[cell'[z].key] = z
    BY <1>5, <1>7, <1>8, <2>1, <2>2, TableFacts
  <2>4. \A q \in Keys : index'[q] # NoRow => index'[q] \in Linked' /\ cell'[index'[q]].key = q
    <3> SUFFICES ASSUME NEW q \in Keys, index'[q] # NoRow
                 PROVE  index'[q] \in Linked' /\ cell'[index'[q]].key = q
      OBVIOUS
    <3>1. CASE q = k2
      BY <1>3, <1>5, <1>7, <1>8, <2>2, <3>1
    <3>2. CASE q # k2
      <4>1. q # k /\ index'[q] = index[q] /\ index[q] \in Linked /\ cell[index[q]].key = q
        BY <2>2, <3>2, TableFacts
      <4> QED  BY <1>3, <1>7, <2>1, <4>1
    <3> QED  BY <3>1, <3>2
  <2> QED  BY <1>7, <2>3, <2>4, IndexStep
<1>13. EveryRowAccounted'
  BY <1>3, <1>7, <1>8, <1>9, <1>10, TableFacts DEF EveryRowAccounted
<1>14. Replay'
  <2>1. CASE txdepth = 0
    BY <1>2, <1>10, <2>1 DEF Replay
  <2>2. CASE txdepth # 0
    <3>1. logs' = [logs EXCEPT ![txdepth] = <<e>> \o @] /\ txdepth > 0
      BY <1>1, <1>4, <1>6, <2>2, LogOne
    <3>2. cell = [cell' EXCEPT ![r] = cell'[b], ![b] = Freed] /\ cell'[b] = cell[r]
      BY <1>3, <1>6, <2>2, TableFacts DEF Cells
    <3>3. index = [[index' EXCEPT ![k2] = NoRow] EXCEPT ![k] = r]
      BY <1>2, TableFacts DEF Indexes, r
    <3>4. index'[k2] = r /\ (k = k2 \/ index'[k] = NoRow)
      BY <1>2, TableFacts DEF Indexes
    <3>5. Undone(e, cell', index', cell, index)
      BY <1>3, <1>4, <1>5, <1>8, <3>2, <3>3, <3>4 DEF Undone, UndoneUpdate
    <3> QED  BY <1>1, <1>2, <1>4, <1>7, <3>1, <3>5, WriteKeepsReplay
  <2> QED  BY <2>1, <2>2
<1> QED  BY <1>9, <1>11, <1>12, <1>13, <1>14 DEF StoreInv

\* The old row is kept by the log; undoing exchanges it with the new one.
LEMMA ReplaceInvariant ==
    ASSUME StoreInv, Careless = {}, NEW r \in Rows, NEW k \in Keys, NEW v \in Vals, Replace(r, k, v)
    PROVE  StoreInv'
<1> DEFINE o == index[k]
           e == Updated(o, r)
           now == [key |-> k, val |-> v]
<1>1. TypeOK /\ Control /\ Books /\ Replay
  BY DEF StoreInv
<1>2. /\ txdepth > 0 /\ pc \in {"idle", "trigger"} /\ cell[r] = Freed /\ o # NoRow
      /\ cell' = [cell EXCEPT ![r] = now]
      /\ rows' = Append(Unlink(o), r)
      /\ index' = [index EXCEPT ![k] = r]
      /\ Log(<<e>>) /\ WriteFrame
  BY DEF Replace, MayWrite
<1>3. /\ o \in Linked /\ o \in Heap /\ o \in Rows /\ cell[o] # Freed /\ cell[o].key = k /\ cell[o] \in RowData
      /\ r \notin Heap /\ r \notin Linked /\ r # NoRow /\ r # o
  BY <1>2, TableFacts, StoreAssumption DEF Heap
<1>4. e \in Changes /\ e.change = "update" /\ e.before = o /\ e.after = r
  BY <1>3 DEF Updated, Changes
<1>5. now \in RowData /\ now # Freed /\ now.key = k
  BY StoreAssumption DEF RowData
<1>6. txdepth # 0
  BY <1>1, <1>2 DEF TypeOK
<1> HIDE DEF e, o, now
<1>7. /\ cell' \in Cells /\ index' \in Indexes /\ rows' \in Seq(Rows)
      /\ Linked' = (Linked \ {o}) \union {r} /\ IsInjective(rows)'
  <2>1. Unlink(o) \in Seq(Rows) /\ ToSet(Unlink(o)) = Linked \ {o} /\ IsInjective(Unlink(o))
    BY <1>3, UnlinkFacts, TableFacts
  <2>2. rows' \in Seq(Rows) /\ ToSet(rows') = (Linked \ {o}) \union {r} /\ IsInjective(rows')
    BY <1>2, <1>3, <2>1, AppendFacts
  <2> QED  BY <1>2, <1>5, <2>2, TableFacts DEF Cells, Indexes, Linked
<1>8. Heap' = Heap \union {r} /\ cell'[r] = now /\ \A z \in Rows : z # r => cell'[z] = cell[z]
  BY <1>2, <1>5, TableFacts DEF Heap, Cells
<1>9. /\ logs' = [logs EXCEPT ![txdepth] = <<e>> \o @]
      /\ <<e>> \in Seq(Changes) /\ Len(<<e>>) = 1 /\ <<e>>[1] = e /\ Befores(<<e>>) = {o}
  BY <1>1, <1>2, <1>3, <1>4, <1>6, LogOne
<1>10. /\ Books' /\ Control' /\ logs' \in [Depths -> Seq(Changes)]
       /\ AllBefores' = AllBefores \union {o}
  <2>1. Heap \subseteq Heap' /\ (Heap \ Linked) \cap Linked' = {}
    BY <1>3, <1>7, <1>8
  <2>2. o \in Heap' \ Linked' /\ o \notin Heap \ Linked /\ r \in Heap' /\ r \notin Heap \ Linked
    BY <1>3, <1>7, <1>8
  <2>3. \A i \in 1 .. Len(<<e>>) : <<e>>[i] = e /\ \A j \in 1 .. Len(<<e>>) : i = j /\ ~(i < j)
    BY <1>9
  <2> QED  BY ZenonT(40), <1>1, <1>2, <1>4, <1>9, <2>1, <2>2, <2>3, WriteKeepsBooks
<1>11. UNCHANGED <<txdepth, pc, cur, base, open, lost>>
  BY <1>2 DEF WriteFrame
<1>12. TypeOK'
  BY <1>1, <1>7, <1>10, <1>11 DEF TypeOK, Cells, Indexes
<1>13. IndexMatchesRows'
  <2>1. \A z \in Linked : z # o => z \in Rows /\ z # r /\ cell'[z] = cell[z] /\ cell[z] # Freed /\ cell[z].key # k
    BY <1>3, <1>8, TableFacts DEF Heap, o
  <2>2. \A q \in Keys : index'[q] = IF q = k THEN r ELSE index[q]
    BY <1>2, TableFacts DEF Indexes
  <2>3. \A z \in Linked' : cell'[z] # Freed /\ index'[cell'[z].key] = z
    BY <1>5, <1>7, <1>8, <2>1, <2>2, TableFacts
  <2>4. \A q \in Keys : index'[q] # NoRow => index'[q] \in Linked' /\ cell'[index'[q]].key = q
    <3> SUFFICES ASSUME NEW q \in Keys, index'[q] # NoRow
                 PROVE  index'[q] \in Linked' /\ cell'[index'[q]].key = q
      OBVIOUS
    <3>1. CASE q = k
      BY <1>5, <1>7, <1>8, <2>2, <3>1
    <3>2. CASE q # k
      <4>1. index'[q] = index[q] /\ index[q] \in Linked /\ cell[index[q]].key = q /\ index[q] # o
        BY <1>3, <2>2, <3>2, TableFacts
      <4> QED  BY <1>7, <2>1, <4>1
    <3> QED  BY <3>1, <3>2
  <2> QED  BY <1>7, <2>3, <2>4, IndexStep
<1>14. EveryRowAccounted'
  BY <1>3, <1>7, <1>8, <1>10, <1>11, TableFacts DEF EveryRowAccounted
<1>15. Replay'
  <2>1. Top \in Seq(Changes) /\ Top' = <<e>> \o Top /\ txdepth \in Depths /\ Top = logs[txdepth]
    BY <1>1, <1>2, <1>9, <1>11, LogFacts DEF Top
  <2>2. SUFFICES ASSUME pc = "idle", ~ReplacedOwnWrite(Top')
                 PROVE  Replays(cell', index', Top', base)
    BY <1>2, <1>11 DEF Replay
  <2>3. ~ReplacedOwnWrite(Top) /\ \A j \in 1 .. Len(Top) : Top[j].after # o
    <3>1. ~ReplacedOwnWrite(<<e>> \o Top)
      BY <2>1, <2>2
    <3>2. 1 \in 1 .. Len(<<e>>)
      BY <1>9
    <3> QED  BY <1>4, <1>9, <2>1, <3>1, <3>2, OlderChanges
  <2>4. Replays(cell, index, Top, base)
    BY <1>1, <1>2, <2>2, <2>3 DEF Replay
  <2>5. \A i \in DOMAIN Top : Top[i].before \notin {r, o} /\ Top[i].after \notin {r, o}
    <3> SUFFICES ASSUME NEW i \in DOMAIN Top  PROVE Top[i].before \notin {r, o} /\ Top[i].after \notin {r, o}
      OBVIOUS
    <3>1. i \in 1 .. Len(Top)
      BY <2>1, LenProperties
    <3>2. Top[i].before # NoRow => Top[i].before \in Heap \ Linked
      BY <1>1, <2>1 DEF Books, KeptApart
    <3>3. Top[i].after # NoRow => Top[i].after \in Heap
      BY <1>1, <1>2, <2>2 DEF Books, WrittenStays
    <3> QED  BY <1>2, <1>3, <2>3, <3>1, <3>2, <3>3
  <2> DEFINE d == ExchangedCells(r, o, cell)
             y == ExchangedIndex(r, o, index)
  <2>6. d \in Cells /\ y \in Indexes /\ Replays(d, y, Top, base)
    BY <1>3, <2>1, <2>4, <2>5, TableFacts, ExchangedFacts, ReplayExchanged
  <2>7. d = [cell' EXCEPT ![r] = cell'[o], ![o] = Freed]
    <3>1. ASSUME NEW z \in Rows  PROVE d[z] = IF z = o THEN Freed ELSE IF z = r THEN cell'[o] ELSE cell'[z]
      BY <1>2, <1>3, <1>8 DEF ExchangedCells, Exchanged
    <3> QED  BY <1>7, <2>6, <3>1 DEF Cells
  <2>8. y = [[index' EXCEPT ![k] = NoRow] EXCEPT ![k] = r]
    <3>1. ASSUME NEW q \in Keys  PROVE y[q] = IF q = k THEN r ELSE index'[q]
      <4>1. q # k => index[q] # o /\ index[q] # r
        BY <1>2, <1>3, TableFacts
      <4>2. index'[q] = IF q = k THEN r ELSE index[q]
        BY <1>2, TableFacts DEF Indexes
      <4>3. y[q] = Exchanged(r, o, index[q])
        BY DEF ExchangedIndex
      <4> QED  BY <4>1, <4>2, <4>3 DEF Exchanged, o
    <3> QED  BY <1>7, <2>6, <3>1 DEF Indexes
  <2> HIDE DEF d, y
  <2>9. Undone(e, cell', index', d, y)
    <3>1. cell'[o] # Freed /\ cell'[o].key = k /\ cell'[r] # Freed /\ cell'[r].key = k
      BY <1>3, <1>5, <1>8
    <3>2. index'[k] = r
      BY <1>2, TableFacts DEF Indexes
    <3> QED  BY <1>3, <1>4, <2>7, <2>8, <3>1, <3>2 DEF Undone, UndoneUpdate
  <2> QED  BY <1>4, <1>7, <2>1, <2>6, <2>9, ReplayOneFurther
<1> QED  BY <1>10, <1>12, <1>13, <1>14, <1>15 DEF StoreInv

\* Undoing a delete of all puts the rows back one after another.
LEMMA DeleteAllInvariant ==
    ASSUME StoreInv, DeleteAll
    PROVE  StoreInv'
<1> DEFINE n == Len(rows)
           new == Reverse([i \in DOMAIN rows |-> Deleted(rows[i])])
<1>1. TypeOK /\ Control /\ Books /\ Replay
  BY DEF StoreInv
<1>2. /\ pc \in {"idle", "trigger"}
      /\ index' = [k \in Keys |-> NoRow]
      /\ rows' = <<>>
      /\ cell' = IF txdepth = 0 THEN [r \in Rows |-> IF r \in Linked THEN Freed ELSE cell[r]] ELSE cell
      /\ Log(new) /\ WriteFrame
  BY DEF DeleteAll, MayWrite
<1>3. /\ n \in Nat /\ DOMAIN rows = 1 .. n /\ Linked \subseteq Rows /\ Linked \subseteq Heap
      /\ \A i \in 1 .. n : rows[i] \in Linked /\ rows[i] # NoRow
      /\ \A i, j \in 1 .. n : rows[i] = rows[j] => i = j
      /\ \A z \in Linked : \E i \in 1 .. n : z = rows[i]
  <2>1. n \in Nat /\ DOMAIN rows = 1 .. n
    BY TableFacts, LenProperties
  <2>2. Linked \subseteq Rows /\ Linked \subseteq Heap
    BY TableFacts DEF Heap
  <2> QED  BY <2>1, <2>2, TableFacts, StoreAssumption DEF Linked, ToSet, IsInjective
<1> DEFINE dels == [i \in DOMAIN rows |-> Deleted(rows[i])]
<1>4. /\ new \in Seq(Changes) /\ Len(new) = n
      /\ \A i \in 1 .. n : /\ n - i + 1 \in 1 .. n /\ new[i] = Deleted(rows[n - i + 1])
  <2>1. \A i \in 1 .. n : Deleted(rows[i]) \in Changes
    BY <1>3 DEF Deleted, Changes
  <2>2. dels \in Seq(Changes) /\ Len(dels) = n /\ \A i \in 1 .. n : dels[i] = Deleted(rows[i])
    BY <1>3, <2>1
  <2> HIDE DEF dels, n
  <2>3. Reverse(dels) = [i \in 1 .. n |-> dels[(n - i) + 1]]
    BY <2>2 DEF Reverse
  <2>4. \A i \in 1 .. n : n - i + 1 \in 1 .. n
    BY <1>3
  <2>5. \A i \in 1 .. n : dels[(n - i) + 1] = Deleted(rows[n - i + 1]) /\ dels[(n - i) + 1] \in Changes
    BY <2>1, <2>2, <2>4
  <2>6. Reverse(dels) \in Seq(Changes) /\ Len(Reverse(dels)) = n
    BY <1>3, <2>3, <2>5
  <2> QED  BY <2>3, <2>4, <2>5, <2>6 DEF dels
<1> HIDE DEF n, new, dels
<1>5. \A i \in 1 .. n : /\ new[i].change = "delete" /\ new[i].before = rows[n - i + 1] /\ new[i].after = NoRow
                        /\ new[i].before # NoRow
                        /\ new[i].before \in Linked
  BY <1>3, <1>4 DEF Deleted
<1>6. \A i, j \in 1 .. n : new[i].before = new[j].before => i = j
  <2> SUFFICES ASSUME NEW i \in 1 .. n, NEW j \in 1 .. n, new[i].before = new[j].before  PROVE i = j
    OBVIOUS
  <2>1. n - i + 1 = n - j + 1
    <3>1. n - i + 1 \in 1 .. n /\ n - j + 1 \in 1 .. n
      BY <1>4
    <3>2. rows[n - i + 1] = rows[n - j + 1]
      BY <1>5
    <3>3. \A a, b \in 1 .. n : rows[a] = rows[b] => a = b
      BY <1>3
    <3> QED  BY <3>1, <3>2, <3>3
  <2> QED  BY <1>3, <2>1
<1>7. Befores(new) = Linked
  <2>1. DOMAIN new = 1 .. n
    BY <1>4, LenProperties
  <2>2. Befores(new) \subseteq Linked
    BY <1>5, <2>1 DEF Befores
  <2>3. Linked \subseteq Befores(new)
    <3> SUFFICES ASSUME NEW z \in Linked  PROVE z \in Befores(new)
      OBVIOUS
    <3>1. PICK i \in 1 .. n : z = rows[i]
      BY <1>3
    <3>2. n - i + 1 \in 1 .. n /\ n - (n - i + 1) + 1 = i
      BY <1>3
    <3>3. new[n - i + 1].before = z /\ z # NoRow
      BY <1>5, <3>1, <3>2
    <3> QED  BY <2>1, <3>2, <3>3 DEF Befores
  <2> QED  BY <2>2, <2>3
<1>8. /\ cell' \in Cells /\ index' \in Indexes /\ rows' \in Seq(Rows)
      /\ Linked' = {} /\ IsInjective(rows)'
  <2>1. rows' \in Seq(Rows) /\ ToSet(rows') = {} /\ IsInjective(rows')
    BY <1>2 DEF ToSet, IsInjective
  <2> QED  BY <1>2, <2>1, TableFacts DEF Cells, Indexes, Linked
<1>9. Heap' = IF txdepth = 0 THEN Heap \ Linked ELSE Heap
  BY <1>2, <1>3, TableFacts DEF Heap, Cells
<1>10. txdepth # 0 => txdepth > 0 /\ logs' = [logs EXCEPT ![txdepth] = new \o @]
  BY <1>1, <1>2 DEF Log, TypeOK
<1>11. /\ Books' /\ Control' /\ logs' \in [Depths -> Seq(Changes)]
       /\ AllBefores' = IF txdepth = 0 THEN AllBefores ELSE AllBefores \union Linked
  <2>1. CASE txdepth = 0
    <3>1. UNCHANGED logs
      BY <1>2, <2>1 DEF Log
    <3> QED  BY <1>1, <1>2, <1>8, <1>9, <2>1, <3>1, PlainWriteKeepsBooks, TableFacts
  <2>2. CASE txdepth # 0
    <3>1. \A i \in 1 .. Len(new) : /\ new[i].before \in Heap' \ Linked'
                                   /\ new[i].before \notin Heap \ Linked
                                   /\ new[i].after = NoRow
                                   /\ \A j \in 1 .. Len(new) : new[i].before = new[j].before => i = j
      BY <1>3, <1>4, <1>5, <1>6, <1>8, <1>9, <2>2
    <3> QED  BY <1>1, <1>2, <1>4, <1>7, <1>8, <1>9, <1>10, <2>2, <3>1, WriteKeepsBooks
  <2> QED  BY <2>1, <2>2
<1>12. UNCHANGED <<txdepth, pc, cur, base, open, lost>>
  BY <1>2 DEF WriteFrame
<1>13. TypeOK'
  BY <1>1, <1>8, <1>11, <1>12 DEF TypeOK, Cells, Indexes
<1>14. IndexMatchesRows'
  BY <1>2, <1>8, IndexStep
<1>15. EveryRowAccounted'
  <2>1. Linked \cap (AllBefores \union lost \union ({cur.entry.before} \ {NoRow})) = {}
    BY <1>1, TableFacts DEF Books, CurApart, LostApart
  <2> QED  BY <1>8, <1>9, <1>11, <1>12, <2>1, TableFacts DEF EveryRowAccounted
<1>16. Replay'
  <2>1. CASE txdepth = 0
    BY <1>2, <1>12, <2>1 DEF Replay
  <2>2. CASE txdepth # 0
    <3>1. Top \in Seq(Changes) /\ Top' = new \o Top
      BY <1>1, <1>4, <1>10, <1>12, <2>2, LogFacts
    <3>2. SUFFICES ASSUME pc = "idle", ~ReplacedOwnWrite(Top')
                   PROVE  Replays(cell', index', Top', base)
      BY <1>2, <1>12 DEF Replay
    <3>3. Replays(cell, index, Top, base)
      <4>1. ~ReplacedOwnWrite(Top)
        BY <1>4, <3>1, <3>2, OlderChanges
      <4> QED  BY <1>1, <1>10, <2>2, <3>2, <4>1 DEF Replay
    <3> DEFINE Back(i) == {rows[q] : q \in {p \in 1 .. n : p > n - i}}
               cs == [i \in 0 .. n |-> cell]
               xs == [i \in 0 .. n |-> [k \in Keys |-> IF index[k] \in Back(i) THEN index[k] ELSE NoRow]]
    <3>4. cs \in [0 .. n -> Cells] /\ xs \in [0 .. n -> Indexes]
      <4>1. \A k \in Keys : index[k] \in Rows \union {NoRow}
        BY TableFacts DEF Indexes
      <4> QED  BY <4>1, TableFacts DEF Indexes
    <3>5. cs[0] = cell' /\ cs[n] = cell /\ xs[0] = index' /\ xs[n] = index
      <4>1. Back(0) = {}
        BY <1>3
      <4>2. \A k \in Keys : index[k] \in Back(n) \/ index[k] = NoRow
        <5> SUFFICES ASSUME NEW k \in Keys, index[k] # NoRow  PROVE index[k] \in Back(n)
          OBVIOUS
        <5>1. PICK i \in 1 .. n : index[k] = rows[i]
          BY <1>3, TableFacts
        <5>2. i > n - n
          BY <1>3
        <5> QED  BY <5>1, <5>2
      <4>3. 0 \in 0 .. n /\ n \in 0 .. n
        BY <1>3
      <4>4. xs[n] = [k \in Keys |-> index[k]]
        BY <4>2, <4>3
      <4> QED  BY <1>2, <2>2, <4>1, <4>3, <4>4, TableFacts DEF Indexes
    <3>6. ASSUME NEW i \in 1 .. n  PROVE Undone(new[i], cs[i - 1], xs[i - 1], cs[i], xs[i])
      <4> DEFINE p == n - i + 1
                 z == rows[p]
                 key == cell[z].key
      <4>1. i \in 0 .. n /\ i - 1 \in 0 .. n /\ p \in 1 .. n /\ cs[i - 1] = cell /\ cs[i] = cell
        BY <1>3
      <4>2. z \in Linked /\ z \in Rows /\ cell[z] # Freed /\ key \in Keys /\ index[key] = z /\ z # NoRow
        BY <1>3, <4>1, TableFacts DEF Heap
      <4>3. Back(i) = Back(i - 1) \union {z} /\ z \notin Back(i - 1)
        <5>1. {q \in 1 .. n : q > n - i} = {q \in 1 .. n : q > n - (i - 1)} \union {p}
          BY <1>3
        <5>2. ~(p > n - (i - 1))
          BY <1>3
        <5> QED  BY <1>3, <4>1, <5>1, <5>2
      <4>4. \A k \in Keys : k # key => index[k] # z
        BY <4>2, TableFacts
      <4> HIDE DEF Back, z, key
      <4>5. /\ xs[i - 1] = [k \in Keys |-> IF index[k] \in Back(i - 1) THEN index[k] ELSE NoRow]
            /\ xs[i] = [k \in Keys |-> IF index[k] \in Back(i) THEN index[k] ELSE NoRow]
        BY <4>1
      <4>6. xs[i - 1][key] = NoRow
        BY <4>2, <4>3, <4>5
      <4>7. xs[i] = [xs[i - 1] EXCEPT ![key] = z]
        BY <4>2, <4>3, <4>4, <4>5
      <4>8. new[i].change = "delete" /\ new[i].before = z
        BY <1>5 DEF z
      <4> HIDE DEF xs, cs
      <4> QED  BY <4>1, <4>2, <4>6, <4>7, <4>8 DEF Undone, UndoneDelete, key
    <3> HIDE DEF xs, cs
    <3>7. Snapshots(new, cs, xs)
      BY <1>4, <3>4, <3>6 DEF Snapshots
    <3>8. Replays(cs[Len(new)], xs[Len(new)], Top, base)
      BY <1>4, <3>3, <3>5
    <3>9. Replays(cs[0], xs[0], new \o Top, base)
      BY <1>4, <3>1, <3>7, <3>8, ReplayFurther
    <3> QED  BY <3>1, <3>5, <3>9
  <2> QED  BY <2>1, <2>2
<1> QED  BY <1>11, <1>13, <1>14, <1>15, <1>16 DEF StoreInv

\* Whatever a client writes keeps the invariant.
LEMMA WriteInvariant ==
    ASSUME StoreInv, Careless = {}, Write
    PROVE  StoreInv'
BY InsertInvariant, ReplaceInvariant, UpdateInvariant, DeleteInvariant, DeleteAllInvariant DEF Write

------------------------------------------------------------------------------
(* Transactions.                                                            *)

\* The table holds what its memory and index say.
LEMMA ContentsHolds ==
    ASSUME StoreInv
    PROVE  /\ Contents = Holds(cell, index)
           /\ Contents \in [Keys -> Vals \union {NoVal}]
<1>1. Contents = Holds(cell, index)
  BY TableFacts DEF Contents, Holds, Heap
<1>2. \A k \in Keys : index[k] \in Heap => cell[index[k]].val \in Vals
  <2> SUFFICES ASSUME NEW k \in Keys, index[k] \in Heap  PROVE cell[index[k]].val \in Vals
    OBVIOUS
  <2>1. cell[index[k]] \in RowData
    BY TableFacts DEF Heap
  <2> QED  BY <2>1 DEF RowData
<1> QED  BY <1>1, <1>2 DEF Contents

\* A log of which changes were taken away.
LEMMA ShorterLog ==
    ASSUME StoreInv, txdepth > 0, UNCHANGED txdepth,
           NEW s \in Seq(Changes), NEW o \in Nat, logs' = [logs EXCEPT ![txdepth] = s],
           \A i \in DOMAIN s : i + o \in DOMAIN Top /\ s[i] = Top[i + o]
    PROVE  /\ txdepth \in Depths /\ Top \in Seq(Changes) /\ Top' = s
           /\ logs' \in [Depths -> Seq(Changes)]
           /\ \A d \in Depths : d # txdepth => logs'[d] = logs[d]
           /\ \A d \in Depths : d > txdepth => logs'[d] = <<>>
           /\ KeptOnce'
           /\ \A d \in Depths : \A i \in DOMAIN logs'[d] :
                  \E j \in DOMAIN logs[d] : /\ logs'[d][i] = logs[d][j]
                                            /\ d = txdepth => j = i + o
           /\ AllBefores' \subseteq AllBefores
           /\ AllBefores \subseteq AllBefores' \union Befores(Top)
<1>1. txdepth \in Depths /\ logs \in [Depths -> Seq(Changes)] /\ Top = logs[txdepth]
  BY StoreAssumption DEF StoreInv, TypeOK, Depths, Top
<1>2. Top \in Seq(Changes)
  BY <1>1
<1>3. /\ Top' = s /\ logs' \in [Depths -> Seq(Changes)] /\ logs'[txdepth] = s
      /\ \A d \in Depths : d # txdepth => logs'[d] = logs[d]
  BY <1>1 DEF Top
<1>4. \A d \in Depths : d > txdepth => logs'[d] = <<>>
  <2>1. \A d \in Depths : d > txdepth => d # txdepth
    BY <1>1 DEF Depths
  <2> QED  BY <1>3, <2>1 DEF StoreInv, Control
<1> DEFINE Old(d, i) == IF d = txdepth THEN i + o ELSE i
<1>5. ASSUME NEW d \in Depths, NEW i \in DOMAIN logs'[d]
      PROVE  Old(d, i) \in DOMAIN logs[d] /\ logs'[d][i] = logs[d][Old(d, i)]
  BY <1>1, <1>3
<1>6. KeptOnce'
  <2> SUFFICES ASSUME NEW d \in Depths, NEW e \in Depths,
                      NEW i \in DOMAIN logs'[d], NEW j \in DOMAIN logs'[e],
                      logs'[d][i].before # NoRow, logs'[d][i].before = logs'[e][j].before
               PROVE  d = e /\ i = j
    BY DEF KeptOnce
  <2>1. d = e /\ Old(d, i) = Old(e, j)
    BY <1>5 DEF StoreInv, Books, KeptOnce
  <2>2. i \in Int /\ j \in Int
    BY <1>3, LenProperties
  <2> QED  BY <2>1, <2>2
<1>7. \A d \in Depths : \A i \in DOMAIN logs'[d] :
          \E j \in DOMAIN logs[d] : logs'[d][i] = logs[d][j] /\ (d = txdepth => j = i + o)
  BY <1>5
<1>8. AllBefores' \subseteq AllBefores
  BY <1>5 DEF AllBefores, Befores
<1>9. AllBefores \subseteq AllBefores' \union Befores(Top)
  <2> SUFFICES ASSUME NEW d \in Depths, NEW i \in DOMAIN logs[d], logs[d][i].before # NoRow
               PROVE  logs[d][i].before \in AllBefores' \union Befores(Top)
    BY DEF AllBefores, Befores
  <2>1. CASE d = txdepth
    BY <1>1, <2>1 DEF Befores
  <2>2. CASE d # txdepth
    BY <1>3, <2>2 DEF AllBefores, Befores
  <2> QED  BY <2>1, <2>2
<1> HIDE DEF Old
<1> QED  BY <1>1, <1>2, <1>3, <1>4, <1>6, <1>7, <1>8, <1>9

\* An empty table is sound.
LEMMA InitInvariant ==
    ASSUME StoreInit
    PROVE  StoreInv
<1> USE StoreAssumption DEF StoreInit
<1>1. /\ <<>> \in Seq(Rows) /\ <<>> \in Seq(Changes) /\ DOMAIN <<>> = {}
      /\ Linked = {} /\ Heap = {} /\ \A d \in Depths : logs[d] = <<>>
      /\ cur.entry.before = NoRow
  BY DEF Linked, ToSet, Heap, Idle, NoChange
<1>2. TypeOK
  <2>1. cur \in [entry : Changes \union {NoChange}, last : BOOLEAN]
    BY DEF Idle
  <2>2. txdepth \in 0 .. (TxDepthMax - 1)
    OBVIOUS
  <2> QED  BY <1>1, <2>1, <2>2 DEF TypeOK
<1>3. IndexMatchesRows
  BY <1>1 DEF IndexMatchesRows
<1>4. EveryRowAccounted
  BY <1>1 DEF EveryRowAccounted, AllBefores, Befores
<1>5. Books
  BY <1>1 DEF Books, KeptOnce, KeptApart, CurApart, LostApart, WrittenStays
<1>6. Control /\ Replay
  BY <1>1 DEF Control, Replay
<1> QED  BY <1>2, <1>3, <1>4, <1>5, <1>6 DEF StoreInv

\* A transaction begins: its snapshot is what the table holds.
LEMMA BeginInvariant ==
    ASSUME StoreInv, Begin
    PROVE  StoreInv'
<1>1. /\ pc = "idle" /\ txdepth < TxDepthMax - 1 /\ txdepth' = txdepth + 1 /\ base' = Contents
      /\ open' = open \union {txdepth + 1}
      /\ UNCHANGED <<cell, rows, index, logs, pc, cur, lost>>
  BY DEF Begin
<1>2. TypeOK /\ Control /\ Books /\ TxDepthMax \in Nat /\ txdepth \in Nat
  BY StoreAssumption DEF StoreInv, TypeOK
<1>3. txdepth' \in Depths /\ txdepth' > txdepth /\ logs[txdepth'] = <<>>
  BY <1>1, <1>2 DEF Control, Depths
<1>4. Top' = <<>> /\ DOMAIN <<>> = {}
  BY <1>1, <1>3 DEF Top
<1>5. Contents \in [Keys -> Vals \union {NoVal}]
  BY ContentsHolds
<1>6. TypeOK'
  <2>1. txdepth' \in 0 .. (TxDepthMax - 1) /\ open' \subseteq Depths
    BY <1>1, <1>2, <1>3 DEF TypeOK
  <2> QED  BY <1>1, <1>2, <1>5, <2>1 DEF TypeOK
<1>7. IndexMatchesRows' /\ EveryRowAccounted'
  BY <1>1 DEF StoreInv, IndexMatchesRows, EveryRowAccounted, Found, Linked, Heap, AllBefores, Befores
<1>8. Books'
  <2>1. KeptOnce' /\ KeptApart' /\ CurApart' /\ LostApart'
    BY <1>1, <1>2 DEF Books, KeptOnce, KeptApart, CurApart, LostApart, Linked, Heap
  <2>2. WrittenStays'
    BY <1>4 DEF WrittenStays
  <2> QED  BY <2>1, <2>2 DEF Books
<1>9. Control'
  <2>1. \A d \in Depths : d > txdepth' => d > txdepth
    BY <1>1, <1>2 DEF Depths
  <2> QED  BY <1>1, <1>2, <2>1 DEF Control
<1>10. Replay'
  BY <1>1, <1>4, ContentsHolds, TableFacts, ReplayNothing DEF Replay
<1> QED  BY <1>6, <1>7, <1>8, <1>9, <1>10 DEF StoreInv

\* The step of a commit that frees the old row of the change reported last.
LEMMA ReturnedFacts ==
    ASSUME StoreInv, cell' = [r \in Rows |-> IF r = cur.entry.before THEN Freed ELSE cell[r]],
           UNCHANGED <<rows, index>>
    PROVE  /\ cell' \in Cells
           /\ Heap' = Heap \ {cur.entry.before}
           /\ Linked' = Linked
           /\ IndexMatchesRows'
           /\ Contents' = Contents
<1>1. cell' \in Cells /\ Heap' = Heap \ {cur.entry.before} /\ Linked' = Linked
      /\ \A r \in Rows : r # cur.entry.before => cell'[r] = cell[r]
  BY TableFacts DEF Cells, Heap, Linked
<1>2. cur.entry.before \notin Linked
  BY TableFacts, StoreAssumption DEF StoreInv, Books, CurApart, Heap
<1>3. \A r \in Linked : cell'[r] = cell[r] /\ cell[r] # Freed
  BY <1>1, <1>2, TableFacts DEF Heap
<1>4. IndexMatchesRows'
  <2>1. IsInjective(rows)'
    BY TableFacts DEF IsInjective
  <2>2. \A r \in Linked' : cell'[r] # Freed /\ index'[cell'[r].key] = r
    BY <1>1, <1>3, TableFacts
  <2>3. \A k \in Keys : index'[k] # NoRow => index'[k] \in Linked' /\ cell'[index'[k]].key = k
    BY ZenonT(40), <1>1, <1>3, TableFacts
  <2> QED  BY <2>1, <2>2, <2>3, IndexStep
<1>5. Contents' = Contents
  <2>1. \A k \in Keys : /\ index[k] \in Heap <=> index[k] \in Heap'
                        /\ index[k] \in Heap => cell'[index[k]] = cell[index[k]]
    <3> SUFFICES ASSUME NEW k \in Keys
                 PROVE  /\ index[k] \in Heap <=> index[k] \in Heap'
                        /\ index[k] \in Heap => cell'[index[k]] = cell[index[k]]
      OBVIOUS
    <3>1. CASE index[k] = NoRow
      BY <3>1, <1>1, StoreAssumption DEF Heap
    <3>2. CASE index[k] # NoRow
      BY <1>1, <1>2, <1>3, <3>2, TableFacts
    <3> QED  BY <3>1, <3>2
  <2> QED  BY <2>1 DEF Contents
<1> QED  BY <1>1, <1>4, <1>5

\* Reporting the oldest change: it is in memory, and stays there until the
\* triggers have returned.
LEMMA ReportInvariant ==
    ASSUME StoreInv, txdepth > 0, pc \in {"idle", "trigger"}, Top # <<>>,
           NEW F, F \subseteq {cur.entry.before}, Report(Top, F),
           cell' = [r \in Rows |-> IF r = cur.entry.before THEN Freed ELSE cell[r]],
           UNCHANGED <<rows, index, txdepth, base, open, lost>>
    PROVE  StoreInv' /\ pc' = "trigger"
<1> DEFINE n == Len(Top)
           e == Top[n]
           s == Front(Top)
<1>1. TypeOK /\ Control /\ Books
  BY DEF StoreInv
<1>2. Top \in Seq(Changes) /\ txdepth \in Depths /\ Top = logs[txdepth]
  BY <1>1, StoreAssumption DEF TypeOK, Depths, Top
<1>3. n \in Nat \ {0} /\ DOMAIN Top = 1 .. n /\ \A i \in 1 .. n : Top[i] \in Changes
  BY <1>2, EmptySeq, LenProperties, ElementOfSeq
<1>4. s \in Seq(Changes) /\ DOMAIN s = 1 .. (n - 1) /\ Len(s) = n - 1 /\ \A i \in 1 .. (n - 1) : s[i] = Top[i]
  <2>1. /\ SubSeq(Top, 1, n - 1) \in Seq(Changes) /\ Len(SubSeq(Top, 1, n - 1)) = n - 1
        /\ \A i \in 1 .. (n - 1) : SubSeq(Top, 1, n - 1)[i] = Top[i]
    BY <1>3, SubSeqProperties
  <2> QED  BY <2>1, LenProperties DEF Front
<1>5. Last(Top) = e /\ e \in Changes
  BY <1>3 DEF Last
<1> HIDE DEF n, e, s
<1>6. /\ logs' = [logs EXCEPT ![txdepth] = s]
      /\ cur' = [entry |-> e, last |-> (n = 1)]
      /\ pc' = IF Dangling(e, F) THEN "broken" ELSE "trigger"
      /\ UNCHANGED <<rows, index, txdepth, base, open, lost>>
  BY <1>5 DEF Report, s, n
<1>7. \A i \in DOMAIN s : i + 0 \in DOMAIN Top /\ s[i] = Top[i + 0]
  BY <1>3, <1>4
<1>8. /\ Top' = s /\ logs' \in [Depths -> Seq(Changes)] /\ KeptOnce'
      /\ \A d \in Depths : d # txdepth => logs'[d] = logs[d]
      /\ \A d \in Depths : d > txdepth => logs'[d] = <<>>
      /\ \A d \in Depths : \A i \in DOMAIN logs'[d] :
             \E j \in DOMAIN logs[d] : logs'[d][i] = logs[d][j] /\ (d = txdepth => j = i + 0)
      /\ AllBefores' \subseteq AllBefores
  BY ZenonT(40), <1>4, <1>6, <1>7, 0 \in Nat, ShorterLog
<1>9. /\ cell' \in Cells /\ Heap' = Heap \ {cur.entry.before} /\ Linked' = Linked /\ IndexMatchesRows'
  BY ReturnedFacts
<1>10. n \in DOMAIN Top /\ e = Top[n]
  BY <1>3 DEF e
<1>11. e.before # NoRow => e.before \in Heap \ (Linked \union lost \union {cur.entry.before})
  BY <1>1, <1>2, <1>10 DEF Books, KeptApart
<1>12. e.after # NoRow => e.after \in Heap \ {cur.entry.before}
  BY <1>1, <1>10 DEF Books, WrittenStays
<1>13. pc' = "trigger"
  BY <1>6, <1>11, <1>12 DEF Dangling
<1>14. TypeOK'
  <2>1. cur' \in [entry : Changes \union {NoChange}, last : BOOLEAN]
    BY <1>5, <1>6 DEF e
  <2> QED  BY <1>1, <1>6, <1>8, <1>9, <1>13, <2>1 DEF TypeOK, Cells
<1>15. \A d \in Depths : \A i \in DOMAIN logs'[d] : logs'[d][i].before # NoRow => logs'[d][i].before # e.before
  <2> SUFFICES ASSUME NEW d \in Depths, NEW i \in DOMAIN logs'[d],
                      logs'[d][i].before # NoRow, logs'[d][i].before = e.before
               PROVE  FALSE
    OBVIOUS
  <2>1. PICK j \in DOMAIN logs[d] : logs'[d][i] = logs[d][j] /\ (d = txdepth => j = i + 0)
    BY <1>8
  <2>2. d = txdepth /\ j = n
    BY <1>1, <1>2, <1>10, <2>1 DEF Books, KeptOnce
  <2>3. i \in 1 .. (n - 1)
    BY <1>2, <1>4, <1>8, <2>2 DEF Top
  <2> QED  BY <1>3, <2>1, <2>2, <2>3
<1>16. KeptApart'
  <2> SUFFICES ASSUME NEW d \in Depths, NEW i \in DOMAIN logs'[d], logs'[d][i].before # NoRow
               PROVE  logs'[d][i].before \in Heap' \ (Linked' \union lost \union {e.before})
    BY <1>6 DEF KeptApart
  <2>1. PICK j \in DOMAIN logs[d] : logs'[d][i] = logs[d][j]
    BY <1>8
  <2>2. logs[d][j].before \in Heap \ (Linked \union lost \union {cur.entry.before})
    BY <1>1, <2>1 DEF Books, KeptApart
  <2> QED  BY <1>9, <1>15, <2>1, <2>2
<1>17. CurApart' /\ LostApart'
  <2>1. lost \subseteq Heap' \ Linked'
    <3>1. lost \subseteq Heap \ Linked /\ NoRow \notin Heap
      BY <1>1, StoreAssumption DEF Books, LostApart, Heap
    <3>2. cur.entry.before \notin lost
      BY <1>1, <3>1 DEF Books, CurApart
    <3> QED  BY <1>9, <3>1, <3>2
  <2>2. e.before # NoRow => e.before \in Heap' \ (Linked' \union lost)
    BY <1>9, <1>11
  <2> QED  BY <1>6, <2>1, <2>2 DEF CurApart, LostApart
<1>18. WrittenStays'
  <2> SUFFICES ASSUME NEW i \in 1 .. (n - 1), s[i].after # NoRow
               PROVE  /\ s[i].after \in Heap' \ {e.before}
                      /\ \A j \in 1 .. (n - 1) : i < j => s[j].before # s[i].after
    BY <1>4, <1>6, <1>8 DEF WrittenStays
  <2>1. i \in DOMAIN Top /\ s[i] = Top[i] /\ i < n
    BY <1>3, <1>4
  <2>2. /\ Top[i].after \in Heap \ {cur.entry.before}
        /\ \A j \in DOMAIN Top : i < j => Top[j].before # Top[i].after
    BY <1>1, <2>1 DEF Books, WrittenStays
  <2>3. s[i].after # e.before
    BY <1>10, <2>1, <2>2
  <2>4. \A j \in 1 .. (n - 1) : j \in DOMAIN Top /\ s[j] = Top[j]
    BY <1>3, <1>4
  <2> QED  BY <1>9, <2>1, <2>2, <2>3, <2>4
<1>19. Control'
  <2>1. ~(n = 1) => s # <<>>
    <3>1. Len(<<>>) = 0
      OBVIOUS
    <3> QED  BY <1>3, <1>4, <3>1
  <2> QED  BY <1>6, <1>8, <1>13, <2>1 DEF Control
<1>20. EveryRowAccounted'
  <2>1. AllBefores \subseteq AllBefores' \union {e.before}
    <3> SUFFICES ASSUME NEW d \in Depths, NEW i \in DOMAIN logs[d], logs[d][i].before # NoRow,
                        logs[d][i].before # e.before
                 PROVE  logs[d][i].before \in AllBefores'
      BY DEF AllBefores, Befores
    <3>1. i \in DOMAIN logs'[d] /\ logs'[d][i] = logs[d][i]
      <4>1. CASE d # txdepth
        BY <1>8, <4>1
      <4>2. CASE d = txdepth
        <5>1. i \in 1 .. n /\ i # n
          BY <1>2, <1>3, <1>10, <4>2
        <5>2. i \in 1 .. (n - 1)
          BY <1>3, <5>1
        <5>3. logs'[d] = s
          BY <1>6, <1>8, <4>2 DEF Top
        <5> QED  BY <1>2, <1>4, <4>2, <5>2, <5>3
      <4> QED  BY <4>1, <4>2
    <3> QED  BY <3>1 DEF AllBefores, Befores
  <2>2. e.before # NoRow => e.before \in Heap'
    BY <1>9, <1>11
  <2>3. AllBefores' \subseteq Heap'
    BY <1>16 DEF AllBefores, Befores, KeptApart
  <2>4. lost \subseteq Heap'
    BY <1>6, <1>17 DEF LostApart
  <2>5. Linked \subseteq Heap'
    <3>1. cur.entry.before \notin Linked
      BY <1>1, TableFacts, StoreAssumption DEF Books, CurApart, Heap
    <3> QED  BY <1>9, <3>1, TableFacts
  <2>6. Heap = Linked \union AllBefores \union ({cur.entry.before} \ {NoRow}) \union lost
    BY TableFacts
  <2>7. NoRow \notin Heap'
    BY StoreAssumption DEF Heap
  <2>8. Heap' = Linked \union AllBefores' \union ({e.before} \ {NoRow}) \union lost
    BY <1>9, <2>1, <2>2, <2>3, <2>4, <2>5, <2>6, <2>7
  <2>9. Linked' = Linked /\ lost' = lost /\ cur'.entry.before = e.before
    BY <1>6, <1>9
  <2> QED  BY <2>8, <2>9 DEF EveryRowAccounted
<1>21. Replay'
  BY <1>13 DEF Replay
<1> QED  BY <1>8, <1>9, <1>13, <1>14, <1>16, <1>17, <1>18, <1>19, <1>20, <1>21 DEF StoreInv, Books

\* A commit starts to walk the log of the innermost transaction.
LEMMA CommitInvariant ==
    ASSUME StoreInv, Commit
    PROVE  StoreInv'
<1>1. pc = "idle" /\ txdepth > 0 /\ UNCHANGED <<cell, rows, index, txdepth, lost>> /\ TypeOK /\ Control /\ Books
  BY DEF Commit, StoreInv
<1>2. cur = Idle /\ cur.entry.before = NoRow
  BY <1>1 DEF Control, Idle, NoChange
<1>3. CASE Top = <<>>
  <2>1. pc' = "idle" /\ cur' = Idle /\ open' = open \ {txdepth} /\ base' = Contents /\ UNCHANGED logs
    BY <1>3 DEF Commit, Finish
  <2>2. UNCHANGED <<cell, rows, index, txdepth, lost, logs, pc, cur>>
    BY <1>1, <1>2, <2>1
  <2>3. TypeOK'
    BY <1>1, <2>1, <2>2, ContentsHolds DEF TypeOK
  <2>4. IndexMatchesRows' /\ EveryRowAccounted'
    BY <2>2 DEF StoreInv, IndexMatchesRows, EveryRowAccounted, Found, Linked, Heap, AllBefores, Befores
  <2>5. Books' /\ Control'
    BY <1>1, <2>2 DEF Books, KeptOnce, KeptApart, CurApart, LostApart, WrittenStays, Control, Linked, Heap, Top
  <2>6. Replay'
    <3>1. Top' = <<>>
      BY <1>3, <2>2 DEF Top
    <3> QED  BY <2>1, <2>2, <3>1, ContentsHolds, TableFacts, ReplayNothing DEF Replay
  <2> QED  BY <2>3, <2>4, <2>5, <2>6 DEF StoreInv
<1>4. CASE Top # <<>>
  <2>1. Report(Top, {}) /\ UNCHANGED <<base, open>>
    BY <1>4 DEF Commit
  <2>2. cell' = [r \in Rows |-> IF r = cur.entry.before THEN Freed ELSE cell[r]]
    BY <1>1, <1>2, TableFacts, StoreAssumption DEF Cells
  <2>3. {} \subseteq {cur.entry.before}
    OBVIOUS
  <2> QED  BY <1>1, <1>4, <2>1, <2>2, <2>3, ReportInvariant
<1> QED  BY <1>3, <1>4

\* A trigger callback returned: the rows its change kept are freed, and the
\* walk goes on to the next change.
LEMMA CommitNextInvariant ==
    ASSUME StoreInv, CommitNext
    PROVE  StoreInv'
<1>1. /\ pc = "trigger" /\ ~cur.last /\ Report(Top, {cur.entry.before})
      /\ cell' = [r \in Rows |-> IF r = cur.entry.before THEN Freed ELSE cell[r]]
      /\ UNCHANGED <<rows, index, txdepth, base, open, lost>>
  BY DEF CommitNext, TriggerReturned
<1>2. txdepth > 0 /\ Top # <<>>
  BY <1>1 DEF StoreInv, Control
<1>3. {cur.entry.before} \subseteq {cur.entry.before}
  OBVIOUS
<1> QED  BY <1>1, <1>2, <1>3, ReportInvariant

\* What the callbacks logged during the last change's report is thrown away:
\* the rows it kept stay in memory, out of the table.
LEMMA CommitEndInvariant ==
    ASSUME StoreInv, CommitEnd
    PROVE  StoreInv'
<1> DEFINE b == cur.entry.before
<1>1. /\ pc = "trigger" /\ pc' = "idle" /\ cur' = Idle /\ open' = open \ {txdepth}
      /\ cell' = [r \in Rows |-> IF r = b THEN Freed ELSE cell[r]]
      /\ UNCHANGED <<rows, index, txdepth>>
      /\ logs' = [logs EXCEPT ![txdepth] = <<>>]
      /\ lost' = lost \union Befores(Top)
      /\ base' = Contents
  BY DEF CommitEnd, TriggerReturned, Finish
<1>2. TypeOK /\ Control /\ Books /\ txdepth > 0
  BY <1>1 DEF StoreInv, Control
<1>3. /\ cell' \in Cells /\ Heap' = Heap \ {b} /\ Linked' = Linked /\ IndexMatchesRows' /\ Contents' = Contents
  BY <1>1, ReturnedFacts
<1>4. <<>> \in Seq(Changes) /\ DOMAIN <<>> = {} /\ 0 \in Nat
  OBVIOUS
<1>5. /\ txdepth \in Depths /\ Top \in Seq(Changes) /\ Top' = <<>>
      /\ logs' \in [Depths -> Seq(Changes)]
      /\ \A d \in Depths : d # txdepth => logs'[d] = logs[d]
      /\ \A d \in Depths : d > txdepth => logs'[d] = <<>>
      /\ KeptOnce'
      /\ AllBefores' \subseteq AllBefores /\ AllBefores \subseteq AllBefores' \union Befores(Top)
  BY <1>1, <1>2, <1>4, ShorterLog
<1>6. Top = logs[txdepth] /\ logs'[txdepth] = <<>>
  BY <1>1, <1>5 DEF Top
<1>7. Befores(Top) \subseteq Heap \ (Linked \union lost \union {b})
  BY <1>2, <1>5, <1>6 DEF Books, KeptApart, Befores
<1>8. lost \subseteq Heap \ Linked /\ b \notin lost /\ b \notin Linked /\ NoRow \notin Heap
  BY <1>2, TableFacts, StoreAssumption DEF Books, LostApart, CurApart, Heap
<1> HIDE DEF b
<1>9. TypeOK'
  <2>1. cur' \in [entry : Changes \union {NoChange}, last : BOOLEAN]
    BY <1>1 DEF Idle
  <2>2. lost' \subseteq Rows
    BY <1>1, <1>2, <1>7 DEF TypeOK, Heap
  <2> QED  BY <1>1, <1>2, <1>3, <1>5, <2>1, <2>2, ContentsHolds DEF TypeOK, Cells
<1>10. cur'.entry.before = NoRow
  BY <1>1 DEF Idle, NoChange
<1>11. KeptApart'
  <2> SUFFICES ASSUME NEW d \in Depths, NEW i \in DOMAIN logs'[d], logs'[d][i].before # NoRow
               PROVE  logs'[d][i].before \in Heap' \ (Linked' \union lost' \union {NoRow})
    BY <1>10 DEF KeptApart
  <2>1. d # txdepth /\ logs'[d] = logs[d]
    BY <1>4, <1>5, <1>6
  <2>2. logs[d][i].before \in Heap \ (Linked \union lost \union {b})
    BY <1>2, <2>1 DEF Books, KeptApart, b
  <2>3. logs[d][i].before \notin Befores(Top)
    BY <1>2, <1>5, <1>6, <2>1 DEF Books, KeptOnce, Befores
  <2> QED  BY <1>1, <1>3, <2>1, <2>2, <2>3
<1>12. CurApart' /\ LostApart' /\ WrittenStays'
  <2>1. LostApart'
    BY <1>1, <1>3, <1>7, <1>8 DEF LostApart
  <2>2. CurApart' /\ WrittenStays'
    BY <1>4, <1>5, <1>10 DEF CurApart, WrittenStays
  <2> QED  BY <2>1, <2>2
<1>13. Control'
  BY <1>1, <1>5 DEF Control
<1>14. EveryRowAccounted'
  <2>1. Heap = Linked \union AllBefores \union ({b} \ {NoRow}) \union lost
    BY TableFacts DEF b
  <2>2. AllBefores' \subseteq Heap'
    BY <1>11 DEF AllBefores, Befores, KeptApart
  <2>3. Linked \subseteq Heap'
    BY <1>3, <1>8, TableFacts
  <2>4. lost' \subseteq Heap'
    BY <1>1, <1>3, <1>7, <1>8
  <2>5. Heap' = Linked \union AllBefores' \union lost'
    BY <1>1, <1>3, <1>5, <2>1, <2>2, <2>3, <2>4
  <2> QED  BY <1>3, <1>10, <2>5 DEF EveryRowAccounted
<1>15. Replay'
  <2>1. cell' \in Cells /\ index' \in Indexes /\ base' = Holds(cell', index')
    <3>1. \A k \in Keys : /\ index'[k] = index[k]
                          /\ (index[k] \in Rows /\ cell[index[k]] # Freed) <=> (index[k] \in Rows /\ cell'[index[k]] # Freed)
                          /\ index[k] \in Rows => index[k] # b /\ cell'[index[k]] = cell[index[k]]
      <4> SUFFICES ASSUME NEW k \in Keys
                   PROVE  /\ index'[k] = index[k]
                          /\ index[k] \in Rows => index[k] # b /\ cell'[index[k]] = cell[index[k]]
        OBVIOUS
      <4>1. index[k] \in Rows => index[k] # b
        BY <1>8, TableFacts, StoreAssumption
      <4> QED  BY <1>1, <4>1
    <3>2. Holds(cell', index') = Holds(cell, index)
      BY <3>1 DEF Holds
    <3> QED  BY <1>1, <1>3, <3>2, ContentsHolds, TableFacts
  <2> QED  BY <1>1, <1>5, <2>1, ReplayNothing DEF Replay
<1> QED  BY <1>3, <1>5, <1>9, <1>11, <1>12, <1>13, <1>14, <1>15 DEF StoreInv, Books

\* A rollback starts to walk the log of the innermost transaction backwards.
LEMMA RollbackInvariant ==
    ASSUME StoreInv, Careless = {}, Rollback
    PROVE  StoreInv'
<1>1. /\ pc = "idle" /\ txdepth > 0 /\ ~ReplacedOwnWrite(Top) /\ pc' = "rollback"
      /\ UNCHANGED <<cell, rows, index, txdepth, logs, cur, base, open, lost>>
  BY DEF Rollback
<1>2. TypeOK /\ Control /\ Books /\ Replay
  BY DEF StoreInv
<1>3. TypeOK' /\ Control'
  BY <1>1, <1>2 DEF TypeOK, Control, Top
<1>4. IndexMatchesRows' /\ EveryRowAccounted'
  BY <1>1 DEF StoreInv, IndexMatchesRows, EveryRowAccounted, Found, Linked, Heap, AllBefores, Befores
<1>5. Books'
  BY <1>1, <1>2 DEF Books, KeptOnce, KeptApart, CurApart, LostApart, WrittenStays, Linked, Heap
<1>6. Replay'
  BY <1>1, <1>2 DEF Replay, Top
<1> QED  BY <1>3, <1>4, <1>5, <1>6 DEF StoreInv

\* In a rollback, the newest change can be undone.
LEMMA UndoPossible ==
    ASSUME StoreInv, pc = "rollback", Top # <<>>
    PROVE  \E d \in Cells, y \in Indexes :
               Undone(Head(Top), cell, index, d, y) /\ Replays(d, y, Tail(Top), base)
<1>1. Top \in Seq(Changes) /\ Replays(cell, index, Top, base)
  BY StoreAssumption DEF StoreInv, TypeOK, Control, Replay, Depths, Top
<1> QED  BY <1>1, ReplayNext

\* One step of a rollback: the row that the change kept comes back or is
\* freed, and every other row the log keeps stays.
LEMMA UndoInvariant ==
    ASSUME StoreInv, NEW change, Undo(change), UNCHANGED pc,
           cell' \in Cells, index' \in Indexes, rows' \in Seq(Rows), IndexMatchesRows',
           Linked' \subseteq Heap', Heap' \ Linked' = (Heap \ Linked) \ {Head(Top).before},
           Replays(cell', index', Tail(Top), base)
    PROVE  StoreInv'
<1> DEFINE h == Head(Top).before
           s == Tail(Top)
           n == Len(Top)
<1>1. TypeOK /\ Control /\ Books
  BY DEF StoreInv
<1>2. /\ pc = "rollback" /\ Top # <<>> /\ txdepth > 0 /\ cur = Idle /\ cur.entry.before = NoRow
      /\ logs' = [logs EXCEPT ![txdepth] = Tail(@)]
      /\ UNCHANGED <<txdepth, cur, base, open, lost, pc>>
  BY <1>1 DEF Undo, Control, Idle, NoChange
<1>3. Top \in Seq(Changes) /\ txdepth \in Depths /\ Top = logs[txdepth] /\ logs' = [logs EXCEPT ![txdepth] = s]
  BY <1>1, <1>2, StoreAssumption DEF TypeOK, Depths, Top
<1>4. n \in Nat \ {0} /\ DOMAIN Top = 1 .. n /\ h = Top[1].before
  BY <1>2, <1>3, EmptySeq, LenProperties
<1>5. s \in Seq(Changes) /\ Len(s) = n - 1 /\ \A i \in 1 .. n - 1 : s[i] = Top[i + 1]
  BY <1>2, <1>3, HeadTailProperties
<1>6. DOMAIN s = 1 .. n - 1
  BY <1>5, LenProperties
<1> HIDE DEF n, s, h
<1>7. \A i \in DOMAIN s : i + 1 \in DOMAIN Top /\ s[i] = Top[i + 1]
  BY <1>4, <1>5, <1>6
<1>8. /\ Top' = s /\ logs' \in [Depths -> Seq(Changes)] /\ KeptOnce'
      /\ \A d \in Depths : d # txdepth => logs'[d] = logs[d]
      /\ \A d \in Depths : d > txdepth => logs'[d] = <<>>
      /\ \A d \in Depths : \A i \in DOMAIN logs'[d] :
             \E j \in DOMAIN logs[d] : logs'[d][i] = logs[d][j] /\ (d = txdepth => j = i + 1)
      /\ AllBefores' \subseteq AllBefores
  <2> DEFINE o == 1
  <2>1. o \in Nat /\ txdepth > 0 /\ txdepth' = txdepth /\ \A i \in DOMAIN s : i + o \in DOMAIN Top /\ s[i] = Top[i + o]
    BY <1>2, <1>7
  <2>2. s \in Seq(Changes) /\ logs' = [logs EXCEPT ![txdepth] = s]
    BY <1>3, <1>5
  <2>3. /\ Top' = s /\ logs' \in [Depths -> Seq(Changes)] /\ KeptOnce'
        /\ \A d \in Depths : d # txdepth => logs'[d] = logs[d]
        /\ \A d \in Depths : d > txdepth => logs'[d] = <<>>
        /\ \A d \in Depths : \A i \in DOMAIN logs'[d] :
               \E j \in DOMAIN logs[d] : /\ logs'[d][i] = logs[d][j]
                                         /\ d = txdepth => j = i + o
        /\ AllBefores' \subseteq AllBefores
    <3> HIDE DEF o
    <3> QED  BY ZenonT(40), <2>1, <2>2, ShorterLog
  <2> QED  BY <2>3
<1>9. \A d \in Depths : \A i \in DOMAIN logs'[d] : logs'[d][i].before # NoRow => logs'[d][i].before # h
  <2> SUFFICES ASSUME NEW d \in Depths, NEW i \in DOMAIN logs'[d],
                      logs'[d][i].before # NoRow, logs'[d][i].before = h
               PROVE  FALSE
    OBVIOUS
  <2>1. PICK j \in DOMAIN logs[d] : logs'[d][i] = logs[d][j] /\ (d = txdepth => j = i + 1)
    BY <1>8
  <2>2. 1 \in DOMAIN logs[txdepth] /\ logs[txdepth][1].before = h
    BY <1>3, <1>4
  <2>3. d = txdepth /\ j = 1
    BY <1>1, <1>3, <2>1, <2>2 DEF Books, KeptOnce
  <2>4. i \in 1 .. n - 1
    BY <1>6, <1>8, <2>3, <1>2 DEF Top
  <2> QED  BY <1>4, <2>1, <2>3, <2>4
<1>10. Heap' \ Linked' = (Heap \ Linked) \ {h}
  BY DEF h
<1>11. KeptApart'
  <2> SUFFICES ASSUME NEW d \in Depths, NEW i \in DOMAIN logs'[d], logs'[d][i].before # NoRow
               PROVE  logs'[d][i].before \in Heap' \ (Linked' \union lost \union {cur.entry.before})
    BY <1>2 DEF KeptApart
  <2>1. PICK j \in DOMAIN logs[d] : logs'[d][i] = logs[d][j]
    BY <1>8
  <2>2. logs[d][j].before \in Heap \ (Linked \union lost \union {cur.entry.before})
    BY <1>1, <2>1 DEF Books, KeptApart
  <2> QED  BY <1>9, <1>10, <2>1, <2>2
<1>12. h # NoRow => h \in Heap \ (Linked \union lost)
  <2>1. 1 \in DOMAIN logs[txdepth] /\ logs[txdepth][1].before = h
    BY <1>3, <1>4
  <2> QED  BY <1>1, <1>3, <2>1 DEF Books, KeptApart
<1>13. CurApart' /\ LostApart' /\ WrittenStays'
  <2>1. NoRow \notin Heap
    BY StoreAssumption DEF Heap
  <2> QED  BY <1>1, <1>2, <1>10, <1>12, <2>1 DEF CurApart, LostApart, WrittenStays, Books
<1>14. TypeOK'
  BY <1>1, <1>2, <1>8 DEF TypeOK, Cells, Indexes
<1>15. Control'
  BY <1>1, <1>2, <1>8 DEF Control
<1>16. EveryRowAccounted'
  <2>1. AllBefores \subseteq AllBefores' \union {h}
    <3> SUFFICES ASSUME NEW d \in Depths, NEW i \in DOMAIN logs[d], logs[d][i].before # NoRow,
                        logs[d][i].before # h
                 PROVE  logs[d][i].before \in AllBefores'
      BY DEF AllBefores, Befores
    <3>1. CASE d # txdepth
      BY <1>8, <3>1 DEF AllBefores, Befores
    <3>2. CASE d = txdepth
      <4>1. i \in 1 .. n /\ i # 1
        BY <1>3, <1>4, <3>2
      <4>2. i - 1 \in 1 .. n - 1 /\ (i - 1) + 1 = i
        BY <1>4, <4>1
      <4>3. logs'[d] = s
        BY <1>2, <1>8, <3>2 DEF Top
      <4>4. i - 1 \in DOMAIN logs'[d] /\ logs'[d][i - 1] = logs[d][i]
        BY <1>3, <1>5, <1>6, <3>2, <4>2, <4>3
      <4> QED  BY <4>4 DEF AllBefores, Befores
    <3> QED  BY <3>1, <3>2
  <2>2. AllBefores' \subseteq Heap' \ Linked'
    BY <1>11 DEF AllBefores, Befores, KeptApart
  <2>3. lost \subseteq Heap' \ Linked'
    BY <1>2, <1>13 DEF LostApart
  <2>4. Heap = Linked \union AllBefores \union lost
    BY <1>2, TableFacts
  <2>5. Heap' \ Linked' = AllBefores' \union lost
    BY <1>10, <2>1, <2>2, <2>3, <2>4
  <2> QED  BY <1>2, <2>5 DEF EveryRowAccounted
<1>17. Replay'
  BY <1>2, <1>8 DEF Replay, s
<1> QED  BY <1>8, <1>11, <1>13, <1>14, <1>15, <1>16, <1>17 DEF StoreInv, Books

\* Undoing an insert takes the row out again and frees it.
LEMMA UndoInsertInvariant ==
    ASSUME StoreInv, UndoInsert
    PROVE  StoreInv' /\ pc' = pc
<1> DEFINE e == Head(Top)
           r == e.after
<1>1. Undo("insert") /\ pc = "rollback" /\ Top # <<>> /\ e.change = "insert"
  BY DEF UndoInsert, Undo
<1>2. PICK d \in Cells, y \in Indexes : Undone(e, cell, index, d, y) /\ Replays(d, y, Tail(Top), base)
  BY <1>1, UndoPossible
<1>3. e.before = NoRow /\ r \in Rows /\ UndoneInsert(e, cell, index, d, y)
  BY <1>1, <1>2 DEF Undone
<1>4. Found(r)
  BY <1>3 DEF UndoneInsert, Found
<1>5. index' = y /\ cell' = d /\ rows' = Unlink(r) /\ UNCHANGED pc
  BY <1>3, <1>4 DEF UndoInsert, UndoneInsert
<1> DEFINE k == cell[r].key
<1>6. cell[r] # Freed /\ r \in Heap /\ k \in Keys /\ index[k] = r /\ r # NoRow
  BY <1>3, <1>4, TableFacts, StoreAssumption DEF Found, Heap, RowData
<1>7. r \in Linked
  BY <1>6, TableFacts
<1>8. cell' = [cell EXCEPT ![r] = Freed] /\ index' = [index EXCEPT ![k] = NoRow]
  BY <1>3, <1>5 DEF UndoneInsert
<1>9. e.before = NoRow /\ NoRow \notin Heap
  BY <1>3, StoreAssumption DEF Heap
<1> HIDE DEF e, r, k
<1>10. rows' \in Seq(Rows) /\ Linked' = Linked \ {r} /\ IsInjective(rows)'
  <2>1. rows' \in Seq(Rows) /\ ToSet(rows') = Linked \ {r} /\ IsInjective(rows')
    BY <1>5, <1>7, TableFacts, UnlinkFacts
  <2> QED  BY <2>1 DEF Linked
<1>11. Heap' = Heap \ {r} /\ \A z \in Rows : z # r => cell'[z] = cell[z]
  BY <1>3, <1>8, TableFacts DEF Heap, Cells
<1>12. IndexMatchesRows'
  <2>1. \A q \in Keys : index'[q] = IF q = k THEN NoRow ELSE index[q]
    BY <1>8, TableFacts DEF Indexes
  <2>2. \A z \in Linked' : cell'[z] = cell[z] /\ cell[z] # Freed /\ cell[z].key # k
    BY <1>6, <1>10, <1>11, TableFacts DEF Heap
  <2>3. \A z \in Linked' : cell'[z] # Freed /\ index'[cell'[z].key] = z
    BY <1>10, <2>1, <2>2, TableFacts
  <2>4. \A q \in Keys : index'[q] # NoRow => index'[q] \in Linked' /\ cell'[index'[q]].key = q
    <3> SUFFICES ASSUME NEW q \in Keys, index'[q] # NoRow
                 PROVE  index'[q] \in Linked' /\ cell'[index'[q]].key = q
      OBVIOUS
    <3>1. q # k /\ index'[q] = index[q] /\ index[q] \in Linked /\ cell[index[q]].key = q
      BY <2>1, TableFacts
    <3>2. index[q] # r
      BY <3>1 DEF k
    <3> QED  BY <1>10, <2>2, <3>1, <3>2
  <2> QED  BY <1>10, <2>3, <2>4, IndexStep
<1>13. Linked' \subseteq Heap' /\ Heap' \ Linked' = (Heap \ Linked) \ {Head(Top).before}
  BY <1>7, <1>9, <1>10, <1>11, TableFacts DEF e
<1> QED  BY <1>1, <1>2, <1>5, <1>10, <1>12, <1>13, UndoInvariant

\* Undoing a delete links the row again.
LEMMA UndoDeleteInvariant ==
    ASSUME StoreInv, UndoDelete
    PROVE  StoreInv' /\ pc' = pc
<1> DEFINE e == Head(Top)
           r == e.before
<1>1. Undo("delete") /\ pc = "rollback" /\ Top # <<>> /\ e.change = "delete"
  BY DEF UndoDelete, Undo
<1>2. PICK d \in Cells, y \in Indexes : Undone(e, cell, index, d, y) /\ Replays(d, y, Tail(Top), base)
  BY <1>1, UndoPossible
<1>3. r \in Rows /\ UndoneDelete(e, cell, index, d, y)
  BY <1>1, <1>2 DEF Undone
<1> DEFINE k == cell[r].key
<1>4. cell[r] # Freed /\ index[k] = NoRow
  BY <1>3 DEF UndoneDelete
<1>5. index' = y /\ cell' = d /\ rows' = Append(rows, r) /\ UNCHANGED pc
  BY <1>3, <1>4 DEF UndoDelete, UndoneDelete
<1>6. r \in Heap /\ k \in Keys /\ r # NoRow
  BY <1>3, <1>4, TableFacts, StoreAssumption DEF Heap, RowData
<1>7. r \notin Linked
  BY <1>4, <1>6, TableFacts
<1>8. cell' = cell /\ index' = [index EXCEPT ![k] = r]
  BY <1>3, <1>5 DEF UndoneDelete
<1> HIDE DEF e, r, k
<1>9. rows' \in Seq(Rows) /\ Linked' = Linked \union {r} /\ IsInjective(rows)'
  <2>1. rows' \in Seq(Rows) /\ ToSet(rows') = ToSet(rows) \union {r} /\ IsInjective(rows')
    BY <1>3, <1>5, <1>7, TableFacts, AppendFacts DEF Linked
  <2> QED  BY <2>1 DEF Linked
<1>10. Heap' = Heap
  BY <1>8 DEF Heap
<1>11. IndexMatchesRows'
  <2>1. \A q \in Keys : index'[q] = IF q = k THEN r ELSE index[q]
    BY <1>8, TableFacts DEF Indexes
  <2>2. \A z \in Linked : cell[z] # Freed /\ z # NoRow /\ cell[z].key # k
    BY <1>4, TableFacts, StoreAssumption DEF Heap, k
  <2>3. \A z \in Linked' : cell'[z] # Freed /\ index'[cell'[z].key] = z
    <3>1. \A z \in Linked : cell[z].key \in Keys /\ index[cell[z].key] = z
      BY TableFacts
    <3>2. cell'[r] # Freed /\ index'[cell'[r].key] = r
      BY <1>4, <1>6, <1>8, <2>1 DEF k
    <3> QED  BY <1>8, <1>9, <2>1, <2>2, <3>1, <3>2
  <2>4. \A q \in Keys : index'[q] # NoRow => index'[q] \in Linked' /\ cell'[index'[q]].key = q
    BY <1>8, <1>9, <2>1, TableFacts DEF k
  <2> QED  BY <1>9, <2>3, <2>4, IndexStep
<1>12. Linked' \subseteq Heap' /\ Heap' \ Linked' = (Heap \ Linked) \ {Head(Top).before}
  BY <1>6, <1>9, <1>10, TableFacts DEF r, e
<1> QED  BY <1>1, <1>2, <1>5, <1>9, <1>11, <1>12, UndoInvariant

\* Undoing an update copies the old contents back and frees the copy.
LEMMA UndoUpdateInvariant ==
    ASSUME StoreInv, UndoUpdate
    PROVE  StoreInv' /\ pc' = pc
<1> DEFINE e == Head(Top)
           s == e.before
           r == e.after
<1>1. Undo("update") /\ pc = "rollback" /\ Top # <<>> /\ e.change = "update"
  BY DEF UndoUpdate, Undo
<1>2. PICK d \in Cells, y \in Indexes : Undone(e, cell, index, d, y) /\ Replays(d, y, Tail(Top), base)
  BY <1>1, UndoPossible
<1>3. s \in Rows /\ r \in Rows /\ UndoneUpdate(e, cell, index, d, y)
  BY <1>1, <1>2 DEF Undone
<1> DEFINE k == cell[r].key
           k2 == cell[s].key
<1>4. cell[s] # Freed /\ cell[r] # Freed /\ index[k] = r /\ (k2 = k \/ index[k2] = NoRow)
  BY <1>3 DEF UndoneUpdate
<1>5. Found(r) /\ s \in Heap /\ r \in Heap /\ k \in Keys /\ k2 \in Keys /\ r # NoRow
      /\ cell[s] \in RowData
  BY <1>3, <1>4, TableFacts, StoreAssumption DEF Found, Heap, RowData
<1>6. [index EXCEPT ![k] = NoRow][k2] = NoRow
  BY <1>4, <1>5, TableFacts DEF Indexes
<1>7. /\ UNCHANGED <<pc, rows>>
      /\ index' = [[index EXCEPT ![k] = NoRow] EXCEPT ![k2] = r]
      /\ cell' = [cell EXCEPT ![r] = cell[s], ![s] = Freed]
  BY <1>4, <1>5, <1>6 DEF UndoUpdate
<1>8. index' = y /\ cell' = d
  BY <1>3, <1>7 DEF UndoneUpdate
<1>9. r \in Linked
  BY <1>4, <1>5, TableFacts
<1>10. s \notin Linked
  <2>1. Top \in Seq(Changes) /\ txdepth \in Depths /\ Top = logs[txdepth]
    BY <1>1, StoreAssumption DEF StoreInv, TypeOK, Control, Depths, Top
  <2>2. 1 \in DOMAIN Top /\ e = Top[1]
    BY <1>1, <2>1, EmptySeq, LenProperties
  <2>3. s # NoRow
    BY <1>3, StoreAssumption
  <2> HIDE DEF e
  <2> QED  BY <2>1, <2>2, <2>3 DEF StoreInv, Books, KeptApart
<1> HIDE DEF e, r, s, k, k2
<1>11. Linked' = Linked /\ IsInjective(rows)' /\ rows' \in Seq(Rows)
  BY <1>7, TableFacts DEF Linked, IsInjective
<1>12. Heap' = Heap \ {s} /\ cell'[r] = cell[s] /\ \A z \in Rows : z # r /\ z # s => cell'[z] = cell[z]
  BY <1>3, <1>4, <1>7, <1>9, <1>10, TableFacts DEF Heap, Cells
<1>13. IndexMatchesRows'
  <2>1. \A q \in Keys : index'[q] = IF q = k2 THEN r ELSE IF q = k THEN NoRow ELSE index[q]
    BY <1>5, <1>7, TableFacts DEF Indexes
  <2>2. \A z \in Linked : z # r => cell'[z] = cell[z] /\ cell[z] # Freed /\ cell[z].key # k /\ cell[z].key # k2
    BY <1>4, <1>5, <1>10, <1>12, TableFacts, StoreAssumption DEF Heap
  <2>3. cell'[r] # Freed /\ cell'[r].key = k2
    BY <1>4, <1>12 DEF k2
  <2>4. \A z \in Linked' : cell'[z] # Freed /\ index'[cell'[z].key] = z
    <3>1. \A z \in Linked : cell[z].key \in Keys /\ index[cell[z].key] = z
      BY TableFacts
    <3> QED  BY <1>5, <1>11, <2>1, <2>2, <2>3, <3>1
  <2>5. \A q \in Keys : index'[q] # NoRow => index'[q] \in Linked' /\ cell'[index'[q]].key = q
    <3> SUFFICES ASSUME NEW q \in Keys, index'[q] # NoRow
                 PROVE  index'[q] \in Linked' /\ cell'[index'[q]].key = q
      OBVIOUS
    <3>1. CASE q = k2
      BY <1>9, <1>11, <2>1, <2>3, <3>1
    <3>2. CASE q # k2
      <4>1. q # k /\ index'[q] = index[q] /\ index[q] \in Linked /\ cell[index[q]].key = q
        BY <2>1, <3>2, TableFacts
      <4>2. index[q] # r
        BY <4>1 DEF k
      <4> QED  BY <1>11, <2>2, <4>1, <4>2
    <3> QED  BY <3>1, <3>2
  <2> QED  BY <1>11, <2>4, <2>5, IndexStep
<1>14. Linked' \subseteq Heap' /\ Heap' \ Linked' = (Heap \ Linked) \ {Head(Top).before}
  BY <1>10, <1>11, <1>12, TableFacts DEF s, e
<1> QED  BY <1>1, <1>2, <1>7, <1>8, <1>11, <1>13, <1>14, UndoInvariant

\* Nothing is left to undo: the table holds what it did at the last begin or
\* commit.
LEMMA RollbackEndInvariant ==
    ASSUME StoreInv, RollbackEnd
    PROVE  StoreInv' /\ Contents = base
<1>1. /\ pc = "rollback" /\ Top = <<>> /\ pc' = "idle" /\ cur' = Idle /\ open' = open \ {txdepth}
      /\ UNCHANGED <<cell, rows, index, txdepth, logs, base, lost>>
  BY DEF RollbackEnd, Finish
<1>2. TypeOK /\ Control /\ Books /\ cur = Idle /\ Replays(cell, index, Top, base)
  BY <1>1 DEF StoreInv, Control, Replay
<1>3. TypeOK'
  BY <1>1, <1>2 DEF TypeOK
<1>4. IndexMatchesRows' /\ EveryRowAccounted'
  BY <1>1, <1>2 DEF StoreInv, IndexMatchesRows, EveryRowAccounted, Found, Linked, Heap, AllBefores, Befores
<1>5. Books'
  <2>1. KeptOnce' /\ KeptApart' /\ CurApart' /\ LostApart'
    BY <1>1, <1>2 DEF Books, KeptOnce, KeptApart, CurApart, LostApart, Linked, Heap
  <2>2. DOMAIN <<>> = {} /\ Top' = <<>>
    BY <1>1 DEF Top
  <2>3. WrittenStays'
    BY <2>2 DEF WrittenStays
  <2> QED  BY <2>1, <2>3 DEF Books
<1>6. Control' /\ Replay'
  BY <1>1, <1>2 DEF Control, Replay, Top
<1>7. Contents = base
  BY <1>1, <1>2, ContentsHolds, TableFacts, ReplayNothing
<1> QED  BY <1>3, <1>4, <1>5, <1>6, <1>7 DEF StoreInv

\* The table is dropped, with its rows and those the logs kept.
LEMMA DropTableInvariant ==
    ASSUME StoreInv, DropTable
    PROVE  StoreInv' /\ pc' = pc
<1>1. TypeOK /\ Control /\ Books /\ AllBefores \subseteq Heap
  BY TableFacts DEF StoreInv
<1>2. /\ pc = "idle" /\ cur = Idle /\ UNCHANGED <<pc, txdepth, cur, open, lost>>
      /\ cell' = [r \in Rows |-> IF r \in AllBefores \union Linked THEN Freed ELSE cell[r]]
      /\ rows' = <<>>
      /\ index' = [k \in Keys |-> NoRow]
      /\ logs' = [d \in Depths |-> <<>>]
      /\ base' = [k \in Keys |-> NoVal]
  BY <1>1 DEF DropTable, Control
<1>3. /\ <<>> \in Seq(Rows) /\ <<>> \in Seq(Changes) /\ DOMAIN <<>> = {} /\ Linked' = {}
      /\ \A d \in Depths : logs'[d] = <<>>
      /\ cur.entry.before = NoRow
  BY <1>2 DEF Linked, ToSet, Idle, NoChange
<1>4. cell' \in Cells /\ index' \in Indexes /\ logs' \in [Depths -> Seq(Changes)]
  BY <1>2, <1>3, TableFacts DEF Cells, Indexes
<1>5. Heap' = lost
  <2>1. Heap' = Heap \ (AllBefores \union Linked)
    BY <1>2, <1>4, TableFacts DEF Heap
  <2>2. Heap = Linked \union AllBefores \union lost
    BY <1>3, TableFacts
  <2>3. lost \cap Linked = {} /\ lost \cap AllBefores = {}
    BY <1>1 DEF Books, LostApart, KeptApart, AllBefores, Befores
  <2> QED  BY <2>1, <2>2, <2>3
<1>6. TypeOK'
  BY <1>1, <1>2, <1>3, <1>4 DEF TypeOK, Cells, Indexes
<1>7. IndexMatchesRows'
  BY <1>2, <1>3 DEF IndexMatchesRows
<1>8. EveryRowAccounted'
  <2>1. AllBefores' = {}
    BY <1>3 DEF AllBefores, Befores
  <2> QED  BY <1>2, <1>3, <1>5, <2>1 DEF EveryRowAccounted
<1>9. Top' = <<>> \/ txdepth = 0
  BY <1>1, <1>2, <1>3, StoreAssumption DEF TypeOK, Depths, Top
<1>10. Books'
  <2>1. KeptOnce' /\ KeptApart'
    BY <1>3 DEF KeptOnce, KeptApart
  <2>2. CurApart' /\ LostApart'
    BY <1>2, <1>3, <1>5 DEF CurApart, LostApart
  <2>3. WrittenStays'
    BY <1>2, <1>3, <1>9 DEF WrittenStays, TypeOK
  <2> QED  BY <2>1, <2>2, <2>3 DEF Books
<1>11. Control'
  BY <1>1, <1>2, <1>3 DEF Control
<1>12. Replay'
  <2>1. Holds(cell', index') = base'
    BY <1>2, StoreAssumption DEF Holds
  <2>2. Replays(cell', index', <<>>, base')
    BY <1>4, <2>1, ReplayNothing
  <2> QED  BY <1>2, <1>9, <2>2 DEF Replay
<1> QED  BY <1>2, <1>6, <1>7, <1>8, <1>10, <1>11, <1>12 DEF StoreInv

------------------------------------------------------------------------------
(* The theorems.                                                            *)

\* Every step keeps the invariant, for clients that make none of the calls
\* that the code does not survive.
LEMMA NextInvariant ==
    ASSUME StoreInv, Careless = {}, [StoreNext]_storeVars
    PROVE  StoreInv'
<1>1. CASE StoreNext
  BY <1>1, WriteInvariant, BeginInvariant, CommitInvariant, CommitNextInvariant, CommitEndInvariant,
     RollbackInvariant, UndoInsertInvariant, UndoDeleteInvariant, UndoUpdateInvariant,
     RollbackEndInvariant, DropTableInvariant DEF StoreNext
<1>2. CASE UNCHANGED storeVars
  <2>1. UNCHANGED <<cell, rows, index, txdepth, logs, pc, cur, base, open, lost>>
    BY <1>2 DEF storeVars
  <2>2. TypeOK' /\ Control' /\ Replay'
    BY <2>1 DEF StoreInv, TypeOK, Control, Replay, Top
  <2>3. IndexMatchesRows' /\ EveryRowAccounted'
    BY <2>1 DEF StoreInv, IndexMatchesRows, EveryRowAccounted, Found, Linked, Heap, AllBefores, Befores
  <2>4. Books'
    BY <2>1 DEF StoreInv, Books, KeptOnce, KeptApart, CurApart, LostApart, WrittenStays, Linked, Heap, Top
  <2> QED  BY <2>2, <2>3, <2>4 DEF StoreInv
<1> QED  BY <1>1, <1>2

\* For every client that makes none of the careless calls, and any rows, keys,
\* values and depths: rows, index and undo log agree at every step, in the
\* middle of commits and rollbacks too (row.c, index.c, log.c, transaction.c).
THEOREM TableSound ==
    ASSUME Careless = {}
    PROVE  StoreSpec => []RowsSound
<1>1. StoreInit => StoreInv
  BY InitInvariant
<1>2. StoreInv /\ [StoreNext]_storeVars => StoreInv'
  BY NextInvariant
<1>3. StoreInv => RowsSound
  <2> SUFFICES ASSUME StoreInv  PROVE RowsSound
    OBVIOUS
  <2>1. TypeOK /\ IndexMatchesRows /\ EveryRowAccounted /\ LogNeverDangles /\ KeptOnce /\ KeptApart
    BY DEF StoreInv, Control, LogNeverDangles, Books
  <2>2. OldRowsKeptOnce
    <3> DEFINE kept == UNION {KeptRows(d) : d \in Depths}
    <3>1. \A p \in kept : /\ p[1] \in Depths /\ p[2] \in DOMAIN logs[p[1]]
                          /\ p = <<p[1], p[2]>> /\ KeptBy(p) = logs[p[1]][p[2]].before /\ KeptBy(p) # NoRow
      BY DEF KeptRows, KeptBy
    <3> HIDE DEF kept
    <3>2. \A p \in kept : KeptBy(p) \in Heap \ (Linked \union {cur.entry.before})
      BY <2>1, <3>1 DEF KeptApart
    <3>3. \A p, q \in kept : KeptBy(p) = KeptBy(q) => p = q
      <4> SUFFICES ASSUME NEW p \in kept, NEW q \in kept, KeptBy(p) = KeptBy(q)  PROVE p = q
        OBVIOUS
      <4>1. p[1] = q[1] /\ p[2] = q[2]
        BY <2>1, <3>1 DEF KeptOnce
      <4> QED  BY <3>1, <4>1
    <3> QED  BY <3>2, <3>3 DEF OldRowsKeptOnce, kept
  <2> QED  BY <2>1, <2>2 DEF RowsSound
<1> QED  BY <1>1, <1>2, <1>3, PTL DEF StoreSpec

------------------------------------------------------------------------------
(* The table as a map.                                                      *)

\* What a select of one key finds, before a step and after it.
LEMMA ContentsAt ==
    ASSUME StoreInv, NEW k \in Keys
    PROVE  /\ Contents[k] = IF index[k] = NoRow THEN NoVal ELSE cell[index[k]].val
           /\ index[k] # NoRow => cell[index[k]].val \in Vals
<1>1. index[k] \in Heap <=> index[k] # NoRow
  BY TableFacts, StoreAssumption DEF Heap
<1>2. index[k] # NoRow => cell[index[k]] \in RowData
  BY <1>1, TableFacts DEF Heap
<1> QED  BY <1>1, <1>2 DEF Contents, RowData

\* What a table holds for a key, after a step.
LEMMA ContentsAtNext ==
    ASSUME StoreInv', NEW k \in Keys
    PROVE  Contents'[k] = IF index'[k] = NoRow THEN NoVal ELSE cell'[index'[k]].val
<1>1. TypeOK' /\ IndexMatchesRows'
  BY DEF StoreInv
<1>2. index'[k] # NoRow => index'[k] \in Heap'
  <2> SUFFICES ASSUME index'[k] # NoRow  PROVE index'[k] \in Heap'
    OBVIOUS
  <2>1. index'[k] \in Linked' /\ index'[k] \in Rows
    BY <1>1 DEF TypeOK, IndexMatchesRows
  <2> QED  BY <1>1, <2>1 DEF IndexMatchesRows, Found, Heap
<1>3. NoRow \notin Heap'
  BY StoreAssumption DEF Heap
<1> QED  BY <1>2, <1>3 DEF Contents

\* The change that a write makes to the map, key by key.
LEMMA ContentsStep ==
    ASSUME StoreInv, StoreInv', NEW m, DOMAIN m = Keys, m = [k \in Keys |-> m[k]],
           \A k \in Keys : m[k] = IF index'[k] = NoRow THEN NoVal ELSE cell'[index'[k]].val
    PROVE  Contents' = m
<1>1. \A k \in Keys : Contents'[k] = m[k]
  BY ContentsAtNext
<1>2. Contents' = [k \in Keys |-> Contents'[k]]
  BY DEF Contents
<1> QED  BY <1>1, <1>2

\* Every write is one of the map's.
LEMMA WriteIsAMapWrite ==
    ASSUME StoreInv, StoreInv', Careless = {}, Write
    PROVE  Abstract!KVNext
<1> DEFINE kv == IF pc = "rollback" THEN base ELSE Contents
<1>1. SUFFICES
        \/ \E k \in Keys, v \in Vals : kv' = [kv EXCEPT ![k] = v] /\ UNCHANGED <<base, txdepth>>
        \/ \E k, k2 \in Keys, v \in Vals : /\ kv[k] # NoVal /\ kv[k2] = NoVal
                                           /\ kv' = [kv EXCEPT ![k] = NoVal, ![k2] = v]
                                           /\ UNCHANGED <<base, txdepth>>
        \/ \E k \in Keys : kv' = [kv EXCEPT ![k] = NoVal] /\ UNCHANGED <<base, txdepth>>
        \/ kv' = [k \in Keys |-> NoVal] /\ UNCHANGED <<base, txdepth>>
  BY DEF Abstract!KVNext, Abstract!Put, Abstract!Rename, Abstract!Remove, Abstract!Clear, Abstract!Empty
<1>2. pc \in {"idle", "trigger"} /\ UNCHANGED <<pc, base, txdepth>>
  BY DEF Write, Insert, Replace, Update, Delete, DeleteAll, MayWrite, WriteFrame
<1>3. kv = Contents /\ kv' = Contents'
  BY <1>2
<1> HIDE DEF kv
<1>4. Contents = [k \in Keys |-> Contents[k]] /\ \A k \in Keys : index[k] # NoRow => index[k] \in Linked /\ index[k] \in Rows /\ cell[index[k]] # Freed
  BY TableFacts DEF Contents, Heap
<1>5. ASSUME NEW r \in Rows, NEW k \in Keys, NEW v \in Vals, Insert(r, k, v) \/ Replace(r, k, v)
      PROVE  Contents' = [Contents EXCEPT ![k] = v]
  <2> DEFINE m == [Contents EXCEPT ![k] = v]
  <2>1. /\ cell[r] = Freed
        /\ cell' = [cell EXCEPT ![r] = [key |-> k, val |-> v]]
        /\ index' = [index EXCEPT ![k] = r]
    BY <1>5 DEF Insert, Replace
  <2>2. \A q \in Keys : m[q] = IF q = k THEN v ELSE Contents[q]
    BY <1>4
  <2>3. \A q \in Keys : index'[q] = IF q = k THEN r ELSE index[q]
    BY <2>1, TableFacts DEF Indexes
  <2>4. cell'[r].val = v /\ \A z \in Rows : z # r => cell'[z] = cell[z]
    BY <2>1, TableFacts DEF Cells
  <2>5. \A q \in Keys : m[q] = IF index'[q] = NoRow THEN NoVal ELSE cell'[index'[q]].val
    <3> SUFFICES ASSUME NEW q \in Keys
                 PROVE  m[q] = IF index'[q] = NoRow THEN NoVal ELSE cell'[index'[q]].val
      OBVIOUS
    <3>1. CASE q = k
      BY <2>2, <2>3, <2>4, <3>1, StoreAssumption
    <3>2. CASE q # k
      <4>1. index[q] # r
        BY <1>4, <2>1, StoreAssumption
      <4> HIDE DEF m
      <4> QED  BY <1>4, <2>2, <2>3, <2>4, <3>2, <4>1, ContentsAt
    <3> QED  BY <3>1, <3>2
  <2>6. DOMAIN m = Keys /\ m = [q \in Keys |-> m[q]]
    BY <1>4
  <2> HIDE DEF m
  <2>7. Contents' = m
    BY <2>5, <2>6, ContentsStep
  <2> QED  BY <2>7 DEF m
<1>6. ASSUME NEW b \in Rows, NEW k \in Keys, NEW k2 \in Keys, NEW v \in Vals, Update(b, k, k2, v)
      PROVE  /\ Contents' = [Contents EXCEPT ![k] = NoVal, ![k2] = v]
             /\ Contents[k] # NoVal /\ (k2 = k \/ Contents[k2] = NoVal)
  <2> DEFINE m == [Contents EXCEPT ![k] = NoVal, ![k2] = v]
             r == index[k]
  <2>1. /\ r # NoRow /\ (k2 = k \/ index[k2] = NoRow)
        /\ SaveBefore(b, r, [key |-> k2, val |-> v])
        /\ index' = [index EXCEPT ![k] = NoRow, ![k2] = r]
    BY <1>6 DEF Update
  <2>2. \A q \in Keys : m[q] = IF q = k2 THEN v ELSE IF q = k THEN NoVal ELSE Contents[q]
    BY <1>4
  <2>3. \A q \in Keys : index'[q] = IF q = k2 THEN r ELSE IF q = k THEN NoRow ELSE index[q]
    BY <2>1, TableFacts DEF Indexes
  <2>4. r \in Linked /\ r \in Rows /\ cell[r] # Freed /\ cell[r].key = k
    BY <2>1, <1>4, TableFacts
  <2>5. /\ cell'[r] = [key |-> k2, val |-> v]
        /\ \A z \in Rows : z # r /\ cell[z] # Freed => cell'[z] = cell[z]
    BY <2>1, <2>4, TableFacts DEF SaveBefore, Cells
  <2>6. \A q \in Keys : m[q] = IF index'[q] = NoRow THEN NoVal ELSE cell'[index'[q]].val
    <3> SUFFICES ASSUME NEW q \in Keys
                 PROVE  m[q] = IF index'[q] = NoRow THEN NoVal ELSE cell'[index'[q]].val
      OBVIOUS
    <3>1. CASE q = k2
      <4>1. r # NoRow
        BY <2>1
      <4> HIDE DEF m, r
      <4>2. index'[q] = r /\ m[q] = v /\ cell'[r].val = v
        BY <2>2, <2>3, <2>5, <3>1
      <4> QED  BY <4>1, <4>2
    <3>2. CASE q # k2 /\ q = k
      <4> HIDE DEF m, r
      <4> QED  BY <2>2, <2>3, <3>2
    <3>3. CASE q # k2 /\ q # k
      <4>1. index[q] # r
        BY <2>1, <3>3, TableFacts
      <4> HIDE DEF m, r
      <4>2. index'[q] = index[q] /\ m[q] = Contents[q]
        BY <2>2, <2>3, <3>3
      <4>3. index[q] # NoRow => cell'[index[q]] = cell[index[q]]
        BY <1>4, <2>5, <4>1
      <4> QED  BY <4>2, <4>3, ContentsAt
    <3> QED  BY <3>1, <3>2, <3>3
  <2>7. DOMAIN m = Keys /\ m = [q \in Keys |-> m[q]]
    BY <1>4
  <2> HIDE DEF m
  <2>8. Contents' = m
    BY <2>6, <2>7, ContentsStep
  <2>9. Contents[k] # NoVal /\ (k2 = k \/ Contents[k2] = NoVal)
    BY <2>1, ContentsAt, StoreAssumption
  <2> QED  BY <2>8, <2>9 DEF m
<1>7. ASSUME NEW k \in Keys, Delete(k)
      PROVE  Contents' = [Contents EXCEPT ![k] = NoVal]
  <2> DEFINE m == [Contents EXCEPT ![k] = NoVal]
             r == index[k]
  <2>1. /\ r # NoRow
        /\ cell' = IF txdepth = 0 THEN [cell EXCEPT ![r] = Freed] ELSE cell
        /\ index' = [index EXCEPT ![k] = NoRow]
    BY <1>7 DEF Delete
  <2>2. \A q \in Keys : m[q] = IF q = k THEN NoVal ELSE Contents[q]
    BY <1>4
  <2>3. \A q \in Keys : index'[q] = IF q = k THEN NoRow ELSE index[q]
    BY <2>1, TableFacts DEF Indexes
  <2>4. \A z \in Rows : z # r => cell'[z] = cell[z]
    BY <2>1, TableFacts DEF Cells
  <2>5. \A q \in Keys : m[q] = IF index'[q] = NoRow THEN NoVal ELSE cell'[index'[q]].val
    <3> SUFFICES ASSUME NEW q \in Keys
                 PROVE  m[q] = IF index'[q] = NoRow THEN NoVal ELSE cell'[index'[q]].val
      OBVIOUS
    <3>1. CASE q = k
      BY <2>2, <2>3, <3>1
    <3>2. CASE q # k
      <4>1. index[q] # r
        BY <2>1, <3>2, TableFacts
      <4> HIDE DEF m, r
      <4>2. index'[q] = index[q] /\ m[q] = Contents[q]
        BY <2>2, <2>3, <3>2
      <4>3. index[q] # NoRow => cell'[index[q]] = cell[index[q]]
        BY <1>4, <2>4, <4>1
      <4> QED  BY <4>2, <4>3, ContentsAt
    <3> QED  BY <3>1, <3>2
  <2>6. DOMAIN m = Keys /\ m = [q \in Keys |-> m[q]]
    BY <1>4
  <2> HIDE DEF m
  <2>7. Contents' = m
    BY <2>5, <2>6, ContentsStep
  <2> QED  BY <2>7 DEF m
<1>8. ASSUME DeleteAll  PROVE Contents' = [k \in Keys |-> NoVal]
  <2>1. index' = [k \in Keys |-> NoRow]
    BY <1>8 DEF DeleteAll
  <2> DEFINE m == [k \in Keys |-> NoVal]
  <2>2. \A q \in Keys : m[q] = IF index'[q] = NoRow THEN NoVal ELSE cell'[index'[q]].val
    BY <2>1
  <2>3. DOMAIN m = Keys /\ m = [q \in Keys |-> m[q]]
    OBVIOUS
  <2> HIDE DEF m
  <2>4. Contents' = m
    BY <2>2, <2>3, ContentsStep
  <2> QED  BY <2>4 DEF m
<1>9. CASE \E r \in Rows, k \in Keys, v \in Vals : Insert(r, k, v) \/ Replace(r, k, v)
  BY <1>2, <1>3, <1>5, <1>9
<1>10. CASE \E b \in Rows, k, k2 \in Keys, v \in Vals : Update(b, k, k2, v)
  <2>1. PICK b \in Rows, k \in Keys, k2 \in Keys, v \in Vals : Update(b, k, k2, v)
    BY <1>10
  <2>2. /\ Contents' = [Contents EXCEPT ![k] = NoVal, ![k2] = v]
        /\ Contents[k] # NoVal /\ (k2 = k \/ Contents[k2] = NoVal)
    BY <1>6, <2>1
  <2>3. CASE k2 = k
    <3>1. Contents' = [Contents EXCEPT ![k] = v]
      BY <1>4, <2>2, <2>3
    <3> QED  BY <1>2, <1>3, <3>1
  <2>4. CASE k2 # k
    BY <1>2, <1>3, <2>2, <2>4
  <2> QED  BY <2>3, <2>4
<1>11. CASE \E k \in Keys : Delete(k)
  BY <1>2, <1>3, <1>7, <1>11
<1>12. CASE DeleteAll
  BY <1>2, <1>3, <1>8, <1>12
<1> QED  BY <1>9, <1>10, <1>11, <1>12 DEF Write

\* Begin, commit and rollback are the map's, and the steps between them change
\* nothing that a client could see.
LEMMA TransactionIsAMapTransaction ==
    ASSUME StoreInv, StoreInv', Careless = {}, StoreNext, ~Write
    PROVE  Abstract!KVNext \/ UNCHANGED Abstract!kvVars
<1> DEFINE kv == IF pc = "rollback" THEN base ELSE Contents
<1>1. SUFFICES
        \/ /\ txdepth < TxDepthMax - 1 /\ txdepth' = txdepth + 1 /\ base' = kv /\ kv' = kv
        \/ /\ txdepth > 0 /\ base' = kv /\ UNCHANGED txdepth /\ kv' = kv
        \/ /\ txdepth > 0 /\ kv' = base /\ UNCHANGED <<base, txdepth>>
        \/ /\ kv' = [k \in Keys |-> NoVal] /\ base' = [k \in Keys |-> NoVal] /\ UNCHANGED txdepth
        \/ /\ kv' = kv /\ UNCHANGED <<base, txdepth>>
  BY DEF Abstract!KVNext, Abstract!BeginTx, Abstract!CommitTx, Abstract!RollbackTx, Abstract!Drop,
         Abstract!Empty, Abstract!kvVars
<1>2. pc # "broken" /\ pc' # "broken" /\ (pc # "idle" => txdepth > 0)
  BY DEF StoreInv, Control
<1>3. CASE Begin
  <2>1. Contents' = Contents /\ pc = "idle" /\ pc' = "idle"
    BY <1>3 DEF Begin, Contents, Heap
  <2> QED  BY <1>3, <2>1 DEF Begin
<1>4. CASE Commit
  <2>1. Contents' = Contents /\ pc = "idle" /\ txdepth > 0 /\ UNCHANGED txdepth
    BY <1>4 DEF Commit, Contents, Heap
  <2>2. CASE Top = <<>>
    BY <1>4, <2>1, <2>2 DEF Commit, Finish
  <2>3. CASE Top # <<>>
    <3>1. pc' = "trigger" /\ UNCHANGED base
      BY <1>2, <1>4, <2>3 DEF Commit, Report
    <3> QED  BY <2>1, <3>1
  <2> QED  BY <2>2, <2>3
<1>5. CASE CommitNext
  <2>1. Contents' = Contents
    BY <1>5, ReturnedFacts DEF CommitNext, TriggerReturned
  <2>2. pc = "trigger" /\ pc' = "trigger" /\ UNCHANGED <<base, txdepth>>
    BY <1>2, <1>5 DEF CommitNext, TriggerReturned, Report
  <2> QED  BY <2>1, <2>2
<1>6. CASE CommitEnd
  <2>1. Contents' = Contents
    BY <1>6, ReturnedFacts DEF CommitEnd, TriggerReturned
  <2>2. pc = "trigger" /\ pc' = "idle" /\ base' = Contents /\ UNCHANGED txdepth
    BY <1>6 DEF CommitEnd, TriggerReturned, Finish
  <2> QED  BY <1>2, <2>1, <2>2
<1>7. CASE Rollback
  BY <1>7 DEF Rollback
<1>8. CASE UndoInsert \/ UndoDelete \/ UndoUpdate
  <2>1. pc = "rollback" /\ pc' = pc /\ UNCHANGED <<base, txdepth>>
    BY <1>8, UndoInsertInvariant, UndoDeleteInvariant, UndoUpdateInvariant
       DEF UndoInsert, UndoDelete, UndoUpdate, Undo
  <2> QED  BY <2>1
<1>9. CASE RollbackEnd
  <2>1. Contents = base
    BY <1>9, RollbackEndInvariant
  <2>2. Contents' = Contents
    BY <1>9 DEF RollbackEnd, Contents, Heap
  <2>3. pc = "rollback" /\ pc' = "idle" /\ UNCHANGED <<base, txdepth>>
    BY <1>9 DEF RollbackEnd, Finish
  <2> QED  BY <2>1, <2>2, <2>3
<1>10. CASE DropTable
  <2>1. pc = "idle" /\ pc' = pc /\ base' = [k \in Keys |-> NoVal] /\ index' = [k \in Keys |-> NoRow] /\ UNCHANGED txdepth
    BY <1>10, DropTableInvariant DEF DropTable
  <2>2. Contents' = [k \in Keys |-> NoVal]
    BY <2>1, StoreAssumption DEF Contents, Heap
  <2> QED  BY <2>1, <2>2
<1> QED  BY <1>3, <1>4, <1>5, <1>6, <1>7, <1>8, <1>9, <1>10 DEF StoreNext

\* For the same clients, a table is a map with transactions, whatever was
\* written in which order: each write takes effect at once, a rollback restores
\* what the table held at the last begin or commit (mqi.c, transaction.c).
THEOREM TableIsAMap ==
    ASSUME Careless = {}
    PROVE  StoreSpec => ImplementsKeyValueTx
<1>1. StoreInit => StoreInv /\ Abstract!KVInit
  <2> SUFFICES ASSUME StoreInit  PROVE StoreInv /\ Abstract!KVInit
    OBVIOUS
  <2>1. StoreInv
    BY InitInvariant
  <2>2. Contents = [k \in Keys |-> NoVal]
    BY StoreAssumption DEF StoreInit, Contents, Heap
  <2>3. pc = "idle" /\ base = [k \in Keys |-> NoVal] /\ txdepth = 0
    BY DEF StoreInit
  <2> QED  BY <2>1, <2>2, <2>3 DEF Abstract!KVInit, Abstract!Empty
<1>2. StoreInv /\ [StoreNext]_storeVars => StoreInv'
  BY NextInvariant
<1>3. StoreInv /\ StoreInv' /\ [StoreNext]_storeVars => [Abstract!KVNext]_Abstract!kvVars
  <2> SUFFICES ASSUME StoreInv, StoreInv', [StoreNext]_storeVars
               PROVE  Abstract!KVNext \/ UNCHANGED Abstract!kvVars
    OBVIOUS
  <2>1. CASE StoreNext /\ Write
    BY <2>1, WriteIsAMapWrite
  <2>2. CASE StoreNext /\ ~Write
    BY <2>2, TransactionIsAMapTransaction
  <2>3. CASE UNCHANGED storeVars
    BY <2>3 DEF storeVars, Abstract!kvVars, Contents, Heap
  <2> QED  BY <2>1, <2>2, <2>3
<1> QED  BY <1>1, <1>2, <1>3, PTL DEF StoreSpec, ImplementsKeyValueTx, Abstract!KVSpec

------------------------------------------------------------------------------
(* HandlesKeepTheirData, for any number of handles, of bits to a bucket and *)
(* of use counts.  The inductive invariant says of the use count of an      *)
(* entry that none of its handles has one above it: so a new user of an     *)
(* index has a handle nobody had, until the count no longer fits.           *)

IndexEntries == [useid : Nat, data : Data \cup {NoData}]
Given == DOMAIN live \cup dead

Types == /\ nbucket \in Nat /\ owned \in Nat /\ free \subseteq Nat
         /\ DOMAIN entries \subseteq Nat /\ \A i \in DOMAIN entries : entries[i] \in IndexEntries
         /\ entries = [i \in DOMAIN entries |-> entries[i]]
         /\ \A h \in DOMAIN live : live[h] \in Data

\* Handles are of entries that exist, and their use counts of those so far.
Counted == \A h \in Given : /\ Index(h) \in DOMAIN entries /\ h = <<Index(h), UseId(h)>>
                            /\ UseId(h) \in 0 .. MaxUse - 1
                            /\ UseId(h) <= entries[Index(h)].useid

\* A handle that has all of the use count has the entry, and a deleted one none.
Exact == /\ \A h \in DOMAIN live : \/ Known(h) /\ entries[Index(h)].data = live[h]
                                   \/ entries[Index(h)].useid >= MaxUse
         /\ \A h \in dead : Known(h) => entries[Index(h)].data = NoData

HandleInv == Types /\ Counted /\ Exact

\* Bucket numbers cover every index.
LEMMA InBucket == ASSUME NEW i \in Nat PROVE i \in 0 .. (Bits * (i \div Bits) + Bits - 1)
<1>1. Bits \in Nat \ {0}
  BY HandleAssumption
<1>2. Bits * (i \div Bits) + (i % Bits) = i /\ i % Bits \in 0 .. Bits - 1 /\ i \div Bits \in Nat
  BY <1>1, SMTT(30)
<1> QED  BY <1>1, <1>2, SMTT(30)

\* The indexes of a bucket are numbers.
LEMMA BucketIsNat == ASSUME NEW b \in Nat PROVE Bucket(b) \subseteq Nat
<1>1. Bits \in Nat \ {0} /\ b * Bits \in Nat
  BY HandleAssumption
<1> QED  BY <1>1 DEF Bucket

\* Nothing has been given out yet.
LEMMA HandleInitInv == HandlesInit => HandleInv
BY DEF HandlesInit, HandleInv, Types, Counted, Exact, Given

\* mdb_handle_add: the entry it takes has no living handle, but for one whose
\* use count no longer fits.
LEMMA AddHandleInv == ASSUME HandleInv, NEW d \in Data, AddHandle(d) PROVE HandleInv'
<1> USE DEF HandleInv
<1>1. PICK place \in free \cup Bucket(nbucket) :
        /\ d \notin {live[h] : h \in DOMAIN live}
        /\ FreemapAlloc(place)
        /\ IF Busy(Grown(place)[place], d) THEN entries' = Grown(place) /\ UNCHANGED live
           ELSE /\ entries' = [Grown(place) EXCEPT ![place] = Take(Grown(place)[place], d)]
                /\ live' = [h \in DOMAIN live \cup {Handle(place, Take(Grown(place)[place], d))} |->
                              IF h = Handle(place, Take(Grown(place)[place], d)) THEN d ELSE live[h]]
        /\ UNCHANGED dead
  BY DEF AddHandle
<1> DEFINE grown == Grown(place)
           entry == Take(grown[place], d)
           new == Handle(place, entry)
<1>2. place \in Nat /\ nbucket' \in Nat /\ owned' \in Nat /\ free' \subseteq Nat
  BY <1>1, BucketIsNat DEF Types, FreemapAlloc
<1>3. /\ place \in DOMAIN grown /\ DOMAIN grown \subseteq Nat /\ DOMAIN entries \subseteq DOMAIN grown
      /\ grown = [i \in DOMAIN grown |-> grown[i]]
      /\ \A i \in DOMAIN grown : grown[i] \in IndexEntries
      /\ \A i \in DOMAIN entries : grown[i] = entries[i]
  <2>1. DOMAIN grown = DOMAIN entries \cup 0 .. (Bits * (place \div Bits) + Bits - 1)
    BY DEF Grown
  <2>2. Zero \in IndexEntries
    BY DEF Zero, IndexEntries
  <2>3. \A i \in DOMAIN grown : grown[i] = IF i \in DOMAIN entries THEN entries[i] ELSE Zero
    BY <2>1 DEF Grown
  <2>4. DOMAIN grown \subseteq Nat /\ place \in DOMAIN grown
    BY <1>2, <2>1, InBucket DEF Types
  <2>5. grown = [i \in DOMAIN grown |-> grown[i]]
    BY DEF Grown
  <2> QED  BY <2>1, <2>2, <2>3, <2>4, <2>5 DEF Types
<1>4. CASE Busy(grown[place], d)
  <2>1. entries' = grown /\ live' = live /\ dead' = dead
    BY <1>1, <1>4
  <2>2. Types'
    BY <1>2, <1>3, <2>1 DEF Types
  <2>3. Counted'
    BY <1>3, <2>1 DEF Counted, Given
  <2>4. Exact'
    BY <1>3, <2>1 DEF Exact, Counted, Given, Known
  <2> QED  BY <2>2, <2>3, <2>4
<1>5. CASE ~Busy(grown[place], d)
  <2>1. /\ entries' = [grown EXCEPT ![place] = entry] /\ dead' = dead
        /\ live' = [h \in DOMAIN live \cup {new} |-> IF h = new THEN d ELSE live[h]]
    BY <1>1, <1>5
  <2>2. /\ grown[place].useid \in Nat /\ entry \in IndexEntries
        /\ entry.useid = grown[place].useid + 1 /\ entry.data = d
    BY <1>3 DEF Take, IndexEntries
  <2>3. DOMAIN entries' = DOMAIN grown /\ entries'[place] = entry
        /\ \A i \in DOMAIN grown \ {place} : entries'[i] = grown[i]
    BY <1>3, <2>1
  <2>4. /\ Index(new) = place /\ UseId(new) = entry.useid % MaxUse
        /\ UseId(new) \in 0 .. MaxUse - 1 /\ UseId(new) <= entry.useid
        /\ entry.useid < MaxUse => UseId(new) = entry.useid
    <3>1. MaxUse \in Nat \ {0} /\ entry.useid \in Nat
      BY HandleAssumption, <2>2
    <3>2. /\ entry.useid % MaxUse \in 0 .. MaxUse - 1 /\ entry.useid % MaxUse <= entry.useid
          /\ entry.useid < MaxUse => entry.useid % MaxUse = entry.useid
      BY <3>1, SMTT(30)
    <3> QED  BY <3>2 DEF Handle, Index, UseId
  <2>5. Types'
    <3>1. entries' = [i \in DOMAIN entries' |-> entries'[i]]
      BY <2>1
    <3>2. \A h \in DOMAIN live' : live'[h] \in Data
      BY <2>1 DEF Types
    <3> QED  BY <1>2, <1>3, <2>2, <2>3, <3>1, <3>2 DEF Types
  <2>6. DOMAIN live' = DOMAIN live \cup {new} /\ Given' = Given \cup {new}
    BY <2>1 DEF Given
  <2>7. \A h \in Given : /\ Index(h) \in DOMAIN entries'
                         /\ entries[Index(h)].useid <= entries'[Index(h)].useid
                         /\ Index(h) = place => UseId(h) < entry.useid
    BY <1>3, <2>2, <2>3, HandleAssumption DEF Counted, Types, IndexEntries
  <2>8. Counted'
    <3>1. new = <<Index(new), UseId(new)>>
      BY DEF Handle, Index, UseId
    <3>2. \A h \in Given : UseId(h) <= entries'[Index(h)].useid
      BY <1>3, <2>2, <2>3, <2>7, HandleAssumption DEF Counted, Types, IndexEntries
    <3> QED  BY <1>3, <2>3, <2>4, <2>6, <2>7, <3>1, <3>2 DEF Counted
  <2>9. ASSUME NEW h \in DOMAIN live'
        PROVE  \/ Known(h)' /\ entries'[Index(h)].data = live'[h]
               \/ entries'[Index(h)].useid >= MaxUse
    <3>1. CASE h = new
      BY <2>1, <2>2, <2>3, <2>4, <3>1, <1>3, HandleAssumption DEF Known
    <3>2. CASE h # new /\ Index(h) # place
      <4>1. h \in DOMAIN live /\ h \in Given /\ live'[h] = live[h]
        BY <2>1, <2>6, <3>2 DEF Given
      <4>2. Index(h) \in DOMAIN entries /\ entries'[Index(h)] = entries[Index(h)]
        BY <1>3, <2>3, <3>2, <4>1 DEF Counted
      <4> QED  BY <4>1, <4>2, <1>3, <2>3 DEF Exact, Known
    <3>3. CASE h # new /\ Index(h) = place
      <4>1. h \in DOMAIN live /\ h \in Given
        BY <2>6, <3>3 DEF Given
      <4>2. place \in DOMAIN entries /\ grown[place] = entries[place]
        BY <1>3, <3>3, <4>1 DEF Counted
      <4>3. live[h] \in Data /\ live[h] # d /\ live[h] # NoData
        BY <1>1, <4>1, HandleAssumption DEF Types
      <4>4. entries[place].data # live[h]
        BY <1>5, <4>2, <4>3 DEF Busy
      <4>5. entries[place].useid >= MaxUse
        BY <3>3, <4>1, <4>4 DEF Exact
      <4> QED  BY <2>2, <2>3, <3>3, <4>2, <4>5, HandleAssumption
    <3> QED  BY <3>1, <3>2, <3>3
  <2>10. ASSUME NEW h \in dead' PROVE Known(h)' => entries'[Index(h)].data = NoData
    <3>1. h \in dead /\ h \in Given
      BY <2>1 DEF Given
    <3>2. CASE Index(h) = place
      BY <2>2, <2>3, <2>7, <3>1, <3>2 DEF Known, Counted
    <3>3. CASE Index(h) # place
      <4>1. Index(h) \in DOMAIN entries /\ entries'[Index(h)] = entries[Index(h)]
        BY <1>3, <2>3, <3>1, <3>3 DEF Counted
      <4> QED  BY <3>1, <4>1 DEF Exact, Known
    <3> QED  BY <3>2, <3>3
  <2> QED  BY <2>5, <2>8, <2>9, <2>10 DEF Exact
<1> QED  BY <1>4, <1>5

\* mdb_handle_delete: the entry of the handle is emptied, and no other one.
LEMMA DeleteHandleInv == ASSUME HandleInv, NEW h \in DOMAIN live \cup dead, DeleteHandle(h) PROVE HandleInv'
<1> USE DEF HandleInv
<1> DEFINE place == Index(h)
<1>1. /\ Known(h) /\ entries[place].data # NoData
      /\ entries' = [entries EXCEPT ![place].data = NoData]
      /\ FreemapFree(place)
      /\ live' = Restrict(live, DOMAIN live \ {h}) /\ dead' = dead \cup {h}
  BY DEF DeleteHandle, Resolved
<1>2. /\ DOMAIN live' = DOMAIN live \ {h}
      /\ \A g \in DOMAIN live' : live'[g] = live[g]
  BY <1>1 DEF Restrict
<1>3. place \in DOMAIN entries /\ place \in Nat /\ entries[place] \in IndexEntries /\ h \in DOMAIN live
  BY <1>1 DEF Known, Types, Exact
<1>4. /\ DOMAIN entries' = DOMAIN entries
      /\ entries'[place].useid = entries[place].useid /\ entries'[place].data = NoData
      /\ entries'[place] \in IndexEntries
      /\ \A i \in DOMAIN entries \ {place} : entries'[i] = entries[i]
  BY <1>1, <1>3 DEF IndexEntries, Types
<1>5. nbucket' \in Nat /\ owned' \in Nat /\ free' \subseteq Nat
  <2>1. place \div Bits \in Nat
    BY <1>3, HandleAssumption, SMTT(30)
  <2> QED  BY <1>1, <1>3, <2>1 DEF FreemapFree, Types
<1>6. Types'
  <2>1. entries' = [i \in DOMAIN entries' |-> entries'[i]]
    BY <1>1 DEF Types
  <2> QED  BY <1>2, <1>4, <1>5, <2>1 DEF Types
<1>7. Given' \subseteq Given
  BY <1>1, <1>2 DEF Given
<1>8. Counted'
  BY <1>4, <1>7 DEF Counted
<1>9. ASSUME NEW g \in DOMAIN live'
      PROVE  \/ Known(g)' /\ entries'[Index(g)].data = live'[g]
             \/ entries'[Index(g)].useid >= MaxUse
  <2>1. g \in DOMAIN live /\ g # h /\ g \in Given /\ h \in Given /\ live'[g] = live[g]
    BY <1>2 DEF Given
  <2>2. CASE Index(g) # place
    BY <1>4, <2>1, <2>2 DEF Exact, Known, Counted
  <2>3. CASE Index(g) = place
    <3>1. UseId(g) # UseId(h)
      BY <2>1, <2>3 DEF Counted
    <3>2. entries[place].useid >= MaxUse
      BY <1>1, <2>1, <2>3, <3>1 DEF Exact, Known
    <3> QED  BY <1>4, <2>3, <3>2
  <2> QED  BY <2>2, <2>3
<1>10. ASSUME NEW g \in dead' PROVE Known(g)' => entries'[Index(g)].data = NoData
  <2>1. g = h \/ g \in dead
    BY <1>1
  <2>2. CASE Index(g) = place
    BY <1>4, <2>2
  <2>3. CASE Index(g) # place
    <3>1. g \in dead /\ g \in Given
      BY <2>1, <2>3 DEF Given
    <3> QED  BY <1>4, <2>3, <3>1 DEF Exact, Known, Counted
  <2> QED  BY <2>2, <2>3
<1> QED  BY <1>6, <1>8, <1>9, <1>10 DEF Exact

\* The map of free indexes shrinks, and what it gave back is written to.
LEMMA OverwrittenInv == ASSUME HandleInv, Overwritten PROVE HandleInv'
<1> USE DEF HandleInv
<1>1. PICK bits \in SUBSET UNION {Bucket(b) : b \in owned .. (nbucket - 1)} :
        /\ free' = {i \in free : i \div Bits < owned} \cup bits
        /\ UNCHANGED <<nbucket, owned, entries, live, dead, adds>>
  BY DEF Overwritten
<1>2. bits \subseteq Nat
  <2>1. \A b \in owned .. (nbucket - 1) : Bucket(b) \subseteq Nat
    BY BucketIsNat DEF Types
  <2> QED  BY <2>1
<1>3. Types'
  BY <1>1, <1>2 DEF Types
<1> QED  BY <1>1, <1>3 DEF Counted, Exact, Given, Known

\* Whatever is added and deleted, and whatever becomes of the buckets that were
\* given back: a handle stands for its data until it is deleted and for nothing
\* after, up to the use count that fits it.
THEOREM HandlesSound == HandlesSpec => []HandlesKeepTheirData
<1>1. HandlesInit => HandleInv
  BY HandleInitInv
<1>2. HandleInv /\ [HandlesNext]_handleVars => HandleInv'
  <2>1. HandleInv /\ HandlesNext => HandleInv'
    BY AddHandleInv, DeleteHandleInv, OverwrittenInv DEF HandlesNext
  <2>2. HandleInv /\ UNCHANGED handleVars => HandleInv'
    BY DEF handleVars, HandleInv, Types, Counted, Exact, Given, Known
  <2> QED  BY <2>1, <2>2
<1>3. HandleInv => HandlesKeepTheirData
  BY HandleAssumption DEF HandleInv, Types, Counted, Exact, Given, Known, Resolved, HandlesKeepTheirData, IndexEntries
<1> QED  BY <1>1, <1>2, <1>3, PTL DEF HandlesSpec

------------------------------------------------------------------------------
(* Tables are numbered as they are made, and handles with them; no two that *)
(* are there have one name, and each is in the hash under its name.         *)
TablesAreNamed ==
    /\ made \in Nat /\ Tables \subseteq 1 .. made
    /\ tableCount = Cardinality(Tables)
    /\ \A t \in Tables : [name |-> named[t], table |-> t] \in tableHash
    /\ \A t, u \in Tables : named[t] = named[u] => t = u

(* A handle is there for a table that was not dropped and, but for those no *)
(* handle leads to any more, the other way around.                          *)
HandlesAreTables ==
    /\ DOMAIN given = DOMAIN handles
    /\ DOMAIN handles \subseteq Tables
    /\ \A h \in DOMAIN handles : handles[h] = h /\ given[h] = named[h]
    /\ Tables \subseteq DOMAIN handles \union orphans

(* A name stands for the handle of its table, unless a create that failed   *)
(* has taken it away.                                                       *)
NamesAreHandles ==
    /\ \A n \in DOMAIN nameHash : nameHash[n] \in DOMAIN handles /\ given[nameHash[n]] = n
    /\ \A h \in DOMAIN handles :
          given[h] \notin overwritten => given[h] \in DOMAIN nameHash /\ nameHash[given[h]] = h

TablesInv == TablesAreNamed /\ HandlesAreTables /\ NamesAreHandles

\* What is left of a map when something is taken out of it.
LEMMA WithoutFacts ==
    ASSUME NEW f, NEW x
    PROVE  /\ DOMAIN Without(f, x) = DOMAIN f \ {x}
           /\ \A z \in DOMAIN f : z # x => Without(f, x)[z] = f[z]
BY DEF Without, Restrict

\* There are finitely many tables.
LEMMA TablesFinite ==
    ASSUME TablesInv
    PROVE  IsFiniteSet(Tables) /\ Cardinality(Tables) \in Nat
<1>1. made \in Nat /\ Tables \subseteq 1 .. made
  BY DEF TablesInv, TablesAreNamed
<1>2. IsFiniteSet(1 .. made)
  BY <1>1, FS_Interval
<1>3. IsFiniteSet(Tables)
  BY <1>1, <1>2, FS_Subset
<1> QED  BY <1>3, FS_CardinalityType

\* Nothing is there when the process starts.
LEMMA TablesInitInv == TablesInit => TablesInv
<1> SUFFICES ASSUME TablesInit PROVE TablesInv
  OBVIOUS
<1>1. DOMAIN <<>> = {}
  OBVIOUS
<1>2. Tables = {} /\ DOMAIN handles = {} /\ DOMAIN nameHash = {} /\ DOMAIN given = {} /\ made = 0 /\ tableCount = 0
  BY <1>1 DEF TablesInit, Tables
<1> QED  BY <1>2, FS_EmptySet DEF TablesInv, TablesAreNamed, HandlesAreTables, NamesAreHandles

\* mqi_create_table: the name is in no entry of a table that is there.
LEMMA CreateInv ==
    ASSUME TablesInv, NEW name, Create(name)
    PROVE  TablesInv'
<1>a. PICK t : t = made + 1
  OBVIOUS
<1>1. /\ Fresh(name) = {} /\ name \notin DOMAIN nameHash
      /\ named' = With(named, t, name) /\ tableCount' = tableCount + 1 /\ handles' = With(handles, t, t)
      /\ nameHash' = With(nameHash, name, t) /\ made' = t /\ given' = With(given, t, name)
      /\ UNCHANGED <<overwritten, orphans>>
      /\ \/ tableHash' = tableHash \union {[name |-> name, table |-> t]}
         \/ tableHash' = (tableHash \ Stale(name)) \union {[name |-> name, table |-> t]}
  BY <1>a DEF Create
<1>2. made \in Nat /\ t \in Nat /\ t \notin 1 .. made /\ 1 .. t = 1 .. made \union {t}
  BY <1>a DEF TablesInv, TablesAreNamed
<1>3. t \notin Tables /\ Tables \subseteq 1 .. made /\ t \notin DOMAIN handles /\ t \notin DOMAIN given
  BY <1>2 DEF TablesInv, TablesAreNamed, HandlesAreTables
<1>4. \A u \in Tables : named[u] # name
  <2> SUFFICES ASSUME NEW u \in Tables, named[u] = name PROVE FALSE
    OBVIOUS
  <2>1. [name |-> named[u], table |-> u] \in tableHash
    BY DEF TablesInv, TablesAreNamed
  <2>2. [name |-> named[u], table |-> u] \in Fresh(name)
    BY <2>1 DEF Fresh
  <2> QED  BY <1>1, <2>2
<1>0. /\ named' = With(named, t, name) /\ handles' = With(handles, t, t)
      /\ given' = With(given, t, name) /\ nameHash' = With(nameHash, name, t)
  BY <1>1
<1>5. /\ Tables' = Tables \union {t} /\ named'[t] = name /\ \A u \in Tables : named'[u] = named[u]
      /\ DOMAIN handles' = DOMAIN handles \union {t} /\ handles'[t] = t /\ \A h \in DOMAIN handles : handles'[h] = handles[h]
      /\ DOMAIN given' = DOMAIN given \union {t} /\ given'[t] = name /\ \A h \in DOMAIN given : given'[h] = given[h]
      /\ DOMAIN nameHash' = DOMAIN nameHash \union {name} /\ nameHash'[name] = t
      /\ \A n \in DOMAIN nameHash : nameHash'[n] = nameHash[n]
  <2>1. Tables' = Tables \union {t} /\ named'[t] = name /\ \A u \in Tables : named'[u] = named[u]
    <3>1. DOMAIN named' = DOMAIN named \union {t} /\ named'[t] = name
          /\ \A u \in DOMAIN named : u # t => named'[u] = named[u]
      BY <1>0 DEF With
    <3> QED  BY <3>1, <1>3 DEF Tables
  <2>2. DOMAIN handles' = DOMAIN handles \union {t} /\ handles'[t] = t
        /\ \A h \in DOMAIN handles : h # t => handles'[h] = handles[h]
    BY <1>0 DEF With
  <2>3. DOMAIN given' = DOMAIN given \union {t} /\ given'[t] = name
        /\ \A h \in DOMAIN given : h # t => given'[h] = given[h]
    BY <1>0 DEF With
  <2>4. DOMAIN nameHash' = DOMAIN nameHash \union {name} /\ nameHash'[name] = t
        /\ \A n \in DOMAIN nameHash : n # name => nameHash'[n] = nameHash[n]
    BY <1>0 DEF With
  <2> QED  BY <1>1, <1>3, <2>1, <2>2, <2>3, <2>4
<1>6. tableCount' = Cardinality(Tables')
  <2>1. Cardinality(Tables \union {t}) = Cardinality(Tables) + 1
    BY <1>3, TablesFinite, FS_AddElement
  <2> QED  BY <2>1, <1>1, <1>5 DEF TablesInv, TablesAreNamed
<1>7. \A u \in Tables' : [name |-> named'[u], table |-> u] \in tableHash'
  <2>1. \A u \in Tables : [name |-> named[u], table |-> u] \notin Stale(name)
    BY DEF Stale
  <2> QED  BY <1>1, <1>5, <2>1 DEF TablesInv, TablesAreNamed
<1>8. TablesAreNamed'
  <2>1. made' \in Nat /\ Tables' \subseteq 1 .. made'
    BY <1>1, <1>2, <1>3, <1>5
  <2>2. \A u, v \in Tables' : named'[u] = named'[v] => u = v
    <3>1. \A u, v \in Tables : named[u] = named[v] => u = v
      BY DEF TablesInv, TablesAreNamed
    <3> QED  BY <1>4, <1>5, <3>1
  <2> QED  BY <1>6, <1>7, <2>1, <2>2 DEF TablesAreNamed
<1>9. HandlesAreTables'
  BY <1>1, <1>3, <1>5 DEF TablesInv, HandlesAreTables
<1>10. NamesAreHandles'
  <2>1. \A h \in DOMAIN handles : given[h] # name
    BY <1>4 DEF TablesInv, HandlesAreTables
  <2> QED  BY <1>1, <1>3, <1>5, <2>1 DEF TablesInv, NamesAreHandles, HandlesAreTables
<1> QED  BY <1>8, <1>9, <1>10 DEF TablesInv

\* The cleanup of a create that failed takes away the name and notes it.
LEMMA CreateFailsInv ==
    ASSUME TablesInv, NEW name, CreateFails(name)
    PROVE  TablesInv'
<1>1. /\ nameHash' = Without(nameHash, name) /\ overwritten' = overwritten \union ({name} \intersect DOMAIN nameHash)
      /\ UNCHANGED <<named, tableHash, tableCount, handles, made, given, orphans>>
  BY DEF CreateFails, CleanUp
<1>2. DOMAIN nameHash' = DOMAIN nameHash \ {name} /\ \A n \in DOMAIN nameHash' : nameHash'[n] = nameHash[n]
  BY <1>1, WithoutFacts
<1>3. TablesAreNamed' /\ HandlesAreTables'
  BY <1>1 DEF TablesInv, TablesAreNamed, HandlesAreTables, Tables
<1>4. NamesAreHandles'
  BY <1>1, <1>2 DEF TablesInv, NamesAreHandles
<1> QED  BY <1>3, <1>4 DEF TablesInv

\* mqi_drop_table: the handle goes, and the table when its name is found.
LEMMA DropInv ==
    ASSUME TablesInv, NEW h \in DOMAIN handles, Drop(h)
    PROVE  TablesInv'
<1> DEFINE mine == {n \in DOMAIN nameHash : nameHash[n] = h}
<1>1. /\ handles' = Without(handles, h) /\ given' = Without(given, h) /\ made' = made
      /\ IF mine = {}
         THEN orphans' = orphans \union {handles[h]} /\ UNCHANGED <<named, tableHash, tableCount, nameHash, overwritten>>
         ELSE /\ MdbDrop(handles[h]) /\ nameHash' = Restrict(nameHash, DOMAIN nameHash \ mine)
              /\ overwritten' = overwritten \ mine /\ UNCHANGED orphans
  BY DEF Drop
<1>2. /\ DOMAIN handles' = DOMAIN handles \ {h} /\ \A g \in DOMAIN handles' : handles'[g] = handles[g]
      /\ DOMAIN given' = DOMAIN given \ {h} /\ \A g \in DOMAIN given' : given'[g] = given[g]
  BY ZenonT(40), <1>1, WithoutFacts
<1>3. handles[h] = h /\ h \in Tables /\ given[h] = named[h]
  BY DEF TablesInv, HandlesAreTables
<1>4. \A n \in mine : n = given[h]
  BY DEF TablesInv, NamesAreHandles
<1> HIDE DEF mine
<1>5. CASE mine = {}
  <2>1. orphans' = orphans \union {h} /\ UNCHANGED <<named, tableHash, tableCount, nameHash, overwritten>>
    BY <1>1, <1>3, <1>5
  <2>2. TablesAreNamed'
    BY <1>1, <2>1 DEF TablesInv, TablesAreNamed, Tables
  <2>3. HandlesAreTables'
    BY <1>2, <2>1 DEF TablesInv, HandlesAreTables, Tables
  <2>4. NamesAreHandles'
    BY <1>2, <1>5, <2>1 DEF TablesInv, NamesAreHandles, HandlesAreTables, mine
  <2> QED  BY <2>2, <2>3, <2>4 DEF TablesInv
<1>6. CASE mine # {}
  <2>1. /\ MdbDrop(h) /\ nameHash' = Restrict(nameHash, DOMAIN nameHash \ mine)
        /\ overwritten' = overwritten \ mine /\ UNCHANGED orphans
    BY <1>1, <1>3, <1>6
  <2>2. mine = {given[h]} /\ given[h] \in DOMAIN nameHash
    BY <1>4, <1>6 DEF mine
  <2>3. /\ DOMAIN nameHash' = DOMAIN nameHash \ {given[h]}
        /\ \A n \in DOMAIN nameHash' : nameHash'[n] = nameHash[n] /\ nameHash[n] # h
    BY <2>1, <2>2 DEF Restrict, mine
  <2>4. /\ Tables' = Tables \ {h} /\ \A t \in Tables' : named'[t] = named[t]
        /\ IF tableCount > 1 THEN tableCount' = tableCount - 1 /\ UNCHANGED tableHash
                             ELSE tableCount' = 0 /\ tableHash' = {}
    <3>1. named' = Without(named, h)
      BY <2>1 DEF MdbDrop
    <3>2. Tables' = Tables \ {h} /\ \A t \in Tables' : named'[t] = named[t]
      BY <3>1, WithoutFacts DEF Tables
    <3> QED  BY <2>1, <3>2 DEF MdbDrop
  <2>5. IsFiniteSet(Tables) /\ Cardinality(Tables) \in Nat /\ tableCount = Cardinality(Tables)
        /\ Cardinality(Tables \ {h}) = Cardinality(Tables) - 1
    BY <1>3, TablesFinite, FS_RemoveElement DEF TablesInv, TablesAreNamed
  <2>6. TablesAreNamed'
    <3>1. tableCount' = Cardinality(Tables')
      <4>1. CASE tableCount > 1
        BY <2>4, <2>5, <4>1
      <4>2. CASE ~(tableCount > 1)
        <5>1. Cardinality(Tables) # 0
          BY <1>3, <2>5, FS_EmptySet
        <5> QED  BY <2>4, <2>5, <4>2, <5>1
      <4> QED  BY <4>1, <4>2
    <3>2. \A t \in Tables' : [name |-> named'[t], table |-> t] \in tableHash'
      <4>1. CASE tableCount > 1
        BY <2>4, <4>1 DEF TablesInv, TablesAreNamed
      <4>2. CASE ~(tableCount > 1)
        <5>1. Cardinality(Tables') = 0
          BY <2>4, <3>1, <4>2
        <5>2. Tables' = {}
          BY <5>1, <2>4, <2>5, FS_EmptySet, FS_Subset
        <5> QED  BY <5>2
      <4> QED  BY <4>1, <4>2
    <3> QED  BY <1>1, <2>4, <3>1, <3>2 DEF TablesInv, TablesAreNamed
  <2>7. HandlesAreTables'
    BY <1>2, <2>1, <2>4 DEF TablesInv, HandlesAreTables
  <2>8. NamesAreHandles'
    <3>1. \A g \in DOMAIN handles' : given[g] # given[h]
      BY <1>2, <1>3 DEF TablesInv, HandlesAreTables, TablesAreNamed
    <3> QED  BY <1>2, <2>1, <2>2, <2>3, <3>1 DEF TablesInv, NamesAreHandles, HandlesAreTables
  <2> QED  BY <2>6, <2>7, <2>8 DEF TablesInv
<1> QED  BY <1>5, <1>6

\* Every step of the catalog.
LEMMA TablesNextInv == TablesInv /\ [TablesNext]_tablesVars => TablesInv'
<1> SUFFICES ASSUME TablesInv, [TablesNext]_tablesVars PROVE TablesInv'
  OBVIOUS
<1>1. ASSUME Close PROVE TablesInv'
  <2>1. DOMAIN handles' = {} /\ DOMAIN nameHash' = {} /\ DOMAIN given' = {} /\ orphans' = Tables
        /\ UNCHANGED <<named, tableHash, tableCount, made>>
    BY <1>1 DEF Close
  <2> QED  BY <2>1 DEF TablesInv, TablesAreNamed, HandlesAreTables, NamesAreHandles, Tables
<1>2. ASSUME Open \/ UNCHANGED tablesVars PROVE TablesInv'
  BY <1>2 DEF Open, tablesVars, TablesInv, TablesAreNamed, HandlesAreTables, NamesAreHandles, Tables
<1> QED  BY <1>1, <1>2, CreateInv, CreateFailsInv, DropInv DEF TablesNext

\* A handle reaches its own table until it is dropped, and a name its handle
\* as long as no create of that name failed meanwhile, for any number of
\* tables that are made, dropped and made again (mqi_create_table,
\* mqi_drop_table, mdb_table_create, mdb_table_drop).
THEOREM TablesReached == TablesSpec => []HandlesReachTables
<1>1. TablesInv => HandlesReachTables
  <2> SUFFICES ASSUME TablesInv PROVE HandlesReachTables
    OBVIOUS
  <2>1. \A h \in DOMAIN given : Reaches(h) = {h} /\ h \in Tables /\ named[h] = given[h]
    BY DEF TablesInv, HandlesAreTables, Reaches
  <2>2. \A h \in DOMAIN given : given[h] \notin overwritten => HandleOf(given[h]) = {h} /\ given[h] \in Shown
    BY <2>1 DEF TablesInv, NamesAreHandles, HandlesAreTables, HandleOf, Shown
  <2>3. \A t \in Tables \ orphans : \E h \in DOMAIN given : Reaches(h) = {t}
    BY <2>1 DEF TablesInv, HandlesAreTables
  <2> QED  BY <2>1, <2>2, <2>3 DEF HandlesReachTables, TablesInv, TablesAreNamed
<1> QED  BY <1>1, TablesInitInv, TablesNextInv, PTL DEF TablesSpec

------------------------------------------------------------------------------
(* The sorted table, for any keys and any number of slots to grow by.  The   *)
(* search is shown to stop at the key or where it belongs; the invariant is  *)
(* that the slots in use increase and hold the keys there are.               *)

\* A half of a range is a range, and smaller.
LEMMA HalfRange ==
    ASSUME NEW lo \in Nat, NEW hi \in Nat, lo <= hi
    PROVE  LET i == (lo + hi) \div 2
           IN  /\ i \in Nat /\ lo <= i /\ i <= hi
               /\ i = lo => hi <= lo + 1
               /\ i # lo => i < hi
OBVIOUS

\* What the search does in a turn, h being what the turns that follow return.
SearchRanges(n) == {r \in (0 .. n) \X (0 .. n) : r[1] <= r[2]}

SearchBody(s, key, n, h) ==
    [r \in SearchRanges(n) |->
        LET i == (r[1] + r[2]) \div 2
            k == s[i + 1]
        IN  CASE key = k -> [i |-> i, max |-> r[2], cmp |-> 0]
              [] key # k /\ i = r[1] -> [i |-> i, max |-> r[2], cmp |-> IF key < k THEN -1 ELSE 1]
              [] key < k /\ i # r[1] -> h[<<r[1], i>>]
              [] OTHER -> h[<<i, r[2]>>]]

LEMMA SearchRange ==
    ASSUME NEW n \in Nat, NEW r \in SearchRanges(n)
    PROVE  LET i == (r[1] + r[2]) \div 2
           IN  /\ r = <<r[1], r[2]>> /\ r[1] \in Nat /\ r[2] \in Nat /\ r[1] <= r[2] /\ r[2] <= n
               /\ i \in Nat /\ r[1] <= i /\ i <= r[2] /\ (i = r[1] => r[2] <= r[1] + 1) /\ (i # r[1] => i < r[2])
               /\ <<r[1], i>> \in SearchRanges(n) /\ <<i, r[2]>> \in SearchRanges(n)
<1> DEFINE i == (r[1] + r[2]) \div 2
<1>1. r = <<r[1], r[2]>> /\ r[1] \in Nat /\ r[2] \in Nat /\ r[1] <= r[2] /\ r[2] <= n
  BY DEF SearchRanges
<1>2. i \in Nat /\ r[1] <= i /\ i <= r[2] /\ (i = r[1] => r[2] <= r[1] + 1) /\ (i # r[1] => i < r[2])
  BY <1>1, HalfRange
<1> HIDE DEF i
<1>3. <<r[1], i>> \in SearchRanges(n) /\ <<i, r[2]>> \in SearchRanges(n)
  BY <1>1, <1>2 DEF SearchRanges
<1> QED  BY <1>1, <1>2, <1>3 DEF i

Stops(n) == [i : 0 .. n, max : 0 .. n, cmp : {-1, 0, 1}]

LEMMA SearchUnfolds ==
    ASSUME NEW s, NEW key, NEW n \in Nat
    PROVE  \E h : h = SearchBody(s, key, n, h) /\ Search(s, key, n) = h[<<0, n>>]
<1> DEFINE D == SearchRanges(n)
           E == [h \in [D -> Stops(n)] |-> SearchBody(s, key, n, h)]
           w == [r \in D |-> r[2] - r[1]]
<1>1. ASSUME NEW r \in D
      PROVE  LET i == (r[1] + r[2]) \div 2
             IN  /\ i \in 0 .. n /\ r[2] \in 0 .. n
                 /\ <<r[1], i>> \in D /\ <<i, r[2]>> \in D
                 /\ i # r[1] => w[<<r[1], i>>] < w[r] /\ w[<<i, r[2]>>] < w[r]
  <2> DEFINE i == (r[1] + r[2]) \div 2
  <2>1. /\ r = <<r[1], r[2]>> /\ r[1] \in Nat /\ r[2] \in Nat /\ r[1] <= r[2] /\ r[2] <= n
        /\ i \in Nat /\ r[1] <= i /\ i <= r[2] /\ (i = r[1] => r[2] <= r[1] + 1) /\ (i # r[1] => i < r[2])
        /\ <<r[1], i>> \in SearchRanges(n) /\ <<i, r[2]>> \in SearchRanges(n)
    BY SearchRange
  <2> HIDE DEF i
  <2>2. i # r[1] => i - r[1] < r[2] - r[1] /\ r[2] - i < r[2] - r[1]
    BY <2>1
  <2>3. i \in 0 .. n /\ r[2] \in 0 .. n
    BY <2>1
  <2> QED  BY <2>1, <2>2, <2>3 DEF i
<1>2. E \in [[D -> Stops(n)] -> [D -> Stops(n)]]
  <2> SUFFICES ASSUME NEW h \in [D -> Stops(n)]  PROVE SearchBody(s, key, n, h) \in [D -> Stops(n)]
    OBVIOUS
  <2>1. ASSUME NEW r \in D  PROVE SearchBody(s, key, n, h)[r] \in Stops(n)
    <3> DEFINE i == (r[1] + r[2]) \div 2
    <3>1. i \in 0 .. n /\ r[2] \in 0 .. n /\ h[<<r[1], i>>] \in Stops(n) /\ h[<<i, r[2]>>] \in Stops(n)
      BY <1>1
    <3>2. SearchBody(s, key, n, h)[r] =
              CASE key = s[i + 1] -> [i |-> i, max |-> r[2], cmp |-> 0]
                [] key # s[i + 1] /\ i = r[1] -> [i |-> i, max |-> r[2], cmp |-> IF key < s[i + 1] THEN -1 ELSE 1]
                [] key < s[i + 1] /\ i # r[1] -> h[<<r[1], i>>]
                [] OTHER -> h[<<i, r[2]>>]
      BY DEF SearchBody
    <3> HIDE DEF i
    <3>3. \A c \in {-1, 0, 1} : [i |-> i, max |-> r[2], cmp |-> c] \in Stops(n)
      BY <3>1 DEF Stops
    <3> QED  BY <3>1, <3>2, <3>3
  <2>2. SearchBody(s, key, n, h) = [r \in D |-> SearchBody(s, key, n, h)[r]]
    BY DEF SearchBody
  <2> QED  BY <2>1, <2>2
<1>3. w \in [D -> Nat] /\ \A r \in D : w[r] < n + 1
  <2> SUFFICES ASSUME NEW r \in D  PROVE r[2] - r[1] \in Nat /\ r[2] - r[1] < n + 1
    OBVIOUS
  <2>1. /\ r[1] \in Nat /\ r[2] \in Nat /\ r[1] <= r[2] /\ r[2] <= n
    BY SearchRange
  <2> QED  BY <2>1
<1>4. ASSUME NEW f \in [D -> Stops(n)], NEW g \in [D -> Stops(n)], NEW r \in D,
             \A q \in D : w[q] < w[r] => f[q] = g[q]
      PROVE  E[f][r] = E[g][r]
  <2> DEFINE i == (r[1] + r[2]) \div 2
  <2>1. i # r[1] => f[<<r[1], i>>] = g[<<r[1], i>>] /\ f[<<i, r[2]>>] = g[<<i, r[2]>>]
    BY <1>1, <1>4
  <2>2. \A h : SearchBody(s, key, n, h)[r] =
              CASE key = s[i + 1] -> [i |-> i, max |-> r[2], cmp |-> 0]
                [] key # s[i + 1] /\ i = r[1] -> [i |-> i, max |-> r[2], cmp |-> IF key < s[i + 1] THEN -1 ELSE 1]
                [] key < s[i + 1] /\ i # r[1] -> h[<<r[1], i>>]
                [] OTHER -> h[<<i, r[2]>>]
    BY DEF SearchBody
  <2> HIDE DEF i
  <2>3. SearchBody(s, key, n, f)[r] = SearchBody(s, key, n, g)[r]
    BY <2>1, <2>2
  <2> QED  BY <2>3
<1>5. [i |-> 0, max |-> 0, cmp |-> 0] \in Stops(n)
  BY DEF Stops
<1> HIDE DEF E, w, D
<1>6. \E f \in [D -> Stops(n)] : f = E[f]
  <2>1. LooksBelow(D, Stops(n), E, w, n + 1)
    BY <1>2, <1>3, <1>4 DEF LooksBelow
  <2>2. n + 1 \in Nat
    OBVIOUS
  <2> QED  BY <1>5, <2>1, <2>2, RecursionExists
<1>7. PICK f \in [D -> Stops(n)] : f = E[f]
  BY <1>6
<1>8. f = SearchBody(s, key, n, f)
  BY <1>7 DEF E
<1> DEFINE h == CHOOSE h : h = SearchBody(s, key, n, h)
<1>9. h = SearchBody(s, key, n, h)
  BY <1>8
<1>10. Search(s, key, n) = h[<<0, n>>]
  BY Zenon DEF Search, SearchBody, SearchRanges
<1> QED  BY <1>9, <1>10

\* Where the search stops in n slots that increase: at the key, or where the
\* key belongs.
Ascends(s, n) == /\ \A j \in 1 .. n : s[j] \in Nat
                 /\ \A i, j \in 1 .. n : i < j => s[i] < s[j]

StopsAt(s, key, n, stop) ==
    \/ stop.cmp = 0 /\ stop.i \in 0 .. n - 1 /\ s[stop.i + 1] = key
    \/ /\ Place(stop) \in 0 .. n
       /\ \A j \in 1 .. n : IF j <= Place(stop) THEN s[j] < key ELSE key < s[j]

LEMMA SearchFinds ==
    ASSUME NEW s, NEW n \in Nat, Ascends(s, n), NEW key \in Nat
    PROVE  StopsAt(s, key, n, Search(s, key, n))
<1>1. PICK h : h = SearchBody(s, key, n, h) /\ Search(s, key, n) = h[<<0, n>>]
  BY SearchUnfolds
<1>2. CASE n = 0
  <2>1. <<0, 0>> \in SearchRanges(0)
    BY DEF SearchRanges
  <2>2. Search(s, key, n).i = 0 /\ Search(s, key, n).max = 0
    BY <1>1, <1>2, <2>1 DEF SearchBody
  <2>3. Place(Search(s, key, n)) = 0
    BY <2>2 DEF Place
  <2> QED  BY <1>2, <2>3 DEF StopsAt
<1>3. CASE n # 0
  <2> DEFINE Around(r) == r[1] < r[2] /\ (r[1] = 0 \/ s[r[1] + 1] < key) /\ (r[2] = n \/ key < s[r[2] + 1])
             Good(r) == StopsAt(s, key, n, h[r])
             Bad == {k \in Nat : \E r \in SearchRanges(n) : r[2] - r[1] = k /\ Around(r) /\ ~Good(r)}
  <2>1. ASSUME NEW r \in SearchRanges(n), Around(r), \A k \in Bad : k >= r[2] - r[1]
        PROVE  Good(r)
    <3> DEFINE i == (r[1] + r[2]) \div 2
    <3>1. /\ r[1] \in Nat /\ r[2] \in Nat /\ r[1] < r[2] /\ r[2] <= n
          /\ i \in Nat /\ r[1] <= i /\ i < r[2] /\ (i = r[1] => r[2] = r[1] + 1)
          /\ <<r[1], i>> \in SearchRanges(n) /\ <<i, r[2]>> \in SearchRanges(n)
      <4>1. /\ r[1] \in Nat /\ r[2] \in Nat /\ r[1] <= r[2] /\ r[2] <= n
            /\ i \in Nat /\ r[1] <= i /\ i <= r[2] /\ (i = r[1] => r[2] <= r[1] + 1) /\ (i # r[1] => i < r[2])
            /\ <<r[1], i>> \in SearchRanges(n) /\ <<i, r[2]>> \in SearchRanges(n)
        BY SearchRange
      <4> HIDE DEF i
      <4> QED  BY <2>1, <4>1
    <3>2. h[r] = CASE key = s[i + 1] -> [i |-> i, max |-> r[2], cmp |-> 0]
                   [] key # s[i + 1] /\ i = r[1] -> [i |-> i, max |-> r[2], cmp |-> IF key < s[i + 1] THEN -1 ELSE 1]
                   [] key < s[i + 1] /\ i # r[1] -> h[<<r[1], i>>]
                   [] OTHER -> h[<<i, r[2]>>]
      BY <1>1 DEF SearchBody
    <3> HIDE DEF i
    <3>3. /\ i + 1 \in 1 .. n /\ s[i + 1] \in Nat
          /\ \A j \in 1 .. n : s[j] \in Nat /\ (j < i + 1 => s[j] < s[i + 1]) /\ (i + 1 < j => s[i + 1] < s[j])
      <4>1. i + 1 \in 1 .. n
        BY <3>1
      <4> QED  BY <4>1 DEF Ascends
    <3>4. CASE key = s[i + 1]
      <4>1. h[r].cmp = 0 /\ h[r].i = i
        BY <3>2, <3>4
      <4>2. i \in 0 .. n - 1
        BY <3>1
      <4> QED  BY <3>4, <4>1, <4>2 DEF StopsAt
    <3>5. CASE i = r[1] /\ key < s[i + 1]
      <4>1. r[1] = 0
        BY <2>1, <3>3, <3>5
      <4>2. h[r].i = 0 /\ h[r].cmp = -1
        BY <3>2, <3>3, <3>5, <4>1
      <4>3. Place(h[r]) = 0
        BY <4>2 DEF Place
      <4>4. ASSUME NEW j \in 1 .. n  PROVE ~(j <= 0) /\ key < s[j]
        BY <3>3, <3>5, <4>1
      <4> QED  BY <4>3, <4>4 DEF StopsAt
    <3>6. CASE i = r[1] /\ s[i + 1] < key
      <4>1. h[r].max = r[2] /\ h[r].cmp = 1
        BY <3>2, <3>3, <3>6
      <4>2. Place(h[r]) = i + 1 /\ r[2] = i + 1
        BY <3>1, <3>6, <4>1 DEF Place
      <4>3. ASSUME NEW j \in 1 .. n, j <= i + 1  PROVE s[j] < key
        BY <3>1, <3>3, <3>6, <4>3
      <4>4. ASSUME NEW j \in 1 .. n, ~(j <= i + 1)  PROVE key < s[j]
        <5>1. i + 1 # n /\ i + 2 \in 1 .. n /\ i + 2 <= j
          BY <3>1, <4>4
        <5>2. key < s[i + 2]
          <6>1. (i + 1) + 1 = i + 2
            BY <3>1
          <6> QED  BY <2>1, <4>2, <5>1, <6>1
        <5>3. i + 2 < j => s[i + 2] < s[j]
          BY <5>1 DEF Ascends
        <5> QED  BY <3>1, <3>3, <5>1, <5>2, <5>3
      <4> QED  BY <3>3, <4>2, <4>3, <4>4 DEF StopsAt
    <3>7. CASE i # r[1] /\ key < s[i + 1]
      <4> DEFINE q == <<r[1], i>>
      <4>1. q \in SearchRanges(n) /\ q[1] = r[1] /\ q[2] = i /\ i - r[1] \in Nat /\ ~(i - r[1] >= r[2] - r[1]) /\ r[1] < i
        BY <3>1, <3>7
      <4>2. Around(q)
        BY <2>1, <3>7, <4>1
      <4>3. h[r] = h[q]
        BY <3>2, <3>3, <3>7
      <4>4. Good(q)
        BY <2>1, <4>1, <4>2
      <4> HIDE DEF q
      <4> QED  BY <4>3, <4>4
    <3>8. CASE i # r[1] /\ s[i + 1] < key
      <4> DEFINE q == <<i, r[2]>>
      <4>1. q \in SearchRanges(n) /\ q[1] = i /\ q[2] = r[2] /\ r[2] - i \in Nat /\ ~(r[2] - i >= r[2] - r[1]) /\ i < r[2]
        BY <3>1, <3>8
      <4>2. Around(q)
        BY <2>1, <3>8, <4>1
      <4>3. h[r] = h[q]
        BY <3>2, <3>3, <3>8
      <4>4. Good(q)
        BY <2>1, <4>1, <4>2
      <4> HIDE DEF q
      <4> QED  BY <4>3, <4>4
    <3> QED  BY <3>3, <3>4, <3>5, <3>6, <3>7, <3>8
  <2>2. \A k \in Bad : \E y \in Bad : ~(k <= y)
    <3> SUFFICES ASSUME NEW k \in Bad, \A y \in Bad : k <= y  PROVE FALSE
      OBVIOUS
    <3>1. PICK r \in SearchRanges(n) : r[2] - r[1] = k /\ Around(r) /\ ~Good(r)
      OBVIOUS
    <3>2. \A y \in Bad : y >= r[2] - r[1]
      <4>1. Bad \subseteq Nat
        OBVIOUS
      <4> HIDE DEF Bad, Around, Good
      <4> QED  BY <3>1, <4>1
    <3> QED  BY <2>1, <3>1, <3>2
  <2>3. Bad = {}
    <3>1. Bad \subseteq Nat
      OBVIOUS
    <3> HIDE DEF Bad
    <3> QED  BY <2>2, <3>1, NatMinimum
  <2>4. <<0, n>> \in SearchRanges(n) /\ Around(<<0, n>>)
    BY <1>3 DEF SearchRanges
  <2>5. Good(<<0, n>>)
    <3> HIDE DEF Good, Around
    <3> QED  BY <2>1, <2>3, <2>4
  <2> QED  BY <1>1, <2>5
<1> QED  BY <1>2, <1>3

------------------------------------------------------------------------------
IsList(s) == \E V : s \in Seq(V)

WalkInv ==
    /\ cursor \in [at : Nat, entries : Seq(Nat)] /\ seen \in Seq(Nat)
    /\ cursor # NoCursor => /\ Len(seen) + 1 = cursor.at /\ Len(seen) <= Len(cursor.entries)
                            /\ \A j \in 1 .. Len(seen) : seen[j] = cursor.entries[j]
    /\ Increasing(cursor.entries) /\ Increasing(seen)

SequenceInv ==
    /\ IsList(slots) /\ nentry \in Nat /\ nentry <= Len(slots)
    /\ keys \subseteq SeqKeys /\ misled \in BOOLEAN
    /\ ~misled => /\ Ascends(slots, nentry) /\ {slots[j] : j \in 1 .. nentry} = keys
                  /\ IsFiniteSet(keys) /\ Cardinality(keys) = nentry
                  /\ WalkInv

LEMMA ListFact ==
    ASSUME NEW s, IsList(s)
    PROVE  Len(s) \in Nat /\ DOMAIN s = 1 .. Len(s)
BY LenProperties DEF IsList

\* A function on the first numbers is a list.
LEMMA FunctionIsList ==
    ASSUME NEW n \in Nat, NEW s, DOMAIN s = 1 .. n, s = [j \in 1 .. n |-> s[j]]
    PROVE  IsList(s) /\ Len(s) = n
<1> DEFINE V == {s[j] : j \in 1 .. n}
<1>1. s \in [1 .. n -> V]
  OBVIOUS
<1>2. s \in Seq(V)
  BY <1>1
<1>3. Len(s) = n
  BY <1>2, LenProperties
<1> QED  BY <1>2, <1>3 DEF IsList

LEMMA SequenceInitInv == SequenceInit => SequenceInv
<1> SUFFICES ASSUME SequenceInit  PROVE SequenceInv
  OBVIOUS
<1>1. slots = <<>> /\ nentry = 0 /\ keys = {} /\ misled = FALSE /\ cursor = NoCursor /\ seen = <<>>
  BY DEF SequenceInit
<1>2. IsList(<<>>) /\ Len(<<>>) = 0 /\ <<>> \in Seq(Nat)
  BY DEF IsList
<1>3. NoCursor \in [at : Nat, entries : Seq(Nat)] /\ NoCursor.entries = <<>> /\ Increasing(<<>>)
  BY <1>2 DEF NoCursor, Increasing
<1>4. Ascends(slots, nentry) /\ {slots[j] : j \in 1 .. nentry} = keys
  <2>1. 1 .. nentry = {}
    BY <1>1
  <2> QED  BY <1>1, <2>1 DEF Ascends
<1>5. IsFiniteSet(keys) /\ Cardinality(keys) = nentry
  BY <1>1, FS_EmptySet
<1>6. keys \subseteq SeqKeys /\ misled \in BOOLEAN
  BY <1>1
<1>7. IsList(slots) /\ nentry \in Nat /\ nentry <= Len(slots)
  <2>1. 0 \in Nat /\ 0 <= 0
    OBVIOUS
  <2> QED  BY <1>1, <1>2, <2>1
<1>8. WalkInv
  BY <1>1, <1>2, <1>3 DEF WalkInv
<1> QED  BY <1>4, <1>5, <1>6, <1>7, <1>8 DEF SequenceInv

\* mdb_sequence_add.
LEMMA GrowFacts ==
    ASSUME SequenceInv
    PROVE  /\ IsList(Grow) /\ nentry + 1 <= Len(Grow) /\ DOMAIN Grow = 1 .. Len(Grow)
           /\ \A j \in 1 .. nentry : Grow[j] = slots[j]
<1> DEFINE more == [i \in 1 .. SeqAlloc |-> 0]
<1>1. nentry \in Nat /\ Len(slots) \in Nat /\ nentry <= Len(slots) /\ IsList(slots) /\ DOMAIN slots = 1 .. Len(slots)
  BY ListFact DEF SequenceInv
<1>2. CASE nentry + 1 <= Len(slots)
  BY <1>1, <1>2 DEF Grow
<1>3. CASE ~(nentry + 1 <= Len(slots))
  <2>1. PICK V : slots \in Seq(V)
    BY <1>1 DEF IsList
  <2>2. SeqAlloc \in Nat \ {0}
    BY SequenceAssumption
  <2>3. IsList(more) /\ Len(more) = SeqAlloc
    BY <2>2, FunctionIsList
  <2>4. PICK W : more \in Seq(W)
    BY <2>3 DEF IsList
  <2> HIDE DEF more
  <2>5. slots \in Seq(V \union W) /\ more \in Seq(V \union W)
    BY <2>1, <2>4, SeqMonotonic
  <2>6. /\ slots \o more \in Seq(V \union W) /\ Len(slots \o more) = Len(slots) + SeqAlloc
        /\ \A j \in 1 .. Len(slots) + SeqAlloc : j <= Len(slots) => (slots \o more)[j] = slots[j]
    BY <2>3, <2>5, ConcatProperties
  <2>7. Grow = slots \o more
    BY <1>3 DEF Grow, more
  <2>8. IsList(Grow) /\ nentry + 1 <= Len(Grow)
    BY <1>1, <2>2, <2>6, <2>7 DEF IsList
  <2>9. \A j \in 1 .. nentry : Grow[j] = slots[j]
    BY <1>1, <2>2, <2>6, <2>7
  <2> QED  BY <2>8, <2>9, ListFact
<1> QED  BY <1>2, <1>3

LEMMA SequenceAddInv ==
    ASSUME SequenceInv, NEW k \in SeqKeys, SequenceAdd(k)
    PROVE  SequenceInv'
<1> DEFINE s == Grow
           i == Place(Search(s, k, nentry))
<1>1. /\ IsList(s) /\ nentry + 1 <= Len(s) /\ DOMAIN s = 1 .. Len(s) /\ Len(s) \in Nat
      /\ \A j \in 1 .. nentry : s[j] = slots[j]
  BY GrowFacts, ListFact
<1>2. /\ k \notin keys
      /\ slots' = [j \in 1 .. Len(s) |-> CASE j - 1 < i \/ j - 1 > nentry -> s[j]
                                           [] j - 1 = i -> k
                                           [] OTHER -> s[j - 1]]
      /\ nentry' = nentry + 1 /\ keys' = keys \cup {k}
      /\ UNCHANGED <<misled, cursor, seen>>
  BY DEF SequenceAdd
<1>3. nentry \in Nat /\ k \in Nat
  BY SequenceAssumption DEF SequenceInv
<1>4. IsList(slots') /\ Len(slots') = Len(s)
  <2>1. DOMAIN slots' = 1 .. Len(s) /\ slots' = [j \in 1 .. Len(s) |-> slots'[j]]
    BY <1>2
  <2> HIDE DEF s
  <2> QED  BY <1>1, <2>1, FunctionIsList
<1>5. ASSUME ~misled
      PROVE  /\ Ascends(slots', nentry') /\ {slots'[j] : j \in 1 .. nentry'} = keys'
             /\ IsFiniteSet(keys') /\ Cardinality(keys') = nentry'
  <2>1. Ascends(slots, nentry) /\ {slots[j] : j \in 1 .. nentry} = keys /\ IsFiniteSet(keys) /\ Cardinality(keys) = nentry
    BY <1>5 DEF SequenceInv
  <2>2. Ascends(s, nentry)
    BY <1>1, <2>1 DEF Ascends
  <2>3. StopsAt(s, k, nentry, Search(s, k, nentry))
    BY <1>3, <2>2, SearchFinds
  <2>4. i \in 0 .. nentry /\ \A j \in 1 .. nentry : IF j <= i THEN slots[j] < k ELSE k < slots[j]
    <3>1. ASSUME NEW j \in 0 .. nentry - 1, s[j + 1] = k  PROVE FALSE
      <4>1. j + 1 \in 1 .. nentry
        BY <1>3
      <4> QED  BY <1>1, <1>2, <2>1, <3>1, <4>1
    <3> QED  BY <1>1, <2>3, <3>1 DEF StopsAt
  <2> HIDE DEF i
  <2>5. ASSUME NEW j \in 1 .. nentry + 1
        PROVE  /\ slots'[j] = IF j <= i THEN slots[j] ELSE IF j = i + 1 THEN k ELSE slots[j - 1]
               /\ slots'[j] \in Nat
    <3>1. j \in 1 .. Len(s) /\ ~(j - 1 > nentry) /\ (j <= i => j \in 1 .. nentry) /\ (~(j <= i) /\ j # i + 1 => j - 1 \in 1 .. nentry)
      BY <1>1, <1>3, <2>4
    <3>2. slots'[j] = CASE j - 1 < i \/ j - 1 > nentry -> s[j]
                        [] j - 1 = i -> k
                        [] OTHER -> s[j - 1]
      BY <1>2, <3>1
    <3>3. CASE j <= i
      <4>1. j - 1 < i
        BY <2>4, <3>3
      <4> QED  BY <1>1, <2>1, <3>1, <3>2, <3>3, <4>1 DEF Ascends
    <3>4. CASE j = i + 1
      <4>1. j - 1 = i /\ ~(j - 1 < i) /\ ~(j <= i)
        BY <2>4, <3>4
      <4> QED  BY <1>3, <3>1, <3>2, <3>4, <4>1
    <3>5. CASE ~(j <= i) /\ j # i + 1
      <4>1. ~(j - 1 < i) /\ j - 1 # i
        BY <2>4, <3>5
      <4> QED  BY <1>1, <2>1, <3>1, <3>2, <3>5, <4>1 DEF Ascends
    <3> QED  BY <3>3, <3>4, <3>5
  <2>6. Ascends(slots', nentry')
    <3> SUFFICES ASSUME NEW a \in 1 .. nentry + 1, NEW b \in 1 .. nentry + 1, a < b  PROVE slots'[a] < slots'[b]
      BY <1>2, <2>5 DEF Ascends
    <3>1. \A x, y \in 1 .. nentry : x < y => slots[x] < slots[y] /\ slots[x] \in Nat /\ slots[y] \in Nat
      BY <2>1 DEF Ascends
    <3>2. CASE b <= i
      <4>1. a <= i /\ a \in 1 .. nentry /\ b \in 1 .. nentry
        BY <1>3, <2>4, <3>2
      <4> QED  BY <2>5, <3>1, <3>2, <4>1
    <3>3. CASE b = i + 1
      <4>1. a <= i /\ a \in 1 .. nentry /\ ~(b <= i)
        BY <1>3, <2>4, <3>3
      <4> QED  BY <2>4, <2>5, <3>3, <4>1
    <3>4. CASE ~(b <= i) /\ b # i + 1
      <4>1. b - 1 \in 1 .. nentry /\ ~(b - 1 <= i)
        BY <1>3, <2>4, <3>4
      <4>2. slots'[b] = slots[b - 1] /\ k < slots[b - 1] /\ slots[b - 1] \in Nat
        BY <2>1, <2>4, <2>5, <3>4, <4>1 DEF Ascends
      <4>3. CASE a <= i
        <5>1. a \in 1 .. nentry
          BY <1>3, <2>4, <4>3
        <5>2. slots'[a] = slots[a] /\ slots[a] < k /\ slots[a] \in Nat
          BY <2>1, <2>4, <2>5, <4>3, <5>1 DEF Ascends
        <5> QED  BY <1>3, <4>2, <5>2
      <4>4. CASE a = i + 1
        <5>1. ~(a <= i)
          BY <2>4, <4>4
        <5> QED  BY <2>5, <4>2, <4>4, <5>1
      <4>5. CASE ~(a <= i) /\ a # i + 1
        <5>1. a - 1 \in 1 .. nentry /\ a - 1 < b - 1
          BY <1>3, <2>4, <4>1, <4>5
        <5>2. slots'[a] = slots[a - 1]
          BY <2>5, <4>5
        <5> QED  BY <3>1, <4>1, <4>2, <5>1, <5>2
      <4> QED  BY <4>3, <4>4, <4>5
    <3> QED  BY <3>2, <3>3, <3>4
  <2>7. {slots'[j] : j \in 1 .. nentry'} = keys'
    <3>1. ASSUME NEW j \in 1 .. nentry + 1  PROVE slots'[j] \in keys \cup {k}
      <4>1. (j <= i => j \in 1 .. nentry) /\ (~(j <= i) /\ j # i + 1 => j - 1 \in 1 .. nentry)
        BY <1>3, <2>4
      <4> QED  BY <2>1, <2>5, <4>1
    <3>2. ASSUME NEW j \in 1 .. nentry  PROVE \E l \in 1 .. nentry + 1 : slots'[l] = slots[j]
      <4>1. CASE j <= i
        <5>1. j \in 1 .. nentry + 1
          BY <1>3
        <5> QED  BY <2>5, <4>1, <5>1
      <4>2. CASE ~(j <= i)
        <5>1. j + 1 \in 1 .. nentry + 1 /\ ~(j + 1 <= i) /\ j + 1 # i + 1 /\ (j + 1) - 1 = j
          BY <1>3, <2>4, <4>2
        <5> QED  BY <2>5, <5>1
      <4> QED  BY <4>1, <4>2
    <3>3. i + 1 \in 1 .. nentry + 1 /\ slots'[i + 1] = k
      <4>1. i + 1 \in 1 .. nentry + 1 /\ ~(i + 1 <= i)
        BY <1>3, <2>4
      <4> QED  BY <2>5, <4>1
    <3>4. ASSUME NEW x \in keys \cup {k}  PROVE \E l \in 1 .. nentry + 1 : slots'[l] = x
      <4>1. CASE x \in keys
        BY <2>1, <3>2, <4>1
      <4>2. CASE x = k
        BY <3>3, <4>2
      <4> QED  BY <4>1, <4>2
    <3> QED  BY <1>2, <3>1, <3>4
  <2>8. IsFiniteSet(keys') /\ Cardinality(keys') = nentry'
    BY <1>2, <2>1, FS_AddElement
  <2> QED  BY <2>6, <2>7, <2>8
<1>6. nentry' \in Nat /\ nentry' <= Len(slots')
  BY <1>1, <1>2, <1>3, <1>4
<1>7. keys' \subseteq SeqKeys
  BY <1>2 DEF SequenceInv
<1> HIDE DEF s, i
<1> QED  BY <1>2, <1>4, <1>5, <1>6, <1>7 DEF SequenceInv, WalkInv, NoCursor

\* mdb_sequence_delete.
LEMMA SequenceDeleteInv ==
    ASSUME SequenceInv, NEW k \in SeqKeys, SequenceDelete(k)
    PROVE  SequenceInv'
<1> DEFINE i == Search(slots, k, nentry).i
           m == MovedDown(i)
<1>1. /\ nentry > 0 /\ misled' = (misled \/ k \notin keys) /\ keys' = keys \ {k} /\ nentry' = nentry - 1
      /\ slots' = IF nentry = 1 THEN <<>> ELSE Shrink(m, nentry - 1)
      /\ UNCHANGED <<cursor, seen>>
  BY DEF SequenceDelete
<1>2. /\ nentry \in Nat /\ nentry <= Len(slots) /\ Len(slots) \in Nat /\ DOMAIN slots = 1 .. Len(slots)
      /\ k \in Nat /\ SeqAlloc \in Nat \ {0}
  BY SequenceAssumption, ListFact DEF SequenceInv
<1>3. IsList(m) /\ Len(m) = Len(slots)
  <2>1. DOMAIN m = 1 .. Len(slots) /\ m = [j \in 1 .. Len(slots) |-> m[j]]
    BY <1>2 DEF MovedDown
  <2> HIDE DEF m
  <2> QED  BY <1>2, <2>1, FunctionIsList
<1>4. \A j \in 1 .. nentry - 1 : m[j] = IF j - 1 >= i THEN slots[j + 1] ELSE slots[j]
  <2> SUFFICES ASSUME NEW j \in 1 .. nentry - 1
               PROVE  m[j] = IF j - 1 >= i THEN slots[j + 1] ELSE slots[j]
    OBVIOUS
  <2>1. j \in DOMAIN slots /\ j < nentry
    BY <1>2
  <2> HIDE DEF i
  <2> QED  BY <2>1 DEF MovedDown
<1> HIDE DEF m
<1>5. /\ IsList(slots') /\ nentry' <= Len(slots')
      /\ \A j \in 1 .. nentry - 1 : slots'[j] = m[j]
  <2>1. CASE nentry = 1
    <3>1. slots' = <<>> /\ Len(slots') = 0 /\ <<>> \in Seq(Nat)
      BY <1>1, <2>1
    <3> QED  BY <1>1, <2>1, <3>1 DEF IsList
  <2>2. CASE nentry # 1 /\ ~(nentry - 1 <= Len(m) - SeqAlloc)
    <3>1. slots' = m
      BY <1>1, <2>2 DEF Shrink
    <3> QED  BY <1>1, <1>2, <1>3, <3>1
  <2>3. CASE nentry # 1 /\ nentry - 1 <= Len(m) - SeqAlloc
    <3> DEFINE l == Len(m) - SeqAlloc
    <3>1. slots' = SubSeq(m, 1, l)
      BY <1>1, <2>3 DEF Shrink
    <3>2. PICK V : m \in Seq(V)
      BY <1>3 DEF IsList
    <3>3. l \in Nat /\ 1 <= l /\ l <= Len(m) /\ nentry - 1 <= l
      BY <1>1, <1>2, <1>3, <2>3
    <3> HIDE DEF l
    <3>4. SubSeq(m, 1, l) \in Seq(V) /\ Len(SubSeq(m, 1, l)) = l /\ \A j \in 1 .. l : SubSeq(m, 1, l)[j] = m[j]
      <4>1. /\ SubSeq(m, 1, l) \in Seq(V) /\ Len(SubSeq(m, 1, l)) = IF 1 <= l THEN l - 1 + 1 ELSE 0
            /\ \A j \in 1 .. l - 1 + 1 : SubSeq(m, 1, l)[j] = m[1 + j - 1]
        BY <1>2, <1>3, <3>2, <3>3, SubSeqProperties
      <4>2. l - 1 + 1 = l /\ \A j \in 1 .. l : 1 + j - 1 = j
        BY <3>3
      <4> QED  BY <3>3, <4>1, <4>2
    <3>5. \A j \in 1 .. nentry - 1 : j \in 1 .. l
      BY <1>2, <3>3
    <3> QED  BY <1>1, <3>1, <3>3, <3>4, <3>5 DEF IsList
  <2> QED  BY <2>1, <2>2, <2>3
<1>6. ASSUME ~misled'
      PROVE  /\ Ascends(slots', nentry') /\ {slots'[j] : j \in 1 .. nentry'} = keys'
             /\ IsFiniteSet(keys') /\ Cardinality(keys') = nentry'
  <2>1. k \in keys /\ Ascends(slots, nentry) /\ {slots[j] : j \in 1 .. nentry} = keys /\ IsFiniteSet(keys) /\ Cardinality(keys) = nentry
    BY <1>1, <1>6 DEF SequenceInv
  <2>2. StopsAt(slots, k, nentry, Search(slots, k, nentry))
    BY <1>2, <2>1, SearchFinds
  <2>3. i \in 0 .. nentry - 1 /\ slots[i + 1] = k
    <3>1. PICK j \in 1 .. nentry : slots[j] = k
      BY <2>1
    <3>2. ~(k < k)
      BY <1>2
    <3> QED  BY <2>2, <3>1, <3>2 DEF StopsAt
  <2> HIDE DEF i
  <2>4. ASSUME NEW j \in 1 .. nentry - 1
        PROVE  /\ j \in 1 .. nentry /\ j + 1 \in 1 .. nentry
               /\ slots'[j] = IF j - 1 >= i THEN slots[j + 1] ELSE slots[j]
    BY <1>2, <1>4, <1>5
  <2>5. Ascends(slots', nentry')
    <3>1. \A x, y \in 1 .. nentry : slots[x] \in Nat /\ (x < y => slots[x] < slots[y])
      BY <2>1 DEF Ascends
    <3>2. ASSUME NEW a \in 1 .. nentry - 1, NEW b \in 1 .. nentry - 1, a < b  PROVE slots'[a] < slots'[b]
      <4>1. /\ a \in 1 .. nentry /\ a + 1 \in 1 .. nentry /\ b \in 1 .. nentry /\ b + 1 \in 1 .. nentry
            /\ a < b /\ a < b + 1 /\ a + 1 < b + 1 /\ ~(a - 1 >= i /\ ~(b - 1 >= i))
        BY <1>2, <2>3, <2>4, <3>2
      <4> QED  BY <2>4, <3>1, <4>1
    <3>3. \A a \in 1 .. nentry - 1 : slots'[a] \in Nat
      BY <2>4, <3>1
    <3> QED  BY <1>1, <3>2, <3>3 DEF Ascends
  <2>6. {slots'[j] : j \in 1 .. nentry'} = keys'
    <3>1. ASSUME NEW j \in 1 .. nentry - 1  PROVE slots'[j] \in keys /\ slots'[j] # k
      <4>1. IF j - 1 >= i THEN i + 1 < j + 1 ELSE j < i + 1
        BY <2>3
      <4>2. i + 1 \in 1 .. nentry
        BY <1>2, <2>3
      <4>3. \A x, y \in 1 .. nentry : slots[x] \in Nat /\ (x < y => slots[x] < slots[y])
        BY <2>1 DEF Ascends
      <4> QED  BY <1>2, <2>1, <2>3, <2>4, <4>1, <4>2, <4>3
    <3>2. ASSUME NEW j \in 1 .. nentry, slots[j] # k  PROVE \E l \in 1 .. nentry - 1 : slots'[l] = slots[j]
      <4>1. j # i + 1
        BY <2>3, <3>2
      <4>2. CASE j < i + 1
        <5>1. j \in 1 .. nentry - 1 /\ ~(j - 1 >= i)
          BY <1>2, <2>3, <4>2
        <5> QED  BY <2>4, <5>1
      <4>3. CASE ~(j < i + 1)
        <5>1. j - 1 \in 1 .. nentry - 1 /\ (j - 1) - 1 >= i /\ (j - 1) + 1 = j
          BY <1>2, <2>3, <4>1, <4>3
        <5> QED  BY <2>4, <5>1
      <4> QED  BY <4>2, <4>3
    <3> QED  BY <1>1, <2>1, <3>1, <3>2
  <2>7. IsFiniteSet(keys') /\ Cardinality(keys') = nentry'
    BY <1>1, <2>1, FS_RemoveElement
  <2> QED  BY <2>5, <2>6, <2>7
<1>7. nentry' \in Nat /\ keys' \subseteq SeqKeys /\ misled' \in BOOLEAN
  <2>1. nentry - 1 \in Nat /\ keys \ {k} \subseteq SeqKeys
    BY <1>1, <1>2 DEF SequenceInv
  <2>2. misled' \in BOOLEAN
    BY <1>1, Zenon DEF SequenceInv
  <2> QED  BY <1>1, <2>1, <2>2
<1> HIDE DEF i
<1>8. ~misled' => ~misled
  BY <1>1 DEF SequenceInv
<1> QED  BY <1>1, <1>5, <1>6, <1>7, <1>8 DEF SequenceInv, WalkInv, NoCursor

LEMMA SequenceResetInv == SequenceInv /\ SequenceReset => SequenceInv'
<1> SUFFICES ASSUME SequenceInv, SequenceReset  PROVE SequenceInv'
  OBVIOUS
<1>1. slots' = <<>> /\ nentry' = 0 /\ keys' = {} /\ UNCHANGED <<misled, cursor, seen>>
  BY DEF SequenceReset
<1>2. IsList(<<>>) /\ Len(<<>>) = 0 /\ <<>> \in Seq(Nat)
  BY DEF IsList
<1>3. Ascends(<<>>, 0) /\ {slots'[j] : j \in 1 .. 0} = {}
  BY DEF Ascends
<1>4. IsFiniteSet({}) /\ Cardinality({}) = 0
  BY FS_EmptySet
<1> QED  BY <1>1, <1>2, <1>3, <1>4 DEF SequenceInv, WalkInv, NoCursor

\* The entries of a table, as a walk copies them.
LEMMA EntriesFacts ==
    ASSUME SequenceInv, ~misled
    PROVE  Entries \in Seq(Nat) /\ Len(Entries) = nentry /\ ToSet(Entries) = keys /\ Increasing(Entries)
<1>1. /\ nentry \in Nat /\ nentry <= Len(slots) /\ Len(slots) \in Nat /\ IsList(slots)
      /\ Ascends(slots, nentry) /\ {slots[j] : j \in 1 .. nentry} = keys
  BY ListFact DEF SequenceInv
<1>2. PICK V : slots \in Seq(V)
  BY <1>1 DEF IsList
<1>3. Entries \in Seq(V) /\ Len(Entries) = nentry /\ \A j \in 1 .. nentry : Entries[j] = slots[j]
  <2>1. /\ Entries \in Seq(V) /\ Len(Entries) = IF 1 <= nentry THEN nentry - 1 + 1 ELSE 0
        /\ \A j \in 1 .. nentry - 1 + 1 : Entries[j] = slots[1 + j - 1]
    <3>1. 1 \in 1 .. Len(slots) + 1 /\ nentry \in 0 .. Len(slots)
      BY <1>1
    <3> QED  BY <1>2, <3>1, SubSeqProperties DEF Entries
  <2>2. nentry - 1 + 1 = nentry /\ (~(1 <= nentry) => nentry = 0) /\ \A j \in 1 .. nentry : 1 + j - 1 = j
    BY <1>1
  <2> QED  BY <2>1, <2>2
<1>4. DOMAIN Entries = 1 .. nentry
  BY <1>3, LenProperties
<1>5. Entries \in Seq(Nat)
  <2>1. Entries \in [1 .. nentry -> Nat]
    BY <1>1, <1>3, <1>4, LenProperties DEF Ascends
  <2> QED  BY <1>1, <2>1
<1> QED  BY <1>1, <1>3, <1>4, <1>5 DEF ToSet, Increasing, Ascends

LEMMA SequenceWalkInv == SequenceInv /\ (IterateStart \/ IterateNext) => SequenceInv'
<1> SUFFICES ASSUME SequenceInv, IterateStart \/ IterateNext  PROVE SequenceInv'
  OBVIOUS
<1>1. UNCHANGED <<slots, nentry, keys, misled>>
  BY DEF IterateStart, IterateNext
<1> SUFFICES ASSUME ~misled  PROVE WalkInv'
  BY <1>1 DEF SequenceInv, Ascends
<1>2. /\ cursor \in [at : Nat, entries : Seq(Nat)] /\ seen \in Seq(Nat)
      /\ cursor # NoCursor => /\ Len(seen) + 1 = cursor.at /\ Len(seen) <= Len(cursor.entries)
                              /\ \A j \in 1 .. Len(seen) : seen[j] = cursor.entries[j]
      /\ Increasing(cursor.entries) /\ Increasing(seen)
  BY DEF SequenceInv, WalkInv
<1>3. CASE IterateStart
  <2>1. cursor' = [at |-> 1, entries |-> Entries] /\ seen' = <<>>
    BY <1>3 DEF IterateStart
  <2>2. <<>> \in Seq(Nat) /\ Len(<<>>) = 0 /\ Increasing(<<>>)
    BY DEF Increasing
  <2>3. Entries \in Seq(Nat) /\ Len(Entries) \in Nat /\ Increasing(Entries)
    BY EntriesFacts, LenProperties
  <2>4. \A j \in 1 .. Len(seen') : FALSE
    BY <2>1
  <2> QED  BY <2>1, <2>2, <2>3, <2>4 DEF WalkInv
<1>4. CASE IterateNext /\ cursor.at > Len(cursor.entries)
  <2>1. cursor' = NoCursor /\ seen' = seen
    BY <1>4 DEF IterateNext
  <2>2. NoCursor \in [at : Nat, entries : Seq(Nat)] /\ Increasing(NoCursor.entries)
    BY DEF Increasing, NoCursor
  <2> QED  BY <1>2, <2>1, <2>2 DEF WalkInv
<1>5. CASE IterateNext /\ ~(cursor.at > Len(cursor.entries))
  <2> DEFINE at == cursor.at
             es == cursor.entries
  <2>1. /\ cursor # NoCursor /\ cursor' = [cursor EXCEPT !.at = @ + 1] /\ seen' = Append(seen, es[at])
    BY <1>5 DEF IterateNext
  <2>2. /\ at \in Nat /\ es \in Seq(Nat) /\ Len(seen) \in Nat /\ Len(es) \in Nat /\ at = Len(seen) + 1 /\ at <= Len(es)
        /\ at \in 1 .. Len(es) /\ es[at] \in Nat
        /\ DOMAIN es = 1 .. Len(es)
    <3>1. at \in Nat /\ es \in Seq(Nat) /\ Len(seen) \in Nat /\ Len(es) \in Nat /\ at = Len(seen) + 1 /\ DOMAIN es = 1 .. Len(es)
      BY <1>2, <2>1, LenProperties
    <3>2. at \in 1 .. Len(es)
      BY <1>5, <3>1
    <3> QED  BY <3>1, <3>2, ElementOfSeq
  <2>3. /\ seen' \in Seq(Nat) /\ Len(seen') = at
        /\ \A j \in 1 .. Len(seen) : seen'[j] = seen[j]
        /\ seen'[at] = es[at]
    BY <1>2, <2>1, <2>2, AppendFacts
  <2>4. \A j \in 1 .. at : seen'[j] = es[j] /\ (j # at => j \in 1 .. Len(seen))
    BY <1>2, <2>1, <2>2, <2>3
  <2>5. cursor' = [at |-> at + 1, entries |-> es]
    BY <1>2, <2>1
  <2>6. Increasing(seen')
    <3>1. DOMAIN seen' = 1 .. at
      BY <2>3, LenProperties
    <3>2. \A j \in 1 .. at : j \in DOMAIN es
      BY <2>2
    <3> QED  BY <1>2, <2>4, <3>1, <3>2 DEF Increasing
  <2> HIDE DEF at, es
  <2>7. /\ cursor' \in [at : Nat, entries : Seq(Nat)] /\ cursor'.at = at + 1 /\ cursor'.entries = es
    BY <2>2, <2>5
  <2>8. Increasing(es)
    BY <1>2 DEF es
  <2> QED  BY <2>2, <2>3, <2>4, <2>6, <2>7, <2>8 DEF WalkInv
<1> QED  BY <1>3, <1>4, <1>5

LEMMA SequenceNextInv == SequenceInv /\ [SequenceNext]_sequenceVars => SequenceInv'
<1> SUFFICES ASSUME SequenceInv, [SequenceNext]_sequenceVars  PROVE SequenceInv'
  OBVIOUS
<1>1. ASSUME NEW k \in SeqKeys, SequenceAdd(k)  PROVE SequenceInv'
  BY <1>1, SequenceAddInv
<1>2. ASSUME NEW k \in SeqKeys, SequenceDelete(k)  PROVE SequenceInv'
  BY <1>2, SequenceDeleteInv
<1>3. CASE SequenceReset
  BY <1>3, SequenceResetInv
<1>4. CASE IterateStart \/ IterateNext
  BY <1>4, SequenceWalkInv
<1>5. CASE UNCHANGED sequenceVars
  BY <1>5 DEF sequenceVars, SequenceInv, WalkInv, NoCursor, IsList, Ascends, Increasing
<1> QED  BY <1>1, <1>2, <1>3, <1>4, <1>5 DEF SequenceNext

\* Whatever is added and deleted in whatever order, and whatever the number of
\* slots the table grows by: its entries are the keys there are, in order, the
\* search finds each of them, and a walk returns keys in order.
THEOREM SequenceSound == SequenceSpec => []SequenceIsSorted
<1>1. SequenceInv => SequenceIsSorted
  <2> SUFFICES ASSUME SequenceInv  PROVE SequenceIsSorted
    OBVIOUS
  <2>1. ASSUME ~misled, NEW k \in keys  PROVE IsFound(k)
    <3>1. k \in Nat /\ nentry \in Nat /\ Ascends(slots, nentry) /\ {slots[j] : j \in 1 .. nentry} = keys
      BY <2>1, SequenceAssumption DEF SequenceInv
    <3>2. StopsAt(slots, k, nentry, Search(slots, k, nentry))
      BY <3>1, SearchFinds
    <3>3. PICK j \in 1 .. nentry : slots[j] = k
      BY <3>1
    <3>4. ~(k < k)
      BY <3>1
    <3>5. Search(slots, k, nentry).cmp = 0
      BY <3>2, <3>3, <3>4 DEF StopsAt
    <3> QED  BY <3>5 DEF IsFound
  <2>2. nentry <= Len(slots) /\ (~misled => nentry = Cardinality(keys) /\ Increasing(seen))
    BY DEF SequenceInv, WalkInv
  <2> QED  BY <2>1, <2>2, EntriesFacts DEF SequenceIsSorted
<1>2. SequenceInit => SequenceInv
  BY SequenceInitInv
<1>3. SequenceInv /\ [SequenceNext]_sequenceVars => SequenceInv'
  BY SequenceNextInv
<1> QED  BY <1>1, <1>2, <1>3, PTL DEF SequenceSpec

------------------------------------------------------------------------------
(* The hash table, for any keys, sizes and hash functions.  The invariant    *)
(* says what each chain holds and where on the list a walk is.               *)

\* What the search for a size does in a turn, h being what the turns that
\* follow return.
HalveBody(n, h) ==
    [r \in SizeRanges |->
        LET idx == (r[1] + r[2]) \div 2
        IN  CASE Primes[idx] = n -> n
              [] Primes[idx] # n /\ idx = r[1] -> Primes[r[2]]
              [] Primes[idx] > n /\ idx # r[1] -> h[<<r[1], idx>>]
              [] OTHER -> h[<<idx, r[2]>>]]

LEMMA SizesIncrease ==
    /\ Len(Primes) \in Nat \ {0} /\ DOMAIN Primes = 1 .. Len(Primes)
    /\ \A i \in DOMAIN Primes : Primes[i] \in Nat
    /\ \A i, j \in DOMAIN Primes : i <= j => Primes[i] <= Primes[j]
<1>1. Primes \in Seq(Nat) /\ Primes # <<>> /\ \A i, j \in DOMAIN Primes : i < j => Primes[i] < Primes[j]
  BY HashAssumption
<1>2. Len(Primes) \in Nat \ {0} /\ DOMAIN Primes = 1 .. Len(Primes) /\ \A i \in DOMAIN Primes : Primes[i] \in Nat
  BY <1>1, LenProperties, ElementOfSeq, EmptySeq
<1>3. ASSUME NEW i \in DOMAIN Primes, NEW j \in DOMAIN Primes, i <= j  PROVE Primes[i] <= Primes[j]
  <2>1. CASE i = j
    BY <1>2, <2>1
  <2>2. CASE i # j
    <3>1. i < j
      BY <1>2, <1>3, <2>2
    <3> QED  BY <1>1, <1>2, <3>1
  <2> QED  BY <2>1, <2>2
<1> QED  BY <1>2, <1>3

LEMMA TableSizeUnfolds ==
    ASSUME NEW n \in Nat
    PROVE  \E h : h = HalveBody(n, h) /\ TableSize(n) = h[<<1, Len(Primes)>>]
<1> DEFINE D == SizeRanges
           E == [h \in [D -> Nat] |-> HalveBody(n, h)]
           w == [r \in D |-> r[2] - r[1]]
<1>1. \A r \in D : /\ r[1] \in DOMAIN Primes /\ r[2] \in DOMAIN Primes
                   /\ r[1] \in Nat /\ r[2] \in Nat /\ r[1] <= r[2] /\ r[2] <= Len(Primes)
  BY SizesIncrease DEF SizeRanges
<1>2. ASSUME NEW r \in D
      PROVE  LET i == (r[1] + r[2]) \div 2
             IN  /\ i \in DOMAIN Primes
                 /\ i # r[1] => /\ <<r[1], i>> \in D /\ w[<<r[1], i>>] < w[r]
                                /\ <<i, r[2]>> \in D /\ w[<<i, r[2]>>] < w[r]
  <2> DEFINE i == (r[1] + r[2]) \div 2
  <2>1. /\ r[1] \in Nat /\ r[2] \in Nat /\ r[1] <= r[2] /\ r[2] <= Len(Primes) /\ 1 <= r[1]
        /\ i \in Nat /\ r[1] <= i /\ i <= r[2] /\ (i # r[1] => i < r[2])
    BY <1>1, HalfRange, SizesIncrease
  <2> HIDE DEF i
  <2>2. i \in DOMAIN Primes
    BY <2>1, SizesIncrease
  <2>3. <<r[1], i>> \in D /\ <<i, r[2]>> \in D
    BY <1>1, <2>1, <2>2 DEF SizeRanges
  <2>4. ASSUME i # r[1]  PROVE i - r[1] < r[2] - r[1] /\ r[2] - i < r[2] - r[1]
    BY <2>1, <2>4
  <2> QED  BY <2>2, <2>3, <2>4 DEF i
<1>3. E \in [[D -> Nat] -> [D -> Nat]]
  <2> SUFFICES ASSUME NEW h \in [D -> Nat]  PROVE HalveBody(n, h) \in [D -> Nat]
    OBVIOUS
  <2>1. ASSUME NEW r \in D  PROVE HalveBody(n, h)[r] \in Nat
    BY <1>1, <1>2, SizesIncrease DEF HalveBody
  <2>2. HalveBody(n, h) = [r \in D |-> HalveBody(n, h)[r]]
    BY DEF HalveBody
  <2> QED  BY <2>1, <2>2
<1>4. w \in [D -> Nat] /\ \A r \in D : w[r] < Len(Primes)
  <2> SUFFICES ASSUME NEW r \in D  PROVE r[2] - r[1] \in Nat /\ r[2] - r[1] < Len(Primes)
    OBVIOUS
  <2>1. /\ r[1] \in Nat /\ r[2] \in Nat /\ r[1] <= r[2] /\ r[2] <= Len(Primes) /\ r[1] # 0
    BY <1>1, SizesIncrease
  <2> QED  BY <2>1, SizesIncrease
<1>5. ASSUME NEW f \in [D -> Nat], NEW g \in [D -> Nat], NEW r \in D,
             \A q \in D : w[q] < w[r] => f[q] = g[q]
      PROVE  E[f][r] = E[g][r]
  <2> DEFINE i == (r[1] + r[2]) \div 2
  <2>1. i # r[1] => f[<<r[1], i>>] = g[<<r[1], i>>] /\ f[<<i, r[2]>>] = g[<<i, r[2]>>]
    BY <1>2, <1>5
  <2>2. \A h : HalveBody(n, h)[r] = CASE Primes[i] = n -> n
                                      [] Primes[i] # n /\ i = r[1] -> Primes[r[2]]
                                      [] Primes[i] > n /\ i # r[1] -> h[<<r[1], i>>]
                                      [] OTHER -> h[<<i, r[2]>>]
    BY DEF HalveBody
  <2> HIDE DEF i
  <2>3. HalveBody(n, f)[r] = HalveBody(n, g)[r]
    BY <2>1, <2>2
  <2> QED  BY <2>3
<1> HIDE DEF E, w, D
<1>6. \E f \in [D -> Nat] : f = E[f]
  <2>1. Len(Primes) \in Nat /\ 0 \in Nat
    BY SizesIncrease
  <2>2. LooksBelow(D, Nat, E, w, Len(Primes))
    BY <1>3, <1>4, <1>5 DEF LooksBelow
  <2> QED  BY <2>1, <2>2, RecursionExists
<1>61. PICK f \in [D -> Nat] : f = E[f]
  BY <1>6
<1>7. f = HalveBody(n, f)
  BY <1>61 DEF E
<1> DEFINE h == CHOOSE h : h = HalveBody(n, h)
<1>8. h = HalveBody(n, h)
  BY <1>7
<1>9. TableSize(n) = h[<<1, Len(Primes)>>]
  BY Zenon DEF TableSize, HalveBody
<1> QED  BY <1>8, <1>9

\* get_table_size returns the smallest size that is large enough.
LEMMA TableSizeFits ==
    ASSUME NEW n \in Nat, 2 <= n, n <= MaxEntries
    PROVE  /\ TableSize(n) \in Nat /\ TableSize(n) >= n
           /\ \A j \in DOMAIN Primes : Primes[j] >= n => Primes[j] >= TableSize(n)
<1>1. PICK h : h = HalveBody(n, h) /\ TableSize(n) = h[<<1, Len(Primes)>>]
  BY TableSizeUnfolds
<1> DEFINE Fits(x) == /\ x \in Nat /\ x >= n
                      /\ \A j \in DOMAIN Primes : Primes[j] >= n => Primes[j] >= x
           Around(r) == Primes[r[1]] <= n /\ n <= Primes[r[2]]
           Bad == {k \in Nat : \E r \in SizeRanges : r[2] - r[1] = k /\ Around(r) /\ ~Fits(h[r])}
<1>2. ASSUME NEW r \in SizeRanges, Around(r), \A k \in Bad : k >= r[2] - r[1]
      PROVE  Fits(h[r])
  <2> DEFINE i == (r[1] + r[2]) \div 2
  <2>1. /\ r[1] \in DOMAIN Primes /\ r[2] \in DOMAIN Primes /\ r = <<r[1], r[2]>>
        /\ r[1] \in Nat /\ r[2] \in Nat /\ r[1] <= r[2] /\ r[2] <= Len(Primes) /\ 1 <= r[1]
    BY SizesIncrease DEF SizeRanges
  <2>2. i \in Nat /\ r[1] <= i /\ i <= r[2] /\ (i = r[1] => r[2] <= r[1] + 1) /\ (i # r[1] => i < r[2])
    BY <2>1, HalfRange
  <2>3. h[r] = CASE Primes[i] = n -> n
                 [] Primes[i] # n /\ i = r[1] -> Primes[r[2]]
                 [] Primes[i] > n /\ i # r[1] -> h[<<r[1], i>>]
                 [] OTHER -> h[<<i, r[2]>>]
    BY <1>1 DEF HalveBody
  <2> HIDE DEF i
  <2>4. i \in DOMAIN Primes /\ Primes[i] \in Nat
    BY <2>1, <2>2, SizesIncrease
  <2>5. CASE Primes[i] = n
    BY <2>3, <2>5
  <2>6. CASE Primes[i] # n /\ i = r[1]
    <3>1. h[r] = Primes[r[2]]
      BY <2>3, <2>6
    <3>2. Primes[r[2]] \in Nat /\ Primes[r[2]] >= n
      BY <1>2, <2>1, SizesIncrease
    <3>3. ASSUME NEW j \in DOMAIN Primes, Primes[j] >= n  PROVE Primes[j] >= Primes[r[2]]
      <4>1. ~(j <= r[1])
        <5> SUFFICES ASSUME j <= r[1]  PROVE FALSE
          OBVIOUS
        <5>1. Primes[j] <= Primes[r[1]] /\ Primes[j] \in Nat /\ Primes[r[1]] \in Nat
          BY <2>1, SizesIncrease
        <5>2. Primes[r[1]] # n /\ Primes[r[1]] <= n
          BY <1>2, <2>6
        <5> QED  BY <3>3, <5>1, <5>2
      <4>2. r[2] <= j
        <5>1. j \in Nat
          BY SizesIncrease
        <5> QED  BY <2>1, <2>2, <2>6, <4>1, <5>1
      <4>3. Primes[r[2]] <= Primes[j] /\ Primes[j] \in Nat /\ Primes[r[2]] \in Nat
        BY <2>1, <4>2, SizesIncrease
      <4> QED  BY <4>3
    <3> QED  BY <3>1, <3>2, <3>3
  <2>7. CASE Primes[i] > n /\ i # r[1]
    <3> DEFINE q == <<r[1], i>>
    <3>1. q \in SizeRanges /\ q[1] = r[1] /\ q[2] = i /\ i - r[1] \in Nat /\ ~(i - r[1] >= r[2] - r[1])
      BY <2>1, <2>2, <2>4, <2>7 DEF SizeRanges
    <3>2. Around(q)
      BY <1>2, <2>4, <2>7, <3>1
    <3>3. h[r] = h[q]
      <4>1. Primes[i] # n
        BY <2>4, <2>7
      <4> QED  BY <2>3, <2>7, <4>1
    <3>4. Fits(h[q])
      BY <1>2, <3>1, <3>2
    <3> HIDE DEF q
    <3> QED  BY <3>3, <3>4
  <2>8. CASE Primes[i] # n /\ i # r[1] /\ ~(Primes[i] > n)
    <3> DEFINE q == <<i, r[2]>>
    <3>1. q \in SizeRanges /\ q[1] = i /\ q[2] = r[2] /\ r[2] - i \in Nat /\ ~(r[2] - i >= r[2] - r[1])
      BY <2>1, <2>2, <2>4, <2>8 DEF SizeRanges
    <3>2. Around(q)
      BY <1>2, <2>4, <2>8, <3>1
    <3>3. h[r] = h[q]
      BY <2>3, <2>8
    <3>4. Fits(h[q])
      BY <1>2, <3>1, <3>2
    <3> HIDE DEF q
    <3> QED  BY <3>3, <3>4
  <2> QED  BY <2>5, <2>6, <2>7, <2>8
<1>3. \A k \in Bad : \E y \in Bad : ~(k <= y)
  <2> SUFFICES ASSUME NEW k \in Bad, \A y \in Bad : k <= y  PROVE FALSE
    OBVIOUS
  <2>1. PICK r \in SizeRanges : r[2] - r[1] = k /\ Around(r) /\ ~Fits(h[r])
    OBVIOUS
  <2>2. \A y \in Bad : y >= r[2] - r[1]
    <3>1. Bad \subseteq Nat
      OBVIOUS
    <3> HIDE DEF Bad, Around, Fits
    <3> QED  BY <2>1, <3>1
  <2> QED  BY <1>2, <2>1, <2>2
<1>4. Bad = {}
  <2>1. Bad \subseteq Nat
    OBVIOUS
  <2> HIDE DEF Bad
  <2> QED  BY <1>3, <2>1, NatMinimum
<1>5. <<1, Len(Primes)>> \in SizeRanges /\ Around(<<1, Len(Primes)>>)
  <2>1. Primes[1] = 2 /\ MaxEntries \in Nat /\ MaxEntries <= Primes[Len(Primes)]
    BY HashAssumption
  <2>2. <<1, Len(Primes)>> \in SizeRanges
    BY SizesIncrease DEF SizeRanges
  <2>3. Primes[Len(Primes)] \in Nat
    BY SizesIncrease
  <2> QED  BY <2>1, <2>2, <2>3
<1>6. Fits(h[<<1, Len(Primes)>>])
  <2> HIDE DEF Fits, Around
  <2> QED  BY <1>2, <1>4, <1>5
<1> QED  BY <1>1, <1>6

------------------------------------------------------------------------------
OnWalk == IF walk.next = "head" THEN walk.due = {}
          ELSE \E at \in 1 .. Len(elist) :
                   elist[at] = walk.next /\ walk.due \subseteq {elist[j] : j \in at .. Len(elist)}

HashInv ==
    /\ asked \in Nat /\ 2 <= asked /\ asked <= MaxEntries
    /\ DOMAIN chains = 0 .. TableSize(asked) - 1 /\ hfunc \in [HashKeys -> DOMAIN chains]
    /\ chains \in [DOMAIN chains -> Seq(HashKeys)] /\ DOMAIN data \subseteq HashKeys
    /\ \A c \in DOMAIN chains : /\ IsInjective(chains[c])
                                /\ ToSet(chains[c]) = {k \in DOMAIN data : hfunc[k] = c}
    /\ elist \in Seq(HashKeys) /\ IsInjective(elist) /\ ToSet(elist) = DOMAIN data
    /\ walk \in [st : {"none", "on"}, next : HashKeys \cup {"head"}, due : SUBSET HashKeys]
    /\ walk.st = "on" /\ ~dangling => OnWalk

LEMMA HashInitInv == HashInit => HashInv
<1> SUFFICES ASSUME HashInit  PROVE HashInv
  OBVIOUS
<1>1. /\ asked \in 2 .. MaxEntries /\ MaxEntries \in Nat
      /\ chains = [c \in 0 .. TableSize(asked) - 1 |-> <<>>]
      /\ hfunc \in [HashKeys -> {c \in Spread : c < TableSize(asked)}] /\ Spread \subseteq Nat
      /\ elist = <<>> /\ data = <<>> /\ walk = NoWalk
  BY HashAssumption DEF HashInit
<1>2. asked \in Nat /\ 2 <= asked /\ asked <= MaxEntries
  BY <1>1
<1>3. TableSize(asked) \in Nat
  BY <1>2, TableSizeFits
<1>4. {c \in Spread : c < TableSize(asked)} \subseteq DOMAIN chains
  <2>1. DOMAIN chains = 0 .. TableSize(asked) - 1
    BY <1>1
  <2>2. \A c \in Nat : c < TableSize(asked) => c \in 0 .. TableSize(asked) - 1
    BY <1>3
  <2>3. Spread \subseteq Nat
    BY <1>1
  <2> QED  BY <2>1, <2>2, <2>3
<1>5. <<>> \in Seq(HashKeys) /\ IsInjective(<<>>) /\ ToSet(<<>>) = {} /\ DOMAIN <<>> = {}
  BY DEF IsInjective, ToSet
<1>6. walk \in [st : {"none", "on"}, next : HashKeys \cup {"head"}, due : SUBSET HashKeys] /\ walk.st # "on"
  BY <1>1 DEF NoWalk
<1>7. DOMAIN chains = 0 .. TableSize(asked) - 1 /\ \A c \in DOMAIN chains : chains[c] = <<>>
  BY <1>1
<1>8. chains \in [DOMAIN chains -> Seq(HashKeys)]
  BY <1>1, <1>5
<1>9. hfunc \in [HashKeys -> DOMAIN chains]
  BY <1>1, <1>4
<1>10. DOMAIN data = {} /\ ToSet(elist) = {} /\ IsInjective(elist) /\ elist \in Seq(HashKeys)
  BY <1>1, <1>5
<1>11. \A c \in DOMAIN chains : IsInjective(chains[c]) /\ ToSet(chains[c]) = {k \in DOMAIN data : hfunc[k] = c}
  BY <1>5, <1>7, <1>10
<1> QED  BY <1>2, <1>6, <1>7, <1>8, <1>9, <1>10, <1>11 DEF HashInv

\* A key that is there is in its chain.
LEMMA GetFacts ==
    ASSUME HashInv, NEW k \in HashKeys
    PROVE  Get(k) = IF k \in DOMAIN data THEN {data[k]} ELSE {}
<1>1. hfunc[k] \in DOMAIN chains /\ ToSet(chains[hfunc[k]]) = {j \in DOMAIN data : hfunc[j] = hfunc[k]}
  BY DEF HashInv
<1> QED  BY <1>1 DEF Get, Chain

\* mdb_hash_add.
LEMMA HashAddInv ==
    ASSUME HashInv, NEW k \in HashKeys, NEW d \in HashData, HashAdd(k, d)
    PROVE  HashInv'
<1> DEFINE h == hfunc[k]
<1>1. /\ chains' = [chains EXCEPT ![h] = Append(@, k)] /\ elist' = Append(elist, k)
      /\ data' = [j \in DOMAIN data \cup {k} |-> IF j = k THEN d ELSE data[j]]
      /\ UNCHANGED <<asked, hfunc, walk, dangling>> /\ Get(k) = {}
  BY DEF HashAdd
<1>2. k \notin DOMAIN data
  BY <1>1, GetFacts
<1>3. /\ hfunc \in [HashKeys -> DOMAIN chains] /\ h \in DOMAIN chains
      /\ chains \in [DOMAIN chains -> Seq(HashKeys)] /\ DOMAIN data \subseteq HashKeys
      /\ \A c \in DOMAIN chains : IsInjective(chains[c]) /\ ToSet(chains[c]) = {j \in DOMAIN data : hfunc[j] = c}
      /\ elist \in Seq(HashKeys) /\ IsInjective(elist) /\ ToSet(elist) = DOMAIN data
  BY DEF HashInv
<1>4. DOMAIN data' = DOMAIN data \cup {k}
  BY <1>1
<1>5. /\ Append(chains[h], k) \in Seq(HashKeys) /\ IsInjective(Append(chains[h], k))
      /\ ToSet(Append(chains[h], k)) = ToSet(chains[h]) \cup {k}
  <2>1. chains[h] \in Seq(HashKeys) /\ k \notin ToSet(chains[h]) /\ IsInjective(chains[h])
    BY <1>2, <1>3
  <2> QED  BY <2>1, AppendFacts
<1>6. /\ elist' \in Seq(HashKeys) /\ IsInjective(elist') /\ ToSet(elist') = DOMAIN data' /\ Len(elist') = Len(elist) + 1
      /\ \A j \in 1 .. Len(elist) : elist'[j] = elist[j]
  <2>1. k \notin ToSet(elist)
    BY <1>2, <1>3
  <2> QED  BY <1>1, <1>3, <1>4, <2>1, AppendFacts
<1>7. /\ chains' \in [DOMAIN chains -> Seq(HashKeys)] /\ DOMAIN chains' = DOMAIN chains
      /\ \A c \in DOMAIN chains : chains'[c] = IF c = h THEN Append(chains[h], k) ELSE chains[c]
  BY <1>1, <1>3, <1>5
<1>8. \A c \in DOMAIN chains : IsInjective(chains'[c]) /\ ToSet(chains'[c]) = {j \in DOMAIN data' : hfunc[j] = c}
  BY ZenonT(40), <1>3, <1>4, <1>5, <1>7
<1>9. walk.st = "on" /\ ~dangling => OnWalk'
  <2> SUFFICES ASSUME OnWalk, walk.next # "head"  PROVE OnWalk'
    BY <1>1 DEF HashInv, OnWalk
  <2>1. PICK at \in 1 .. Len(elist) : elist[at] = walk.next /\ walk.due \subseteq {elist[j] : j \in at .. Len(elist)}
    BY DEF OnWalk
  <2>2. Len(elist) \in Nat
    BY <1>3, LenProperties
  <2>3. at \in 1 .. Len(elist') /\ \A j \in at .. Len(elist) : j \in at .. Len(elist') /\ elist'[j] = elist[j]
    BY <1>6, <2>2
  <2>4. elist'[at] = walk'.next /\ walk'.due \subseteq {elist'[j] : j \in at .. Len(elist')}
    BY <1>1, <1>6, <2>1, <2>3
  <2> QED  BY <1>1, <2>3, <2>4 DEF OnWalk
<1>10. asked' = asked /\ hfunc' = hfunc /\ walk' = walk /\ dangling' = dangling
  BY <1>1
<1>11. DOMAIN data' \subseteq HashKeys
  BY <1>3, <1>4
<1> HIDE DEF h
<1> QED  BY <1>6, <1>7, <1>8, <1>9, <1>10, <1>11 DEF HashInv

\* mdb_hash_delete.
LEMMA HashDeleteInv ==
    ASSUME HashInv, NEW k \in HashKeys, HashDelete(k)
    PROVE  HashInv'
<1> DEFINE h == hfunc[k]
<1>1. /\ chains' = [chains EXCEPT ![h] = RemoveFirst(@, k)] /\ elist' = RemoveFirst(elist, k)
      /\ data' = Restrict(data, DOMAIN data \ {k})
      /\ walk' = [walk EXCEPT !.due = @ \ {k}]
      /\ dangling' = (dangling \/ (walk.st = "on" /\ walk.next = k))
      /\ UNCHANGED <<asked, hfunc>> /\ Get(k) # {}
  BY DEF HashDelete
<1>2. k \in DOMAIN data
  BY <1>1, GetFacts
<1>3. /\ hfunc \in [HashKeys -> DOMAIN chains] /\ h \in DOMAIN chains
      /\ chains \in [DOMAIN chains -> Seq(HashKeys)] /\ DOMAIN data \subseteq HashKeys
      /\ \A c \in DOMAIN chains : IsInjective(chains[c]) /\ ToSet(chains[c]) = {j \in DOMAIN data : hfunc[j] = c}
      /\ elist \in Seq(HashKeys) /\ IsInjective(elist) /\ ToSet(elist) = DOMAIN data
      /\ walk \in [st : {"none", "on"}, next : HashKeys \cup {"head"}, due : SUBSET HashKeys]
  BY DEF HashInv
<1>4. DOMAIN data' = DOMAIN data \ {k}
  BY <1>1 DEF Restrict
<1>5. /\ RemoveFirst(chains[h], k) \in Seq(HashKeys) /\ IsInjective(RemoveFirst(chains[h], k))
      /\ ToSet(RemoveFirst(chains[h], k)) = ToSet(chains[h]) \ {k}
  <2>1. chains[h] \in Seq(HashKeys) /\ k \in ToSet(chains[h]) /\ IsInjective(chains[h])
    BY <1>2, <1>3
  <2> QED  BY <2>1, RemoveFirstFacts
<1>6. PICK p \in 1 .. Len(elist) : elist[p] = k
  <2>1. DOMAIN elist = 1 .. Len(elist)
    BY <1>3, LenProperties
  <2> QED  BY <1>2, <1>3, <2>1 DEF ToSet
<1>7. /\ elist' \in Seq(HashKeys) /\ IsInjective(elist') /\ ToSet(elist') = DOMAIN data' /\ Len(elist') = Len(elist) - 1
      /\ \A j \in 1 .. Len(elist) - 1 : elist'[j] = IF j < p THEN elist[j] ELSE elist[j + 1]
  <2>1. elist' = RemoveAt(elist, p)
    BY <1>1, <1>3, <1>6, RemoveFirstIsRemoveAt
  <2> QED  BY <1>3, <1>4, <1>6, <2>1, RemoveAtFacts
<1>8. /\ chains' \in [DOMAIN chains -> Seq(HashKeys)] /\ DOMAIN chains' = DOMAIN chains
      /\ \A c \in DOMAIN chains : chains'[c] = IF c = h THEN RemoveFirst(chains[h], k) ELSE chains[c]
  BY <1>1, <1>3, <1>5
<1>9. ASSUME NEW c \in DOMAIN chains
      PROVE  IsInjective(chains'[c]) /\ ToSet(chains'[c]) = {j \in DOMAIN data' : hfunc[j] = c}
  <2>1. ToSet(chains[c]) = {j \in DOMAIN data : hfunc[j] = c} /\ IsInjective(chains[c])
    BY <1>3
  <2>2. CASE c = h
    <3>1. chains'[c] = RemoveFirst(chains[h], k)
      BY <1>8, <2>2
    <3>2. {j \in DOMAIN data : hfunc[j] = c} \ {k} = {j \in DOMAIN data' : hfunc[j] = c}
      BY <1>4
    <3> HIDE DEF h
    <3> QED  BY <1>5, <2>1, <2>2, <3>1, <3>2
  <2>3. CASE c # h
    <3>1. chains'[c] = chains[c]
      BY <1>8, <2>3
    <3>2. {j \in DOMAIN data : hfunc[j] = c} = {j \in DOMAIN data' : hfunc[j] = c}
      BY <1>4, <2>3
    <3> QED  BY <2>1, <3>1, <3>2
  <2> QED  BY <2>2, <2>3
<1>10. /\ walk' \in [st : {"none", "on"}, next : HashKeys \cup {"head"}, due : SUBSET HashKeys]
       /\ walk'.st = walk.st /\ walk'.next = walk.next /\ walk'.due = walk.due \ {k}
  BY <1>1, <1>3
<1>11. walk'.st = "on" /\ ~dangling' => OnWalk'
  <2> SUFFICES ASSUME walk.st = "on", ~dangling, walk.next # k, OnWalk  PROVE OnWalk'
    BY <1>1, <1>10 DEF HashInv
  <2>1. CASE walk.next = "head"
    BY <1>10, <2>1 DEF OnWalk
  <2>2. CASE walk.next # "head"
    <3>1. PICK at \in 1 .. Len(elist) : elist[at] = walk.next /\ walk.due \subseteq {elist[j] : j \in at .. Len(elist)}
      BY <2>2 DEF OnWalk
    <3>2. Len(elist) \in Nat /\ at # p /\ at \in Nat /\ p \in Nat
      BY <1>3, <1>6, <3>1, LenProperties
    <3> DEFINE b == IF at < p THEN at ELSE at - 1
    <3>3. b \in 1 .. Len(elist') /\ elist'[b] = walk.next
      <4>1. CASE at < p
        <5>1. b = at /\ at \in 1 .. Len(elist) - 1
          BY <3>2, <4>1
        <5> QED  BY <1>7, <3>1, <4>1, <5>1
      <4>2. CASE ~(at < p)
        <5>1. b = at - 1 /\ at - 1 \in 1 .. Len(elist) - 1 /\ ~(at - 1 < p) /\ (at - 1) + 1 = at
          BY <3>2, <4>2
        <5> QED  BY <1>7, <3>1, <5>1
      <4> QED  BY <4>1, <4>2
    <3>4. ASSUME NEW j \in at .. Len(elist), j # p  PROVE \E l \in b .. Len(elist') : elist'[l] = elist[j]
      <4>1. CASE j < p
        <5>1. at < p /\ j \in b .. Len(elist') /\ j \in 1 .. Len(elist) - 1
          BY <1>7, <3>2, <4>1
        <5> QED  BY <1>7, <4>1, <5>1
      <4>2. CASE ~(j < p)
        <5>1. j - 1 \in b .. Len(elist') /\ j - 1 \in 1 .. Len(elist) - 1 /\ ~(j - 1 < p) /\ (j - 1) + 1 = j
          BY <1>7, <3>2, <3>4, <4>2
        <5> QED  BY <1>7, <5>1
      <4> QED  BY <4>1, <4>2
    <3> HIDE DEF b
    <3>5. walk.due \ {k} \subseteq {elist'[l] : l \in b .. Len(elist')}
      BY <1>6, <3>1, <3>4
    <3> QED  BY <1>10, <2>2, <3>3, <3>5 DEF OnWalk
  <2> QED  BY <2>1, <2>2
<1>12. asked' = asked /\ hfunc' = hfunc /\ DOMAIN data' \subseteq HashKeys
  BY <1>1, <1>3, <1>4
<1>13. asked' \in Nat /\ 2 <= asked' /\ asked' <= MaxEntries /\ DOMAIN chains' = 0 .. TableSize(asked') - 1
  BY <1>8, <1>12 DEF HashInv
<1>14. /\ hfunc' \in [HashKeys -> DOMAIN chains'] /\ chains' \in [DOMAIN chains' -> Seq(HashKeys)]
       /\ \A c \in DOMAIN chains' : IsInjective(chains'[c]) /\ ToSet(chains'[c]) = {j \in DOMAIN data' : hfunc'[j] = c}
  BY <1>3, <1>8, <1>9, <1>12
<1> HIDE DEF h
<1> QED  BY <1>7, <1>10, <1>11, <1>12, <1>13, <1>14 DEF HashInv

LEMMA HashResetInv == HashInv /\ HashReset => HashInv'
<1> SUFFICES ASSUME HashInv, HashReset  PROVE HashInv'
  OBVIOUS
<1>1. /\ walk.st = "none" /\ chains' = [c \in DOMAIN chains |-> <<>>] /\ elist' = <<>> /\ data' = <<>>
      /\ UNCHANGED <<asked, hfunc, walk, dangling>>
  BY DEF HashReset
<1>2. <<>> \in Seq(HashKeys) /\ IsInjective(<<>>) /\ ToSet(<<>>) = {} /\ DOMAIN <<>> = {}
  BY DEF IsInjective, ToSet
<1>3. /\ DOMAIN chains' = DOMAIN chains /\ chains' \in [DOMAIN chains -> Seq(HashKeys)]
      /\ \A c \in DOMAIN chains : chains'[c] = <<>>
  BY <1>1, <1>2
<1>4. DOMAIN data' = {} /\ elist' \in Seq(HashKeys) /\ IsInjective(elist') /\ ToSet(elist') = {}
  BY <1>1, <1>2
<1>5. \A c \in DOMAIN chains : IsInjective(chains'[c]) /\ ToSet(chains'[c]) = {k \in DOMAIN data' : hfunc[k] = c}
  BY <1>2, <1>3, <1>4
<1> QED  BY <1>1, <1>3, <1>4, <1>5 DEF HashInv

\* What comes after an entry on the list.
LEMMA AfterFacts ==
    ASSUME HashInv, NEW at \in 1 .. Len(elist)
    PROVE  /\ After(elist[at]) = IF at = Len(elist) THEN "head" ELSE elist[at + 1]
           /\ After(elist[at]) \in HashKeys \cup {"head"}
           /\ at # Len(elist) => at + 1 \in 1 .. Len(elist) /\ elist[at + 1] # "head"
<1>1. elist \in Seq(HashKeys) /\ IsInjective(elist) /\ DOMAIN elist = 1 .. Len(elist) /\ Len(elist) \in Nat
      /\ \A j \in 1 .. Len(elist) : elist[j] \in HashKeys
  BY LenProperties, ElementOfSeq DEF HashInv
<1>2. \A j \in DOMAIN elist : elist[j] = elist[at] => j = at
  BY <1>1 DEF IsInjective
<1>3. (CHOOSE j \in DOMAIN elist : elist[j] = elist[at]) = at
  BY <1>1, <1>2
<1>4. at # Len(elist) => at + 1 \in 1 .. Len(elist) /\ elist[at + 1] \in HashKeys /\ elist[at + 1] # "head"
  <2>1. at # Len(elist) => at + 1 \in 1 .. Len(elist)
    <3>1. Len(elist) \in Nat
      BY <1>1
    <3> QED  BY <3>1
  <2> QED  BY <1>1, <2>1, HashAssumption
<1>5. After(elist[at]) = IF at = Len(elist) THEN "head" ELSE elist[at + 1]
  <2> DEFINE k == elist[at]
             p == CHOOSE j \in DOMAIN elist : elist[j] = k
  <2>1. p = at
    BY <1>3
  <2>2. After(k) = IF p = Len(elist) THEN "head" ELSE elist[p + 1]
    BY DEF After
  <2> HIDE DEF p
  <2> QED  BY <2>1, <2>2
<1> QED  BY <1>4, <1>5

LEMMA HashWalkInv == HashInv /\ (WalkFirst \/ WalkNext \/ WalkEnd) => HashInv'
<1> SUFFICES ASSUME HashInv, WalkFirst \/ WalkNext \/ WalkEnd  PROVE HashInv'
  OBVIOUS
<1>1. UNCHANGED <<chains, elist, data, asked, hfunc, dangling>>
  BY DEF WalkFirst, WalkNext, WalkEnd
<1>2. /\ elist \in Seq(HashKeys) /\ IsInjective(elist) /\ DOMAIN elist = 1 .. Len(elist) /\ Len(elist) \in Nat
      /\ \A j \in 1 .. Len(elist) : elist[j] \in HashKeys
      /\ walk \in [st : {"none", "on"}, next : HashKeys \cup {"head"}, due : SUBSET HashKeys]
  BY LenProperties, ElementOfSeq DEF HashInv
<1> SUFFICES /\ walk' \in [st : {"none", "on"}, next : HashKeys \cup {"head"}, due : SUBSET HashKeys]
             /\ walk'.st = "on" /\ ~dangling => OnWalk'
  BY <1>1 DEF HashInv
<1>3. ASSUME NEW at \in 1 .. Len(elist), NEW left \in SUBSET HashKeys,
             left \subseteq {elist[j] : j \in at + 1 .. Len(elist)},
             walk' = [st |-> "on", next |-> After(elist[at]), due |-> left]
      PROVE  /\ walk' \in [st : {"none", "on"}, next : HashKeys \cup {"head"}, due : SUBSET HashKeys]
             /\ OnWalk'
  <2>1. /\ After(elist[at]) = IF at = Len(elist) THEN "head" ELSE elist[at + 1]
        /\ After(elist[at]) \in HashKeys \cup {"head"}
        /\ at # Len(elist) => at + 1 \in 1 .. Len(elist) /\ elist[at + 1] # "head"
    BY AfterFacts
  <2>2. walk'.next = After(elist[at]) /\ walk'.due = left /\ elist' = elist
    BY <1>1, <1>3
  <2>3. CASE at = Len(elist)
    <3>1. \A j \in at + 1 .. Len(elist) : FALSE
      BY <1>2, <2>3
    <3>2. left = {}
      BY <1>3, <3>1
    <3> QED  BY <1>3, <2>1, <2>2, <2>3, <3>2 DEF OnWalk
  <2>4. CASE at # Len(elist)
    BY <1>3, <2>1, <2>2, <2>4 DEF OnWalk
  <2> QED  BY <2>3, <2>4
<1>4. CASE WalkFirst
  <2>1. elist # <<>> /\ walk' = [st |-> "on", next |-> After(elist[1]), due |-> ToSet(Tail(elist))]
    BY <1>4 DEF WalkFirst
  <2>2. 1 \in 1 .. Len(elist)
    BY <1>2, <2>1, EmptySeq
  <2>3. /\ Tail(elist) \in Seq(HashKeys) /\ Len(Tail(elist)) = Len(elist) - 1
        /\ \A i \in 1 .. Len(elist) - 1 : Tail(elist)[i] = elist[i + 1]
    BY <1>2, <2>1, TailFacts
  <2>4. DOMAIN Tail(elist) = 1 .. Len(elist) - 1 /\ \A i \in 1 .. Len(elist) - 1 : i + 1 \in 1 + 1 .. Len(elist)
    BY <1>2, <2>3, LenProperties
  <2>5. /\ ToSet(Tail(elist)) \subseteq {elist[j] : j \in 1 + 1 .. Len(elist)}
        /\ ToSet(Tail(elist)) \in SUBSET HashKeys
    BY <1>2, <2>2, <2>3, <2>4 DEF ToSet
  <2> QED  BY <1>3, <2>1, <2>2, <2>5
<1>5. CASE WalkNext
  <2>1. /\ walk.st = "on" /\ walk.next # "head" /\ ~dangling
        /\ walk' = [walk EXCEPT !.next = After(walk.next), !.due = @ \ {walk.next}]
    BY <1>5 DEF WalkNext
  <2>2. PICK at \in 1 .. Len(elist) : elist[at] = walk.next /\ walk.due \subseteq {elist[j] : j \in at .. Len(elist)}
    BY <2>1 DEF HashInv, OnWalk
  <2>3. walk' = [st |-> "on", next |-> After(elist[at]), due |-> walk.due \ {elist[at]}]
    BY <1>2, <2>1, <2>2
  <2>4. \A j \in at .. Len(elist) : j = at \/ j \in at + 1 .. Len(elist)
    BY <1>2
  <2>5. walk.due \ {elist[at]} \subseteq {elist[j] : j \in at + 1 .. Len(elist)} /\ walk.due \ {elist[at]} \in SUBSET HashKeys
    BY <1>2, <2>2, <2>4
  <2> QED  BY <1>3, <2>3, <2>5
<1>6. CASE WalkEnd
  BY <1>6 DEF WalkEnd, NoWalk
<1> QED  BY <1>4, <1>5, <1>6

LEMMA HashNextInv == HashInv /\ [HashNext]_hashVars => HashInv'
<1> SUFFICES ASSUME HashInv, [HashNext]_hashVars  PROVE HashInv'
  OBVIOUS
<1>1. ASSUME NEW k \in HashKeys, NEW d \in HashData, HashAdd(k, d)  PROVE HashInv'
  BY <1>1, HashAddInv
<1>2. ASSUME NEW k \in HashKeys, HashDelete(k)  PROVE HashInv'
  BY <1>2, HashDeleteInv
<1>3. CASE HashReset
  BY <1>3, HashResetInv
<1>4. CASE WalkFirst \/ WalkNext \/ WalkEnd
  BY <1>4, HashWalkInv
<1>5. CASE UNCHANGED hashVars
  BY <1>5 DEF hashVars, HashInv, OnWalk
<1> QED  BY <1>1, <1>2, <1>3, <1>4, <1>5 DEF HashNext

\* Whatever the keys, the hash function, the sizes there are and the size asked
\* for: the table is the smallest that is large enough, its chains and its list
\* agree, and a walk has before it the entries it has yet to return.
THEOREM HashSound == HashSpec => []HashIsSound
<1>1. HashInv => HashIsSound
  <2> SUFFICES ASSUME HashInv  PROVE HashIsSound
    OBVIOUS
  <2>1. /\ asked \in Nat /\ 2 <= asked /\ asked <= MaxEntries /\ DOMAIN chains = 0 .. TableSize(asked) - 1
        /\ elist \in Seq(HashKeys) /\ IsInjective(elist) /\ DOMAIN elist = 1 .. Len(elist) /\ Len(elist) \in Nat
        /\ ToSet(elist) = DOMAIN data
    BY LenProperties DEF HashInv
  <2>2. /\ TableSize(asked) \in Nat /\ TableSize(asked) >= asked
        /\ \A j \in DOMAIN Primes : Primes[j] >= asked => Primes[j] >= TableSize(asked)
    BY <2>1, TableSizeFits
  <2>3. Cardinality(DOMAIN chains) = TableSize(asked)
    <3>1. Cardinality(0 .. TableSize(asked) - 1) = TableSize(asked)
      <4>1. 0 \in Int /\ TableSize(asked) - 1 \in Int /\ ~(0 > TableSize(asked) - 1) /\ TableSize(asked) - 1 - 0 + 1 = TableSize(asked)
        BY <2>1, <2>2
      <4> QED  BY <4>1, FS_Interval
    <3> QED  BY <2>1, <3>1
  <2>4. ASSUME NEW k \in HashKeys
        PROVE  Cardinality({j \in DOMAIN elist : elist[j] = k}) = Cardinality(Get(k))
    <3>1. CASE k \in DOMAIN data
      <4>1. PICK p \in DOMAIN elist : elist[p] = k
        BY <2>1, <3>1 DEF ToSet
      <4>2. {j \in DOMAIN elist : elist[j] = k} = {p}
        BY <2>1, <4>1 DEF IsInjective
      <4>3. Cardinality({p}) = 1 /\ Cardinality({data[k]}) = 1
        BY FS_Singleton
      <4> QED  BY <3>1, <4>2, <4>3, GetFacts
    <3>2. CASE k \notin DOMAIN data
      <4>1. {j \in DOMAIN elist : elist[j] = k} = {}
        BY <2>1, <3>2 DEF ToSet
      <4> QED  BY <3>2, <4>1, GetFacts
    <3> QED  BY <3>1, <3>2
  <2>5. ASSUME walk.st = "on", ~dangling  PROVE walk.due \subseteq Ahead
    <3>1. OnWalk
      BY <2>5 DEF HashInv
    <3>2. CASE walk.next = "head"
      BY <3>1, <3>2 DEF OnWalk, Ahead
    <3>3. CASE walk.next # "head"
      <4>1. PICK at \in 1 .. Len(elist) : elist[at] = walk.next /\ walk.due \subseteq {elist[j] : j \in at .. Len(elist)}
        BY <3>1, <3>3 DEF OnWalk
      <4>2. (CHOOSE j \in DOMAIN elist : elist[j] = walk.next) = at
        <5>1. \A j \in DOMAIN elist : elist[j] = walk.next => j = at
          BY <2>1, <4>1 DEF IsInjective
        <5> QED  BY <2>1, <4>1, <5>1
      <4> QED  BY <3>3, <4>1, <4>2 DEF Ahead
    <3> QED  BY <3>2, <3>3
  <2>6. Cardinality(DOMAIN chains) >= asked /\ \A j \in DOMAIN Primes : Primes[j] >= asked => Primes[j] >= Cardinality(DOMAIN chains)
    BY <2>2, <2>3
  <2> QED  BY <2>1, <2>4, <2>5, <2>6 DEF HashIsSound
<1>2. HashInit => HashInv
  BY HashInitInv
<1>3. HashInv /\ [HashNext]_hashVars => HashInv'
  BY HashNextInv
<1> QED  BY <1>1, <1>2, <1>3, PTL DEF HashSpec
------------------------------------------------------------------------------
(* The triggers, for any callbacks and columns.  The inductive invariant    *)
(* says how far the report has come: which of what a change concerns is     *)
(* past (Past), that the trigger called is in the list that is walked       *)
(* (CallIsInList), that what was called is past or before that trigger      *)
(* (CallsAreBehind), and that no trigger there was passed over (NoneMissed).*)

IsChanges(cs) ==
    /\ cs # <<>>
    /\ \/ \E n \in Nat : cs \in [1 .. n -> ChangesMade]
       \/ \E k \in {"create", "drop"} : cs = <<[kind |-> k, mask |-> {}]>>

ListsAscend ==
    /\ added \in Nat
    /\ DOMAIN triggers = Lists
    /\ \A l \in Lists :
          /\ triggers[l] \in Seq([id : 1 .. added, cb : Callbacks])
          /\ \A i, j \in 1 .. Len(triggers[l]) : i < j => triggers[l][i].id < triggers[l][j].id

Shaped(r) ==
    \E i \in Reported, l \in Lists \cup {"none"}, m \in SUBSET Columns :
        /\ r = ReportAs(i, l, m)
        /\ l \notin m
        /\ IF l = "none" THEN i # 0 ELSE Concerned(i, l)
        /\ \A c \in m : Concerned(i, c)
        /\ changes[1].kind \in {"create", "drop"} => l = "table"

ReportSound == report = NoReport \/ (IsChanges(changes) /\ Shaped(report))

(* Of what the changes concern, list l of change i is behind.               *)
Past(r, i, l) ==
    \/ r = NoReport
    \/ i < r.change
    \/ i = r.change /\ l # r.list /\ l \notin r.mask

CallIsInList ==
    \/ calling = 0
    \/ /\ report # NoReport /\ report.list # "none"
       /\ \E p \in 1 .. Len(triggers[report.list]) : triggers[report.list][p].id = calling

CallsAreBehind ==
    \A c \in called :
        /\ c \in [change : Reported, list : Lists, id : Nat]
        /\ Concerned(c.change, c.list)
        /\ \/ Past(report, c.change, c.list)
           \/ c.change = report.change /\ c.list = report.list /\ c.id <= calling

NoneMissed ==
    \A i \in Reported, l \in Lists : Concerned(i, l) =>
        \A p \in 1 .. Len(triggers[l]) :
            LET id == triggers[l][p].id
            IN  /\ id \in due
                /\ \/ Past(report, i, l)
                   \/ i = report.change /\ l = report.list /\ id <= calling
                => [change |-> i, list |-> l, id |-> id] \in called

TriggerInv ==
    /\ ListsAscend /\ ReportSound /\ CallIsInList /\ CallsAreBehind /\ NoneMissed
    /\ calling \in Nat /\ ~twice /\ due \subseteq 1 .. added
    /\ changes = <<>> \/ IsChanges(changes)

\* What mdb_transaction_commit and mdb_table_drop have to report.
LEMMA ChangesFacts ==
    ASSUME NEW cs, IsChanges(cs)
    PROVE  /\ Len(cs) \in Nat \ {0} /\ DOMAIN cs = 1 .. Len(cs)
           /\ \A j \in 1 .. Len(cs) : cs[j].mask \subseteq Columns
           /\ \A j \in 1 .. Len(cs) : cs[j].kind = "delete" => cs[j].mask = {}
           /\ \/ cs[1].kind \in {"create", "drop"} /\ Len(cs) = 1
              \/ \A j \in 1 .. Len(cs) : cs[j].kind \in {"insert", "update", "delete"}
<1>1. CASE \E n \in Nat : cs \in [1 .. n -> ChangesMade]
  <2>1. PICK n \in Nat : cs \in [1 .. n -> ChangesMade]
    BY <1>1
  <2>2. cs \in Seq(ChangesMade) /\ Len(cs) = n /\ DOMAIN cs = 1 .. n
    BY <2>1, SeqDef, LenProperties
  <2>3. n # 0
    BY <2>2, EmptySeq DEF IsChanges
  <2>4. \A j \in 1 .. n : cs[j] \in ChangesMade
    BY <2>1
  <2> QED  BY <2>2, <2>3, <2>4 DEF ChangesMade
<1>2. CASE \E k \in {"create", "drop"} : cs = <<[kind |-> k, mask |-> {}]>>
  BY <1>2
<1> QED  BY <1>1, <1>2 DEF IsChanges

\* The columns are not the names of the other lists.
LEMMA ColumnsFacts ==
    /\ "transaction" \notin Columns /\ "table" \notin Columns /\ "row" \notin Columns /\ "none" \notin Columns
    /\ "none" \notin Lists
BY TriggerAssumption DEF Lists, Columns

\* Which lists a change concerns.
LEMMA ConcernedFacts ==
    ASSUME IsChanges(changes), NEW i \in Reported, NEW l \in Lists
    PROVE  IF changes[1].kind \in {"create", "drop"} THEN i = 1 /\ Len(changes) = 1 /\ (Concerned(i, l) <=> l = "table")
           ELSE /\ i \in 0 .. Len(changes) + 1
                /\ IF i \in 1 .. Len(changes)
                   THEN /\ changes[i].mask \subseteq Columns
                        /\ Concerned(i, l) <=> \/ changes[i].kind # "update" /\ l = "row"
                                              \/ l \in changes[i].mask
                   ELSE Concerned(i, l) <=> l = "transaction"
<1>1. /\ Len(changes) \in Nat \ {0} /\ DOMAIN changes = 1 .. Len(changes)
      /\ \A j \in 1 .. Len(changes) : changes[j].mask \subseteq Columns
      /\ \A j \in 1 .. Len(changes) : changes[j].kind = "delete" => changes[j].mask = {}
      /\ \/ changes[1].kind \in {"create", "drop"} /\ Len(changes) = 1
         \/ \A j \in 1 .. Len(changes) : changes[j].kind \in {"insert", "update", "delete"}
  BY ChangesFacts
<1>2. changes # <<>>
  BY DEF IsChanges
<1>3. l \in {"transaction", "table", "row"} \/ l \in Columns
  BY DEF Lists
<1>4. CASE changes[1].kind \in {"create", "drop"}
  <2>1. i = 1 /\ Len(changes) = 1 /\ 1 \in DOMAIN changes
    BY <1>1, <1>2, <1>4 DEF Reported
  <2> QED  BY <1>3, <1>4, <2>1, ColumnsFacts DEF Concerned
<1>5. CASE changes[1].kind \notin {"create", "drop"}
  <2>1. i \in 0 .. Len(changes) + 1
    BY <1>2, <1>5 DEF Reported
  <2>2. CASE i \in 1 .. Len(changes)
    <3>1. changes[i].kind \in {"insert", "update", "delete"} /\ i \in DOMAIN changes /\ changes[i].mask \subseteq Columns
      BY <1>1, <1>5, <2>2
    <3>2. changes[i].kind = "delete" => changes[i].mask = {}
      BY <1>1, <2>2
    <3> QED  BY <1>3, <1>5, <2>1, <2>2, <3>1, <3>2, ColumnsFacts DEF Concerned
  <2>3. CASE i \notin 1 .. Len(changes)
    <3>1. i \notin DOMAIN changes
      BY <1>1, <2>3
    <3> QED  BY <1>3, <1>5, <2>1, <2>3, <3>1, ColumnsFacts DEF Concerned
  <2> QED  BY <2>2, <2>3
<1> QED  BY <1>4, <1>5

LEMMA LowestIsIn ==
    ASSUME NEW m, m \subseteq Columns, m # {}
    PROVE  LowestColumn(m) \in m
<1> DEFINE S == {j \in DOMAIN ColumnNames : ColumnNames[j] \in m}
<1>1. S # {}
  BY DEF Columns, ToSet
<1>2. S \subseteq Nat
  BY TriggerAssumption, LenProperties
<1>3. \E x \in S : \A y \in S : x <= y
  BY <1>1, <1>2, NatMinimum
<1>4. Min(S) \in S
  BY <1>3 DEF Min
<1> QED  BY <1>4 DEF LowestColumn
LEMMA ReportIs ==
    ASSUME NEW r, Shaped(r)
    PROVE  /\ r.change \in Reported /\ r.list \in Lists \cup {"none"} /\ r.mask \subseteq Columns
           /\ r = ReportAs(r.change, r.list, r.mask)
           /\ r.list \notin r.mask
           /\ IF r.list = "none" THEN r.change # 0 ELSE Concerned(r.change, r.list)
           /\ \A c \in r.mask : Concerned(r.change, c)
           /\ changes[1].kind \in {"create", "drop"} => r.list = "table"
           /\ r # NoReport
<1>1. PICK i \in Reported, l \in Lists \cup {"none"}, m \in SUBSET Columns :
        /\ r = ReportAs(i, l, m)
        /\ l \notin m
        /\ IF l = "none" THEN i # 0 ELSE Concerned(i, l)
        /\ \A c \in m : Concerned(i, c)
        /\ changes[1].kind \in {"create", "drop"} => l = "table"
  BY DEF Shaped
<1>2. r.change = i /\ r.list = l /\ r.mask = m
  BY <1>1 DEF ReportAs
<1>3. ReportAs(i, l, m) # NoReport
  BY <1>1 DEF ReportAs, NoReport
<1> QED  BY <1>1, <1>2, <1>3

\* What a commit goes on with when a report is done: it is something the
\* change concerns, and then just that list is behind.
LEMMA NextReportFacts ==
    ASSUME IsChanges(changes), Shaped(report)
    PROVE  /\ NextReport = NoReport \/ Shaped(NextReport)
           /\ \A i \in Reported, l \in Lists : Concerned(i, l) =>
                 (Past(NextReport, i, l) <=> Past(report, i, l) \/ (i = report.change /\ l = report.list))
<1> DEFINE n == report.change  w == report.list  m == report.mask
<1>1. /\ n \in Reported /\ w \in Lists \cup {"none"} /\ m \subseteq Columns /\ w \notin m
      /\ IF w = "none" THEN n # 0 ELSE Concerned(n, w)
      /\ \A c \in m : Concerned(n, c)
      /\ changes[1].kind \in {"create", "drop"} => w = "table"
      /\ report # NoReport
  BY ReportIs
<1>2. \A i \in Reported, l \in Lists :
           IF changes[1].kind \in {"create", "drop"} THEN i = 1 /\ Len(changes) = 1 /\ (Concerned(i, l) <=> l = "table")
           ELSE /\ i \in 0 .. Len(changes) + 1
                /\ IF i \in 1 .. Len(changes)
                   THEN /\ changes[i].mask \subseteq Columns
                        /\ Concerned(i, l) <=> \/ changes[i].kind # "update" /\ l = "row"
                                              \/ l \in changes[i].mask
                   ELSE Concerned(i, l) <=> l = "transaction"
  BY ConcernedFacts
<1>3. Len(changes) \in Nat /\ Columns \subseteq Lists
  BY ChangesFacts DEF Lists
<1>4. \A i \in Reported : i \in Nat
  <2>1. \E l : l \in Lists
    BY DEF Lists
  <2> QED  BY <1>2, <1>3, <2>1
<1>5. CASE m # {}
  <2> DEFINE c == LowestColumn(m)
  <2>1. NextReport = ReportAs(n, c, m \ {c})
    BY <1>5 DEF NextReport
  <2>2. c \in m
    BY <1>1, <1>5, LowestIsIn
  <2> HIDE DEF c
  <2>3. Shaped(NextReport)
    <3>1. c \in Lists /\ c # "none"
      BY <1>1, <1>3, <2>2, ColumnsFacts
    <3>2. changes[1].kind \notin {"create", "drop"}
      BY <1>1, <1>2, <1>3, <2>2, ColumnsFacts
    <3> QED  BY <1>1, <2>1, <2>2, <3>1, <3>2 DEF Shaped
  <2>4. NextReport.change = n /\ NextReport.list = c /\ NextReport.mask = m \ {c} /\ NextReport # NoReport
    BY <2>1, <2>3, ReportIs DEF ReportAs
  <2> QED  BY <1>1, <2>2, <2>3, <2>4 DEF Past
<1>6. CASE m = {} /\ IsOver
  <2>1. NextReport = NoReport
    BY <1>6 DEF NextReport
  <2>2. ASSUME NEW i \in Reported, NEW l \in Lists, Concerned(i, l)
        PROVE  i < n \/ (i = n /\ l # w) \/ (i = n /\ l = w)
    <3>1. CASE w = "table"
      <4>1. changes[1].kind \in {"create", "drop"}
        <5>1. Concerned(n, "table") /\ "table" \in Lists
          BY <1>1, <3>1 DEF Lists
        <5> QED  BY <1>1, <1>2, <5>1, ColumnsFacts
      <4> QED  BY <1>1, <1>2, <2>2, <4>1
    <3>2. CASE n > Len(changes)
      <4>1. CASE changes[1].kind \in {"create", "drop"}
        BY <1>1, <1>2, <2>2, <4>1
      <4>2. CASE changes[1].kind \notin {"create", "drop"}
        <5>1. i \in 0 .. Len(changes) + 1 /\ n \in 0 .. Len(changes) + 1
          BY <1>1, <1>2, <2>2, <4>2
        <5> QED  BY <1>3, <3>2, <5>1
      <4> QED  BY <4>1, <4>2
    <3> QED  BY <1>6, <3>1, <3>2 DEF IsOver
  <2> QED  BY <1>1, <1>6, <2>1, <2>2 DEF Past
<1>7. CASE m = {} /\ ~IsOver
  <2>1. NextReport = ReportOf(n + 1) /\ n <= Len(changes) /\ w # "table"
    BY <1>1, <1>3, <1>4, <1>7 DEF NextReport, IsOver
  <2>2. changes[1].kind \notin {"create", "drop"} /\ changes # <<>>
    BY <1>1, <2>1 DEF IsChanges
  <2>3. n + 1 \in Reported /\ n + 1 \in 1 .. Len(changes) + 1 /\ n \in Nat
    BY <1>1, <1>3, <1>4, <2>1, <2>2 DEF Reported
  <2>4. \A i \in Reported, l \in Lists : Concerned(i, l) => (i < n + 1 <=> Past(report, i, l) \/ (i = n /\ l = w))
    BY <1>1, <1>4, <1>7, <2>3 DEF Past
  <2>5. CASE n = Len(changes)
    <3>1. NextReport = ReportAs(n + 1, "transaction", {}) /\ n + 1 \notin 1 .. Len(changes)
      BY <1>3, <2>1, <2>5 DEF ReportOf
    <3>2. "transaction" \in Lists
      BY DEF Lists
    <3>3. Concerned(n + 1, "transaction") /\ \A l \in Lists : Concerned(n + 1, l) => l = "transaction"
      BY <1>2, <2>2, <2>3, <3>1, <3>2
    <3>4. Shaped(NextReport)
      BY <2>2, <2>3, <3>1, <3>2, <3>3, ColumnsFacts DEF Shaped
    <3>5. NextReport.change = n + 1 /\ NextReport.list = "transaction" /\ NextReport.mask = {} /\ NextReport # NoReport
      BY <3>1, <3>4, ReportIs DEF ReportAs
    <3> QED  BY <2>4, <3>3, <3>4, <3>5 DEF Past
  <2>6. CASE n < Len(changes)
    <3> DEFINE e == changes[n + 1]  v == IF e.kind = "update" THEN "none" ELSE "row"
    <3>1. NextReport = ReportAs(n + 1, v, e.mask) /\ n + 1 \in 1 .. Len(changes)
      BY <1>3, <2>1, <2>3, <2>6 DEF ReportOf
    <3>2. /\ e.mask \subseteq Columns /\ "row" \in Lists /\ v \in Lists \cup {"none"}
          /\ \A l \in Lists : Concerned(n + 1, l) <=> (e.kind # "update" /\ l = "row") \/ l \in e.mask
      BY <1>2, <2>2, <2>3, <3>1, ColumnsFacts DEF Lists
    <3>3. v \notin e.mask /\ v # "none" => v = "row"
      BY <3>2, ColumnsFacts
    <3>4. IF v = "none" THEN n + 1 # 0 ELSE Concerned(n + 1, v)
      BY <2>3, <3>2, <3>3
    <3>5. \A c \in e.mask : Concerned(n + 1, c)
      BY <1>3, <3>2
    <3>6. v \notin e.mask /\ \A l \in Lists : Concerned(n + 1, l) => l = v \/ l \in e.mask
      BY <3>2, ColumnsFacts
    <3> HIDE DEF e, v
    <3>7. Shaped(NextReport)
      BY <2>2, <2>3, <3>1, <3>2, <3>4, <3>5, <3>6 DEF Shaped
    <3>8. NextReport.change = n + 1 /\ NextReport.list = v /\ NextReport.mask = e.mask /\ NextReport # NoReport
      BY <3>1, <3>7, ReportIs DEF ReportAs
    <3> QED  BY <2>4, <3>6, <3>7, <3>8 DEF Past
  <2> QED  BY <1>3, <2>1, <2>3, <2>5, <2>6
<1> QED  BY <1>5, <1>6, <1>7
LEMMA SeqMono ==
    ASSUME NEW S, NEW T, S \subseteq T, NEW q \in Seq(S)
    PROVE  q \in Seq(T)
<1>1. PICK n \in Nat : q \in [1 .. n -> S]
  BY SeqDef
<1>2. q \in [1 .. n -> T]
  BY <1>1
<1> QED  BY <1>2, SeqDef

\* What a change concerns depends on nothing but the changes.
LEMMA SameChanges ==
    ASSUME changes' = changes
    PROVE  /\ Reported' = Reported
           /\ \A i, l : Concerned(i, l)' <=> Concerned(i, l)
           /\ \A q : Shaped(q)' <=> Shaped(q)
           /\ \A q, i, l : Past(q, i, l)' <=> Past(q, i, l)
<1>1. Reported' = Reported
  BY DEF Reported
<1>2. ASSUME NEW i, NEW l  PROVE Concerned(i, l)' <=> Concerned(i, l)
  BY DEF Concerned
<1>3. ASSUME NEW q  PROVE Shaped(q)' <=> Shaped(q)
  <2>1. \A i, l : Concerned(i, l)' <=> Concerned(i, l)
    BY <1>2
  <2> QED  BY <1>1, <2>1 DEF Shaped
<1>4. \A q, i, l : Past(q, i, l)' <=> Past(q, i, l)
  BY DEF Past
<1> QED  BY <1>1, <1>2, <1>3, <1>4

LEMMA TriggerInitInv == TriggerInit => TriggerInv
<1> SUFFICES ASSUME TriggerInit PROVE TriggerInv
  OBVIOUS
<1>1. triggers = [l \in Lists |-> <<>>] /\ added = 0 /\ changes = <<>> /\ report = NoReport
      /\ calling = 0 /\ called = {} /\ twice = FALSE /\ due = {}
  BY DEF TriggerInit
<1>2. ListsAscend
  BY <1>1 DEF ListsAscend
<1>3. ReportSound /\ CallIsInList /\ CallsAreBehind
  BY <1>1 DEF ReportSound, CallIsInList, CallsAreBehind
<1>4. NoneMissed
  BY <1>1 DEF NoneMissed, Reported
<1> QED  BY <1>1, <1>2, <1>3, <1>4 DEF TriggerInv

\* What ListsAscend says of a list and of a trigger in it.
LEMMA TriggerListFacts ==
    ASSUME ListsAscend, NEW l \in Lists
    PROVE  /\ triggers[l] \in Seq([id : 1 .. added, cb : Callbacks])
           /\ Len(triggers[l]) \in Nat /\ DOMAIN triggers[l] = 1 .. Len(triggers[l])
           /\ \A i \in 1 .. Len(triggers[l]) : triggers[l][i].id \in 1 .. added /\ triggers[l][i].cb \in Callbacks
           /\ \A i, j \in 1 .. Len(triggers[l]) : i < j => triggers[l][i].id < triggers[l][j].id
           /\ added \in Nat
<1>1. triggers[l] \in Seq([id : 1 .. added, cb : Callbacks])
  BY DEF ListsAscend
<1>2. \A i \in 1 .. Len(triggers[l]) : triggers[l][i] \in [id : 1 .. added, cb : Callbacks]
  BY <1>1, ElementOfSeq
<1> QED  BY <1>1, <1>2, LenProperties DEF ListsAscend

LEMMA AddTriggerInv ==
    ASSUME TriggerInv, NEW l \in Lists, NEW cb \in Callbacks, AddTrigger(l, cb)
    PROVE  TriggerInv'
<1> DEFINE t == [id |-> added + 1, cb |-> cb]
           q == triggers[l]
           T == [id : 1 .. added + 1, cb : Callbacks]
           r == Append(q, t)
<1>1. triggers' = [triggers EXCEPT ![l] = r] /\ added' = added + 1
      /\ UNCHANGED <<changes, report, calling, called, twice, due, reports>>
  BY DEF AddTrigger
<1>2. ListsAscend /\ added \in Nat /\ DOMAIN triggers = Lists
  BY DEF TriggerInv, ListsAscend
<1>3. \A k \in Lists :
           /\ triggers[k] \in Seq([id : 1 .. added, cb : Callbacks])
           /\ Len(triggers[k]) \in Nat
           /\ \A i \in 1 .. Len(triggers[k]) : triggers[k][i].id \in 1 .. added
           /\ \A i, j \in 1 .. Len(triggers[k]) : i < j => triggers[k][i].id < triggers[k][j].id
  BY <1>2, TriggerListFacts
<1>4. \A k \in Lists : triggers[k] \in Seq(T)
  <2>1. [id : 1 .. added, cb : Callbacks] \subseteq T
    BY <1>2
  <2> HIDE DEF T
  <2> QED  BY <1>3, <2>1, SeqMono
<1>5. /\ r \in Seq(T) /\ Len(r) = Len(q) + 1
      /\ \A i \in 1 .. Len(q) : r[i] = q[i]
      /\ r[Len(q) + 1] = t /\ t.id = added + 1
  <2>1. t \in T /\ q \in Seq(T)
    <3>1. t \in T
      BY <1>2
    <3> HIDE DEF T, t
    <3>2. q \in Seq(T)
      BY <1>4
    <3> QED  BY <3>1, <3>2
  <2>2. t.id = added + 1
    OBVIOUS
  <2> HIDE DEF T, t
  <2> QED  BY <2>1, <2>2, AppendFacts
<1> HIDE DEF r, T
<1>6. \A k \in Lists : triggers'[k] = IF k = l THEN r ELSE triggers[k]
  BY <1>1, <1>2
<1>7. \A k \in Lists : \A p \in 1 .. Len(triggers[k]) : p \in 1 .. Len(triggers'[k]) /\ triggers'[k][p] = triggers[k][p]
  BY SMTT(40), <1>3, <1>5, <1>6
<1>8. \A k \in Lists : \A p \in 1 .. Len(triggers'[k]) :
         (p \in 1 .. Len(triggers[k]) /\ triggers'[k][p] = triggers[k][p]) \/ triggers'[k][p].id = added + 1
  <2> SUFFICES ASSUME NEW k \in Lists, NEW p \in 1 .. Len(triggers'[k])
               PROVE  (p \in 1 .. Len(triggers[k]) /\ triggers'[k][p] = triggers[k][p]) \/ triggers'[k][p].id = added + 1
    OBVIOUS
  <2>1. CASE k = l
    BY <1>3, <1>5, <1>6, <2>1
  <2>2. CASE k # l
    BY <1>6, <2>2
  <2> QED  BY <2>1, <2>2
<1>9. ListsAscend'
  <2>1. DOMAIN triggers' = Lists
    BY <1>1, <1>2
  <2>2. \A k \in Lists : triggers'[k] \in Seq(T)
    BY <1>4, <1>5, <1>6
  <2>3. ASSUME NEW k \in Lists, NEW i \in 1 .. Len(triggers'[k]), NEW j \in 1 .. Len(triggers'[k]), i < j
        PROVE  triggers'[k][i].id < triggers'[k][j].id
    <3>1. CASE k = l
      <4>1. i \in 1 .. Len(q) /\ triggers'[k][i] = q[i] /\ q[i].id \in 1 .. added
        BY <1>3, <1>5, <1>6, <2>3, <3>1
      <4>2. CASE j = Len(q) + 1
        BY <1>2, <1>5, <1>6, <3>1, <4>1, <4>2
      <4>3. CASE j # Len(q) + 1
        <5>1. j \in 1 .. Len(q) /\ triggers'[k][j] = q[j]
          BY <1>3, <1>5, <1>6, <3>1, <4>3
        <5> QED  BY <1>3, <2>3, <4>1, <5>1
      <4> QED  BY <4>2, <4>3
    <3>2. CASE k # l
      BY <1>3, <1>6, <2>3, <3>2
    <3> QED  BY <3>1, <3>2
  <2>4. [id : 1 .. added', cb : Callbacks] = T /\ added' \in Nat
    BY <1>1, <1>2 DEF T
  <2> QED  BY <2>1, <2>2, <2>3, <2>4 DEF ListsAscend
<1>10. CallIsInList'
  <2>1. CASE calling = 0
    BY <1>1, <2>1 DEF CallIsInList
  <2>2. CASE calling # 0
    <3>1. report # NoReport /\ report.list # "none" /\ report.list \in Lists
      BY <2>2, ReportIs DEF TriggerInv, CallIsInList, ReportSound
    <3>2. PICK p \in 1 .. Len(triggers[report.list]) : triggers[report.list][p].id = calling
      BY <2>2 DEF TriggerInv, CallIsInList
    <3> QED  BY <1>1, <1>7, <3>1, <3>2 DEF CallIsInList
  <2> QED  BY <2>1, <2>2
<1>11. ReportSound' /\ CallsAreBehind'
  BY <1>1, SameChanges DEF TriggerInv, ReportSound, CallsAreBehind
<1>12. NoneMissed'
  <2>1. added + 1 \notin due
    BY <1>2 DEF TriggerInv
  <2>2. NoneMissed
    BY DEF TriggerInv
  <2> QED  BY <1>1, <1>8, <2>1, <2>2, SameChanges DEF NoneMissed
<1>13. due \subseteq 1 .. added + 1
  BY <1>2 DEF TriggerInv
<1> QED  BY <1>1, <1>9, <1>10, <1>11, <1>12, <1>13 DEF TriggerInv

LEMMA DeleteTriggerInv ==
    ASSUME TriggerInv, NEW l \in Lists, NEW cb \in Callbacks, DeleteTrigger(l, cb)
    PROVE  TriggerInv'
<1> DEFINE q == triggers[l]
           T == [id : 1 .. added, cb : Callbacks]
<1>1. PICK j \in Registered(l, cb) :
          /\ q[j].id # calling
          /\ triggers' = [triggers EXCEPT ![l] = RemoveAt(q, j)]
          /\ due' = due \ {q[j].id}
  BY DEF DeleteTrigger
<1>2. UNCHANGED <<added, changes, report, calling, called, twice, reports>>
  BY DEF DeleteTrigger
<1>3. ListsAscend /\ added \in Nat /\ DOMAIN triggers = Lists
  BY DEF TriggerInv, ListsAscend
<1>4. \A k \in Lists :
           /\ triggers[k] \in Seq(T)
           /\ Len(triggers[k]) \in Nat /\ DOMAIN triggers[k] = 1 .. Len(triggers[k])
           /\ \A i \in 1 .. Len(triggers[k]) : triggers[k][i].id \in 1 .. added
           /\ \A i, h \in 1 .. Len(triggers[k]) : i < h => triggers[k][i].id < triggers[k][h].id
  BY <1>3, TriggerListFacts
<1>5. j \in 1 .. Len(q)
  BY <1>4 DEF Registered
<1>6. /\ RemoveAt(q, j) \in Seq(T)
      /\ Len(RemoveAt(q, j)) = Len(q) - 1
      /\ \A i \in 1 .. Len(q) - 1 : RemoveAt(q, j)[i] = IF i < j THEN q[i] ELSE q[i + 1]
  <2> HIDE DEF T
  <2>1. q \in Seq(T)
    BY <1>4
  <2> QED  BY <1>5, <2>1, RemoveAtElements
<1>7. \A k \in Lists : triggers'[k] = IF k = l THEN RemoveAt(q, j) ELSE triggers[k]
  BY <1>1, <1>3
<1>8. \A k \in Lists : \A p \in 1 .. Len(triggers'[k]) : \E o \in 1 .. Len(triggers[k]) : triggers'[k][p] = triggers[k][o]
  <2> SUFFICES ASSUME NEW k \in Lists, NEW p \in 1 .. Len(triggers'[k])
               PROVE  \E o \in 1 .. Len(triggers[k]) : triggers'[k][p] = triggers[k][o]
    OBVIOUS
  <2>1. CASE k = l
    <3>1. p \in 1 .. Len(q) - 1 /\ triggers'[k][p] = IF p < j THEN q[p] ELSE q[p + 1]
      BY <1>6, <1>7, <2>1
    <3>2. p \in 1 .. Len(q) /\ p + 1 \in 1 .. Len(q)
      BY <1>4, <3>1
    <3> QED  BY <2>1, <3>1, <3>2
  <2>2. CASE k # l
    BY <1>7, <2>2
  <2> QED  BY <2>1, <2>2
<1>9. ListsAscend'
  <2>1. DOMAIN triggers' = Lists
    BY <1>1, <1>3
  <2>2. \A k \in Lists : triggers'[k] \in Seq(T)
    BY <1>4, <1>6, <1>7
  <2>3. ASSUME NEW k \in Lists, NEW i \in 1 .. Len(triggers'[k]), NEW h \in 1 .. Len(triggers'[k]), i < h
        PROVE  triggers'[k][i].id < triggers'[k][h].id
    <3>1. CASE k = l
      <4>1. /\ i \in 1 .. Len(q) - 1 /\ triggers'[k][i] = IF i < j THEN q[i] ELSE q[i + 1]
            /\ h \in 1 .. Len(q) - 1 /\ triggers'[k][h] = IF h < j THEN q[h] ELSE q[h + 1]
        BY <1>6, <1>7, <3>1
      <4>2. \A a, b \in 1 .. Len(q) : a < b => q[a].id < q[b].id
        BY <1>4
      <4>3. Len(q) \in Nat
        BY <1>4
      <4> HIDE DEF q
      <4>4. CASE h < j
        BY <1>5, <2>3, <4>1, <4>2, <4>3, <4>4
      <4>5. CASE i < j /\ h >= j
        <5>1. i \in 1 .. Len(q) /\ h + 1 \in 1 .. Len(q) /\ ~(h < j) /\ i < h + 1
          BY <1>5, <2>3, <4>1, <4>3, <4>5
        <5>2. q[i].id < q[h + 1].id
          BY <4>2, <5>1
        <5> QED  BY <4>1, <4>5, <5>1, <5>2
      <4>6. CASE i >= j
        <5>1. i + 1 \in 1 .. Len(q) /\ h + 1 \in 1 .. Len(q) /\ ~(i < j) /\ ~(h < j) /\ i + 1 < h + 1
          BY <1>5, <2>3, <4>1, <4>3, <4>6
        <5>2. q[i + 1].id < q[h + 1].id
          BY <4>2, <5>1
        <5> QED  BY <4>1, <5>1, <5>2
      <4> QED  BY <1>5, <2>3, <4>1, <4>4, <4>5, <4>6
    <3>2. CASE k # l
      BY <1>4, <1>7, <2>3, <3>2
    <3> QED  BY <3>1, <3>2
  <2> QED  BY <1>2, <1>3, <2>1, <2>2, <2>3 DEF ListsAscend
<1>10. CallIsInList'
  <2>1. CASE calling = 0
    BY <1>2, <2>1 DEF CallIsInList
  <2>2. CASE calling # 0
    <3>1. report # NoReport /\ report.list # "none" /\ report.list \in Lists
      BY <2>2, ReportIs DEF TriggerInv, CallIsInList, ReportSound
    <3>2. PICK p \in 1 .. Len(triggers[report.list]) : triggers[report.list][p].id = calling
      BY <2>2 DEF TriggerInv, CallIsInList
    <3>3. \E o \in 1 .. Len(triggers'[report.list]) : triggers'[report.list][o].id = calling
      <4>1. CASE report.list = l
        <5>1. p # j /\ p \in 1 .. Len(q) /\ q[p].id = calling /\ Len(q) \in Nat
          BY <1>1, <1>4, <3>2, <4>1
        <5>2. CASE p < j
          <6>0. p \in 1 .. Len(q) - 1
            BY <1>5, <5>1, <5>2
          <6>1. p \in 1 .. Len(q) - 1 /\ RemoveAt(q, j)[p] = q[p]
            BY <1>6, <5>2, <6>0
          <6> QED  BY <1>6, <1>7, <4>1, <5>1, <6>1
        <5>3. CASE p > j
          <6>1. p - 1 \in 1 .. Len(q) - 1 /\ ~(p - 1 < j) /\ (p - 1) + 1 = p
            BY <1>5, <5>1, <5>3
          <6>2. RemoveAt(q, j)[p - 1] = q[p]
            BY <1>6, <6>1
          <6> QED  BY <1>6, <1>7, <4>1, <5>1, <6>1, <6>2
        <5> QED  BY <1>5, <5>1, <5>2, <5>3
      <4>2. CASE report.list # l
        BY <1>7, <3>1, <3>2, <4>2
      <4> QED  BY <4>1, <4>2
    <3> QED  BY <1>2, <3>1, <3>3 DEF CallIsInList
  <2> QED  BY <2>1, <2>2
<1>11. ReportSound' /\ CallsAreBehind'
  BY <1>2, SameChanges DEF TriggerInv, ReportSound, CallsAreBehind
<1>12. NoneMissed'
  <2>1. due' \subseteq due
    BY <1>1
  <2>2. NoneMissed
    BY DEF TriggerInv
  <2> QED  BY <1>2, <1>8, <2>1, <2>2, SameChanges DEF NoneMissed
<1> QED  BY <1>1, <1>2, <1>9, <1>10, <1>11, <1>12 DEF TriggerInv
\* MDB_DLIST_FOR_EACH: which triggers are behind the one that is called.
LEMMA WalkFacts ==
    ASSUME TriggerInv, report # NoReport
    PROVE  /\ IsChanges(changes) /\ Shaped(report)
           /\ report.list = "none" => Walked = <<>> /\ calling = 0
           /\ report.list # "none" => report.list \in Lists /\ Walked = triggers[report.list]
           /\ Len(Walked) \in Nat /\ NextToCall \in 1 .. Len(Walked) + 1
           /\ \A p \in 1 .. Len(Walked) : IF p < NextToCall THEN Walked[p].id <= calling ELSE Walked[p].id > calling
<1>1. IsChanges(changes) /\ Shaped(report) /\ report.list \in Lists \cup {"none"} /\ "none" \notin Lists
  BY ReportIs, ColumnsFacts DEF TriggerInv, ReportSound
<1>2. ListsAscend /\ CallIsInList /\ calling \in Nat
  BY DEF TriggerInv
<1>3. CASE report.list = "none"
  <2>1. Walked = <<>> /\ calling = 0 /\ NextToCall = 1
    BY <1>2, <1>3 DEF Walked, CallIsInList, NextToCall
  <2> QED  BY <1>1, <1>3, <2>1
<1>4. CASE report.list # "none"
  <2> DEFINE q == triggers[report.list]
  <2>1. report.list \in Lists /\ Walked = q
    BY <1>1, <1>4 DEF Walked
  <2>2. /\ Len(q) \in Nat /\ DOMAIN q = 1 .. Len(q)
        /\ \A i \in 1 .. Len(q) : q[i].id \in 1 .. added
        /\ \A i, j \in 1 .. Len(q) : i < j => q[i].id < q[j].id
        /\ added \in Nat
    BY <1>2, <2>1, TriggerListFacts
  <2>3. CASE calling = 0
    BY <1>1, <1>4, <2>1, <2>2, <2>3 DEF NextToCall
  <2>4. CASE calling # 0
    <3>1. PICK p \in 1 .. Len(q) : q[p].id = calling
      BY <1>2, <2>4 DEF CallIsInList
    <3> HIDE DEF q
    <3>2. \A i \in 1 .. Len(q) : q[i].id = calling => i = p
      BY <2>2, <3>1
    <3>3. (CHOOSE j \in DOMAIN q : q[j].id = calling) = p
      BY <2>2, <3>1, <3>2
    <3>4. NextToCall = 1 + p
      BY <2>1, <2>4, <3>3 DEF NextToCall
    <3>5. \A i \in 1 .. Len(q) : IF i < p + 1 THEN q[i].id <= calling ELSE q[i].id > calling
      BY <1>2, <2>2, <3>1
    <3>6. NextToCall \in 1 .. Len(q) + 1
      BY <2>2, <3>1, <3>4
    <3>7. Walked = triggers[report.list]
      BY <2>1 DEF q
    <3> QED  BY <1>1, <1>4, <2>1, <2>2, <3>4, <3>5, <3>6, <3>7
  <2> QED  BY <2>3, <2>4
<1> QED  BY <1>3, <1>4

LEMMA CallInv == TriggerInv /\ Call => TriggerInv'
<1> SUFFICES ASSUME TriggerInv, Call PROVE TriggerInv'
  OBVIOUS
<1> DEFINE w == report.list
           q == triggers[w]
           n == NextToCall
           id == q[n].id
           call == [change |-> report.change, list |-> w, id |-> id]
<1>1. report # NoReport /\ n <= Len(Walked)
  BY DEF Call
<1>2. /\ IsChanges(changes) /\ Shaped(report)
      /\ w = "none" => Walked = <<>> /\ calling = 0
      /\ w # "none" => w \in Lists /\ Walked = q
      /\ Len(Walked) \in Nat /\ n \in 1 .. Len(Walked) + 1
      /\ \A p \in 1 .. Len(Walked) : IF p < n THEN Walked[p].id <= calling ELSE Walked[p].id > calling
  BY <1>1, WalkFacts
<1>3. w # "none" /\ w \in Lists /\ Walked = q /\ Len(q) \in Nat /\ n \in 1 .. Len(q)
  BY <1>1, <1>2
<1>4. /\ \A p \in 1 .. Len(q) : p < n => q[p].id <= calling
      /\ \A i \in 1 .. Len(q) : q[i].id \in 1 .. added
      /\ \A i, j \in 1 .. Len(q) : i < j => q[i].id < q[j].id
      /\ added \in Nat /\ calling \in Nat
      /\ id > calling /\ id \in Nat
  <2>1. ListsAscend /\ calling \in Nat
    BY DEF TriggerInv
  <2>2. /\ \A i \in 1 .. Len(q) : q[i].id \in 1 .. added
        /\ \A i, j \in 1 .. Len(q) : i < j => q[i].id < q[j].id
        /\ added \in Nat
    BY <1>3, <2>1, TriggerListFacts
  <2> HIDE DEF q, n
  <2>3. \A p \in 1 .. Len(q) : IF p < n THEN q[p].id <= calling ELSE q[p].id > calling
    BY <1>2, <1>3
  <2>4. q[n].id > calling /\ q[n].id \in 1 .. added
    BY <1>3, <2>2, <2>3
  <2> QED  BY <2>1, <2>2, <2>3, <2>4
<1>5. /\ calling' = id /\ twice' = (twice \/ call \in called) /\ called' = called \cup {call}
      /\ UNCHANGED <<triggers, added, changes, report, due, reports>>
  BY <1>3 DEF Call
<1>6. Concerned(report.change, w) /\ report.change \in Reported
  BY <1>2, <1>3, ReportIs
<1> HIDE DEF n, id, q
<1>7. report.change \in Nat
  <2>1. Len(changes) \in Nat
    BY <1>2, ChangesFacts
  <2> QED  BY <1>6, <2>1 DEF Reported
<1>8. \A i, l : Concerned(i, l)' <=> Concerned(i, l)
  BY <1>5, SameChanges
<1>9. Reported' = Reported
  BY <1>5, SameChanges
<1>10. ~Past(report, report.change, w)
  BY <1>1, <1>7 DEF Past
<1>11. call.change = report.change /\ call.list = w /\ call.id = id
  OBVIOUS
<1> HIDE DEF call
<1>12. CallsAreBehind
  BY DEF TriggerInv
<1>13. call \notin called
  BY <1>4, <1>10, <1>11, <1>12 DEF CallsAreBehind
<1>14. \A s, i, l : Past(s, i, l)' <=> Past(s, i, l)
  BY <1>5, SameChanges
<1>15. CallsAreBehind'
  <2> SUFFICES ASSUME NEW c \in called'
               PROVE  /\ c \in [change : Reported, list : Lists, id : Nat]
                      /\ Concerned(c.change, c.list)
                      /\ Past(report, c.change, c.list) \/ (c.change = report.change /\ c.list = report.list /\ c.id <= calling')
    BY <1>5, <1>8, <1>9, <1>14 DEF CallsAreBehind
  <2>1. CASE c \in called
    <3>1. /\ c \in [change : Reported, list : Lists, id : Nat] /\ Concerned(c.change, c.list)
          /\ Past(report, c.change, c.list) \/ (c.change = report.change /\ c.list = report.list /\ c.id <= calling)
      BY <1>12, <2>1 DEF CallsAreBehind
    <3>2. c.id \in Nat
      BY <3>1
    <3> QED  BY <1>4, <1>5, <3>1, <3>2
  <2>2. CASE c = call
    <3>1. c \in [change : Reported, list : Lists, id : Nat]
      BY <1>3, <1>4, <1>6, <2>2 DEF call
    <3> QED  BY <1>4, <1>5, <1>6, <1>11, <2>2, <3>1
  <2> QED  BY <1>5, <2>1, <2>2
<1>16. NoneMissed'
  <2> SUFFICES ASSUME NEW i \in Reported, NEW l \in Lists, Concerned(i, l), NEW p \in 1 .. Len(triggers[l]),
                      triggers[l][p].id \in due,
                      Past(report, i, l) \/ (i = report.change /\ l = w /\ triggers[l][p].id <= id)
               PROVE  [change |-> i, list |-> l, id |-> triggers[l][p].id] \in called'
    BY <1>5, <1>8, <1>9, <1>14 DEF NoneMissed
  <2>1. NoneMissed
    BY DEF TriggerInv
  <2>2. CASE Past(report, i, l)
    BY <1>5, <2>1, <2>2 DEF NoneMissed
  <2>3. CASE i = report.change /\ l = w /\ triggers[l][p].id <= id
    <3>1. p \in 1 .. Len(q) /\ triggers[l][p] = q[p] /\ q[p].id <= q[n].id
      BY <2>3 DEF q, id
    <3>2. p <= n
      BY <1>3, <1>4, <3>1
    <3>3. CASE p = n
      BY <1>5, <2>3, <3>1, <3>3 DEF call, id
    <3>4. CASE p < n
      <4>1. triggers[l][p].id <= calling
        BY <1>4, <3>1, <3>4
      <4> QED  BY <1>5, <2>1, <2>3, <4>1 DEF NoneMissed
    <3> QED  BY <1>3, <3>1, <3>2, <3>3, <3>4
  <2> QED  BY <2>2, <2>3
<1>17. ListsAscend' /\ ReportSound'
  BY <1>5, SameChanges DEF TriggerInv, ListsAscend, ReportSound
<1>18. CallIsInList'
  <2>1. n \in 1 .. Len(triggers[w]) /\ triggers[w][n].id = id
    BY <1>3 DEF q, id
  <2> QED  BY <1>1, <1>3, <1>5, <2>1 DEF CallIsInList
<1>19. ~twice'
  BY <1>5, <1>13 DEF TriggerInv
<1> QED  BY <1>4, <1>5, <1>15, <1>16, <1>17, <1>18, <1>19 DEF TriggerInv

LEMMA EndReportInv == TriggerInv /\ EndReport => TriggerInv'
<1> SUFFICES ASSUME TriggerInv, EndReport PROVE TriggerInv'
  OBVIOUS
<1>1. /\ report # NoReport /\ NextToCall > Len(Walked)
      /\ calling' = 0 /\ report' = NextReport
      /\ triggers' = IF IsOver THEN Reset(changes) ELSE triggers
      /\ UNCHANGED <<added, changes, called, twice, due, reports>>
  BY DEF EndReport
<1>2. /\ IsChanges(changes) /\ Shaped(report)
      /\ report.list # "none" => report.list \in Lists /\ Walked = triggers[report.list]
      /\ \A p \in 1 .. Len(Walked) : Walked[p].id <= calling
  BY <1>1, WalkFacts
<1>3. /\ NextReport = NoReport \/ Shaped(NextReport)
      /\ \A i \in Reported, l \in Lists : Concerned(i, l) =>
           (Past(NextReport, i, l) <=> Past(report, i, l) \/ (i = report.change /\ l = report.list))
  BY <1>2, NextReportFacts
<1>4. \A i, l : Concerned(i, l)' <=> Concerned(i, l)
  BY <1>1, SameChanges
<1>5. Reported' = Reported
  BY <1>1, SameChanges
<1>6. \A s, i, l : Past(s, i, l)' <=> Past(s, i, l)
  BY <1>1, SameChanges
<1>7. ListsAscend
  BY DEF TriggerInv
<1>8. DOMAIN triggers = Lists /\ DOMAIN triggers' = Lists
      /\ \A l \in Lists : triggers'[l] = triggers[l] \/ triggers'[l] = <<>>
  BY <1>1, <1>7 DEF ListsAscend, Reset
<1>9. ListsAscend'
  <2>1. \A l \in Lists : triggers'[l] \in Seq([id : 1 .. added, cb : Callbacks])
    BY <1>7, <1>8, EmptySeq DEF ListsAscend
  <2>2. \A l \in Lists : \A i, j \in 1 .. Len(triggers'[l]) : i < j => triggers'[l][i].id < triggers'[l][j].id
    BY <1>7, <1>8, EmptySeq DEF ListsAscend
  <2> QED  BY <1>1, <1>7, <1>8, <2>1, <2>2 DEF ListsAscend
<1>10. ReportSound'
  BY <1>1, <1>2, <1>3, SameChanges DEF ReportSound
<1>11. CallIsInList'
  BY <1>1 DEF CallIsInList
<1>12. CallsAreBehind'
  <2>1. CallsAreBehind
    BY DEF TriggerInv
  <2> SUFFICES ASSUME NEW c \in called
               PROVE  /\ c \in [change : Reported, list : Lists, id : Nat]
                      /\ Concerned(c.change, c.list)
                      /\ Past(NextReport, c.change, c.list)
    BY <1>1, <1>4, <1>5, <1>6 DEF CallsAreBehind
  <2>2. /\ c \in [change : Reported, list : Lists, id : Nat] /\ Concerned(c.change, c.list)
        /\ Past(report, c.change, c.list) \/ (c.change = report.change /\ c.list = report.list)
    BY <2>1 DEF CallsAreBehind
  <2>3. c.change \in Reported /\ c.list \in Lists
    BY <2>2
  <2> QED  BY <1>3, <2>2, <2>3
<1>13. NoneMissed'
  <2>1. NoneMissed
    BY DEF TriggerInv
  <2> SUFFICES ASSUME NEW i \in Reported, NEW l \in Lists, Concerned(i, l), NEW p \in 1 .. Len(triggers'[l]),
                      triggers'[l][p].id \in due,
                      Past(NextReport, i, l) \/ (i = report'.change /\ l = report'.list /\ triggers'[l][p].id <= 0)
               PROVE  [change |-> i, list |-> l, id |-> triggers'[l][p].id] \in called
    BY <1>1, <1>4, <1>5, <1>6 DEF NoneMissed
  <2>2. triggers'[l] = triggers[l]
    BY <1>8
  <2>3. p \in 1 .. Len(triggers[l]) /\ triggers[l][p].id \in 1 .. added /\ added \in Nat
    BY <1>7, <2>2, TriggerListFacts
  <2>4. Past(NextReport, i, l)
    BY <2>2, <2>3
  <2>5. CASE Past(report, i, l)
    BY <2>1, <2>2, <2>3, <2>5 DEF NoneMissed
  <2>6. CASE i = report.change /\ l = report.list
    <3>1. triggers[l][p].id <= calling
      BY <1>2, <2>3, <2>6, ColumnsFacts
    <3> QED  BY <2>1, <2>2, <2>3, <2>6, <3>1 DEF NoneMissed
  <2> QED  BY <1>3, <2>4, <2>5, <2>6
<1> QED  BY <1>1, <1>9, <1>10, <1>11, <1>12, <1>13 DEF TriggerInv

\* A report starts with what the transaction or the table is told first;
\* nothing that the changes concern is behind yet.
LEMMA StartInv ==
    ASSUME TriggerInv, NEW cs, NEW first, IsChanges(cs), Start(cs, first),
           \/ first = ReportAs(0, "transaction", {}) /\ cs[1].kind \notin {"create", "drop"}
           \/ first = ReportAs(1, "table", {}) /\ cs[1].kind \in {"create", "drop"}
    PROVE  TriggerInv'
<1>1. /\ changes' = cs /\ report' = first
      /\ calling' = 0 /\ called' = {} /\ twice' = FALSE
      /\ due' = {t.id : t \in All}
      /\ UNCHANGED <<triggers, added>>
  BY DEF Start
<1>2. ListsAscend
  BY DEF TriggerInv
<1>3. due' \subseteq 1 .. added
  <2>1. ASSUME NEW l \in Lists, NEW t \in ToSet(triggers[l])  PROVE t.id \in 1 .. added
    BY <1>2, TriggerListFacts DEF ToSet
  <2> QED  BY <1>1, <2>1 DEF All
<1>4. /\ Len(cs) \in Nat \ {0} /\ DOMAIN cs = 1 .. Len(cs) /\ cs # <<>>
      /\ cs[1].kind \in {"create", "drop"} => Len(cs) = 1
      /\ cs[1].kind \notin {"create", "drop"} => \A j \in 1 .. Len(cs) : cs[j].kind \in {"insert", "update", "delete"}
  BY ChangesFacts DEF IsChanges
<1>5. Reported' = IF cs[1].kind \in {"create", "drop"} THEN {1} ELSE 0 .. Len(cs) + 1
  BY <1>1, <1>4 DEF Reported
<1>6. \A l \in Lists : l \in {"transaction", "table", "row"} \/ l \in Columns
  BY DEF Lists
<1>7. CASE first = ReportAs(0, "transaction", {}) /\ cs[1].kind \notin {"create", "drop"}
  <2>1. first.change = 0 /\ first.list = "transaction" /\ first.mask = {} /\ first # NoReport
    BY <1>7 DEF ReportAs, NoReport
  <2>2. 0 \in Reported' /\ Reported' \subseteq Nat /\ "transaction" \in Lists
    BY <1>4, <1>5, <1>7 DEF Lists
  <2>3. \A l \in Lists : Concerned(0, l)' <=> l = "transaction"
    <3>1. 0 \notin DOMAIN changes'
      BY <1>1, <1>4
    <3> QED  BY <1>6, <3>1, ColumnsFacts DEF Concerned
  <2>4. Shaped(first)'
    BY <1>1, <1>7, <2>2, <2>3, ColumnsFacts DEF Shaped
  <2>5. ReportSound'
    BY <1>1, <2>4 DEF ReportSound
  <2>6. \A i \in Reported', l \in Lists : Concerned(i, l)' => ~Past(first, i, l)
    BY <2>1, <2>2, <2>3 DEF Past
  <2>7. NoneMissed'
    <3> SUFFICES ASSUME NEW i \in Reported', NEW l \in Lists, Concerned(i, l)', NEW p \in 1 .. Len(triggers[l]),
                        Past(first, i, l) \/ triggers[l][p].id <= 0
                 PROVE  FALSE
      BY <1>1 DEF NoneMissed, Past
    <3>1. triggers[l][p].id \in 1 .. added /\ added \in Nat
      BY <1>2, TriggerListFacts
    <3> QED  BY <2>6, <3>1
  <2> QED  BY <1>1, <1>2, <1>3, <2>5, <2>7 DEF TriggerInv, ListsAscend, CallIsInList, CallsAreBehind
<1>8. CASE first = ReportAs(1, "table", {}) /\ cs[1].kind \in {"create", "drop"}
  <2>1. first.change = 1 /\ first.list = "table" /\ first.mask = {} /\ first # NoReport
    BY <1>8 DEF ReportAs, NoReport
  <2>2. Reported' = {1} /\ "table" \in Lists
    BY <1>5, <1>8 DEF Lists
  <2>3. \A l \in Lists : Concerned(1, l)' <=> l = "table"
    <3>1. 1 \in DOMAIN changes' /\ changes'[1].kind \in {"create", "drop"}
      BY <1>1, <1>4, <1>8
    <3> QED  BY <1>6, <3>1, ColumnsFacts DEF Concerned
  <2>4. Shaped(first)'
    BY <1>1, <1>8, <2>2, <2>3, ColumnsFacts DEF Shaped
  <2>5. ReportSound'
    BY <1>1, <2>4 DEF ReportSound
  <2>6. \A i \in Reported', l \in Lists : Concerned(i, l)' => ~Past(first, i, l)
    BY <2>1, <2>2, <2>3 DEF Past
  <2>7. NoneMissed'
    <3> SUFFICES ASSUME NEW i \in Reported', NEW l \in Lists, Concerned(i, l)', NEW p \in 1 .. Len(triggers[l]),
                        Past(first, i, l) \/ triggers[l][p].id <= 0
                 PROVE  FALSE
      BY <1>1 DEF NoneMissed, Past
    <3>1. triggers[l][p].id \in 1 .. added /\ added \in Nat
      BY <1>2, TriggerListFacts
    <3> QED  BY <2>6, <3>1
  <2> QED  BY <1>1, <1>2, <1>3, <2>5, <2>7 DEF TriggerInv, ListsAscend, CallIsInList, CallsAreBehind
<1> QED  BY <1>7, <1>8

LEMMA TriggerNextInv == TriggerInv /\ [TriggerNext]_triggerVars => TriggerInv'
<1> SUFFICES ASSUME TriggerInv, [TriggerNext]_triggerVars PROVE TriggerInv'
  OBVIOUS
<1>1. ASSUME NEW l \in Lists, NEW cb \in Callbacks, AddTrigger(l, cb)  PROVE TriggerInv'
  BY <1>1, AddTriggerInv
<1>2. ASSUME NEW l \in Lists, NEW cb \in Callbacks, DeleteTrigger(l, cb)  PROVE TriggerInv'
  BY <1>2, DeleteTriggerInv
<1>3. CASE CommitReported
  <2>0. PICK n \in 1 .. MaxChanges : \E cs \in [1 .. n -> ChangesMade] : Start(cs, ReportAs(0, "transaction", {}))
    BY <1>3 DEF CommitReported
  <2>1. PICK cs \in [1 .. n -> ChangesMade] : Start(cs, ReportAs(0, "transaction", {}))
    BY <2>0
  <2>2. n \in Nat /\ n >= 1
    OBVIOUS
  <2>3. cs \in Seq(ChangesMade) /\ Len(cs) = n /\ cs # <<>>
    BY <2>2, SeqDef, LenProperties, EmptySeq
  <2>4. IsChanges(cs)
    BY <2>2, <2>3 DEF IsChanges
  <2>5. cs[1] \in ChangesMade
    BY <2>2
  <2>6. cs[1].kind \notin {"create", "drop"}
    BY <2>5 DEF ChangesMade
  <2> QED  BY <2>1, <2>4, <2>6, StartInv
<1>4. CASE TableCreated \/ TableDropped
  <2>1. PICK k \in {"create", "drop"} : Start(<<[kind |-> k, mask |-> {}]>>, ReportAs(1, "table", {}))
    BY <1>4 DEF TableCreated, TableDropped
  <2> DEFINE cs == <<[kind |-> k, mask |-> {}]>>
  <2>2. Len(cs) = 1 /\ cs[1].kind = k
    OBVIOUS
  <2>3. IsChanges(cs)
    BY <2>2, EmptySeq DEF IsChanges
  <2> HIDE DEF cs
  <2> QED  BY <2>1, <2>2, <2>3, StartInv DEF cs
<1>5. CASE Call
  BY <1>5, CallInv
<1>6. CASE EndReport
  BY <1>6, EndReportInv
<1>7. CASE UNCHANGED triggerVars
  <2>1. UNCHANGED <<triggers, added, changes, report, calling, called, twice, due, reports>>
    BY <1>7 DEF triggerVars
  <2>2. ListsAscend' /\ ReportSound' /\ CallIsInList'
    BY <2>1, SameChanges DEF TriggerInv, ListsAscend, ReportSound, CallIsInList
  <2>3. CallsAreBehind' /\ NoneMissed'
    BY <2>1, SameChanges DEF TriggerInv, CallsAreBehind, NoneMissed
  <2> QED  BY <2>1, <2>2, <2>3 DEF TriggerInv
<1> QED  BY <1>1, <1>2, <1>3, <1>4, <1>5, <1>6, <1>7 DEF TriggerNext

\* When all is reported each trigger that was there from start to end has been
\* called for every change it is about, and none for another change or twice.
THEOREM TriggersSeen == TriggerSpec => []TriggersSeeTheirChanges
<1>1. TriggerInit => TriggerInv
  BY TriggerInitInv
<1>2. TriggerInv /\ [TriggerNext]_triggerVars => TriggerInv'
  BY TriggerNextInv
<1>3. TriggerInv => TriggersSeeTheirChanges
  <2> SUFFICES ASSUME TriggerInv PROVE TriggersSeeTheirChanges
    OBVIOUS
  <2>1. ~twice /\ CallsAreBehind /\ NoneMissed /\ ListsAscend
    BY DEF TriggerInv
  <2>2. \A c \in called : Concerned(c.change, c.list)
    BY <2>1 DEF CallsAreBehind
  <2>3. ASSUME report = NoReport, NEW l \in Lists, NEW i \in Reported, NEW t \in ToSet(triggers[l]),
               t.id \in due, Concerned(i, l)
        PROVE  [change |-> i, list |-> l, id |-> t.id] \in called
    <3>1. PICK p \in 1 .. Len(triggers[l]) : t = triggers[l][p]
      BY <2>1, TriggerListFacts DEF ToSet
    <3> QED  BY <2>1, <2>3, <3>1 DEF NoneMissed, Past
  <2> QED  BY <2>1, <2>2, <2>3 DEF TriggersSeeTheirChanges
<1> QED  BY <1>1, <1>2, <1>3, PTL DEF TriggerSpec
==============================================================================
