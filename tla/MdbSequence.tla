----------------------------- MODULE MdbSequence -----------------------------
(* The sorted table of murphy-db/mdb/sequence.c: an array that is searched  *)
(* by halving, grows by a fixed number of slots and shrinks again.          *)
(*                                                                          *)
(* A slot holds a key and nobody's key is zero; what a slot past the last   *)
(* entry holds is left over from deletes, and mdb_sequence_delete may look  *)
(* at it.  Growing a table that has slots clears memory well past its end   *)
(* (the offset is taken for a number of entries, of a whole entry's size    *)
(* each): the memory is somebody else's, so no entry changes.               *)
EXTENDS Integers, Sequences, FiniteSets, SequencesExt

CONSTANTS SeqKeys,   \* numbers greater than zero
          SeqAlloc   \* slots to grow by

ASSUME SequenceAssumption == SeqKeys \subseteq Nat \ {0} /\ SeqAlloc \in Nat \ {0}

VARIABLES slots,    \* seq->entries; its length is seq->size
          nentry,
          keys,     \* history: the keys added and not deleted
          misled,   \* history: a delete took a left-over for an entry
          cursor,   \* mdb_sequence_iterate: [at, entries], a copy
          seen      \* history: what the walk in progress returned

sequenceVars == <<slots, nentry, keys, misled, cursor, seen>>
NoCursor == [at |-> 0, entries |-> <<>>]

SequenceInit == slots = <<>> /\ nentry = 0 /\ keys = {} /\ misled = FALSE /\ cursor = NoCursor
                /\ seen = <<>>

(* An array index of C.                                                     *)
Slot(i) == slots[i + 1]
Entries == SubSeq(slots, 1, nentry)

(* The search of mdb_sequence_add and _delete, on the slots s: where it     *)
(* stops, [i, max, cmp], cmp as the sign of key - slot.                     *)
Search(s, key, n) ==
    LET Halve[r \in {r \in (0 .. n) \X (0 .. n) : r[1] <= r[2]}] ==
            LET i == (r[1] + r[2]) \div 2
                k == s[i + 1]
            IN  CASE key = k -> [i |-> i, max |-> r[2], cmp |-> 0]
                  [] key # k /\ i = r[1] -> [i |-> i, max |-> r[2], cmp |-> IF key < k THEN -1 ELSE 1]
                  [] key < k /\ i # r[1] -> Halve[<<r[1], i>>]
                  [] OTHER -> Halve[<<i, r[2]>>]
    IN  Halve[<<0, n>>]

Grow == IF nentry + 1 <= Len(slots) THEN slots ELSE slots \o [i \in 1 .. SeqAlloc |-> 0]

PlaceAtStop(found) == found.i
Place(found) == IF found.cmp > 0 THEN found.max ELSE found.i

(* memmove makes room; the slot past the last entry is overwritten.         *)
SequenceAdd(k) ==
    LET s == Grow
        i == Place(Search(s, k, nentry))
    IN  /\ k \notin keys
        /\ slots' = [j \in 1 .. Len(s) |-> CASE j - 1 < i \/ j - 1 > nentry -> s[j]
                                             [] j - 1 = i -> k
                                             [] OTHER -> s[j - 1]]
        /\ nentry' = nentry + 1
        /\ keys' = keys \cup {k}
        /\ UNCHANGED <<misled, cursor, seen>>

(* The last look is at the slot past the part searched.  It is the one past *)
(* the last entry, or the search would have met it; past the array nobody's *)
(* key is found.                                                            *)
IsFound(k) == LET stop == Search(slots, k, nentry)
              IN  stop.cmp = 0 \/ (stop.max < Len(slots) /\ Slot(stop.max) = k)

MovedDown(i) == [j \in DOMAIN slots |-> IF j - 1 >= i /\ j < nentry THEN slots[j + 1] ELSE slots[j]]

Shrink(s, n) == IF n <= Len(s) - SeqAlloc THEN SubSeq(s, 1, Len(s) - SeqAlloc) ELSE s

(* Deleting anything from an empty table reads slots it has not: no client  *)
(* does.  The index asks its hash first and deletes no key that is missing. *)
SequenceDelete(k) ==
    /\ nentry > 0
    /\ IsFound(k)
    /\ misled' = (misled \/ k \notin keys)
    /\ keys' = keys \ {k}
    /\ nentry' = nentry - 1
    /\ slots' = IF nentry = 1 THEN <<>>
                ELSE Shrink(MovedDown(Search(slots, k, nentry).i), nentry - 1)
    /\ UNCHANGED <<cursor, seen>>

SequenceReset == /\ nentry > 0 /\ slots' = <<>> /\ nentry' = 0 /\ keys' = {}
                 /\ UNCHANGED <<misled, cursor, seen>>

(* The first call copies the entries.  Rows may come and go during a walk.  *)
IterateStart == /\ cursor = NoCursor /\ nentry > 0
                /\ cursor' = [at |-> 1, entries |-> Entries]
                /\ seen' = <<>>
                /\ UNCHANGED <<slots, nentry, keys, misled>>

IterateNext == /\ cursor # NoCursor
               /\ IF cursor.at > Len(cursor.entries) THEN cursor' = NoCursor /\ UNCHANGED seen
                  ELSE /\ cursor' = [cursor EXCEPT !.at = @ + 1]
                       /\ seen' = Append(seen, cursor.entries[cursor.at])
               /\ UNCHANGED <<slots, nentry, keys, misled>>

SequenceNext == \/ \E k \in SeqKeys : SequenceAdd(k) \/ SequenceDelete(k)
                \/ SequenceReset \/ IterateStart \/ IterateNext

SequenceSpec == SequenceInit /\ [][SequenceNext]_sequenceVars

------------------------------------------------------------------------------
Increasing(s) == \A i, j \in DOMAIN s : i < j => s[i] < s[j]

(* The entries are the keys added and not deleted, in order, whatever the   *)
(* order of adds and deletes around the sizes at which the array grows and  *)
(* shrinks, each of them is found, and a walk returns the keys there were   *)
(* at its start, in order - unless a delete of a key that is not there      *)
(* found it among the left-overs (mdb_sequence_add, _delete, _iterate).     *)
SequenceIsSorted ==
    /\ nentry <= Len(slots)
    /\ ~misled => /\ nentry = Cardinality(keys) /\ ToSet(Entries) = keys /\ Increasing(Entries)
                  /\ \A k \in keys : IsFound(k)
                  /\ Increasing(seen)
==============================================================================
