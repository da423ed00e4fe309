------------------------------ MODULE MdbHandle ------------------------------
(* The handle map of murphy-db/mdb/handle.c: indexes are given out from     *)
(* buckets of bits, and the low bits of the use count of an index are kept  *)
(* in the handle, so that the handle of an earlier user is recognised.      *)
(*                                                                          *)
(* When its last bucket becomes free freemap_free reallocs the buckets, but *)
(* stores neither the new size nor the new address.  A bucket beyond what   *)
(* is allocated is memory of somebody else: it may change at any time.      *)
EXTENDS Integers, FiniteSets, Functions, FiniteSetsExt

CONSTANTS Data,      \* what handles stand for
          NoData,
          Bits,      \* bits_per_bucket
          MaxUse,    \* HANDLE_USEID_MAX, 2 to the number of bits for the use count
          MaxBucket, \* bound on the buckets
          MaxAdd     \* bound on handles ever made

ASSUME HandleAssumption == Bits \in Nat \ {0} /\ MaxUse \in Nat \ {0} /\ NoData \notin Data

VARIABLES nbucket,   \* freemap->nbucket
          owned,     \* buckets in the allocation
          free,      \* freemap->buckets: the indexes whose bit is set
          entries,   \* indextbl->entries: [useid, data] by index
          live,      \* history: handle -> data, of the handles not deleted
          dead,      \* history: the handles deleted
          adds

handleVars == <<nbucket, owned, free, entries, live, dead, adds>>

Bucket(b) == (b * Bits) .. (b * Bits + Bits - 1)
Zero == [useid |-> 0, data |-> NoData]

HandlesInit == nbucket = 0 /\ owned = 0 /\ free = {} /\ entries = <<>> /\ live = <<>>
               /\ dead = {} /\ adds = 0

(* HANDLE_MAKE: the use count loses its upper bits.                         *)
Handle(index, entry) == <<index, entry.useid % MaxUse>>
Index(h) == h[1]
UseId(h) == h[2]

(* A new bucket is made when no bit is set in any.                          *)
FreemapAlloc(index) ==
    LET grown == Bucket(nbucket)
    IN  /\ index = IF free = {} THEN Min(grown) ELSE Min(free)
        /\ nbucket' = IF free = {} THEN nbucket + 1 ELSE nbucket
        /\ owned' = IF free = {} THEN nbucket + 1 ELSE owned
        /\ free' = (IF free = {} THEN grown ELSE free) \ {index}

(* The index table grows by whole buckets, zeroed.                          *)
Grown(index) == [i \in DOMAIN entries \cup 0 .. (Bits * (index \div Bits) + Bits - 1) |->
                    IF i \in DOMAIN entries THEN entries[i] ELSE Zero]

TakeSameUse(e, d) == [useid |-> IF e.useid = 0 THEN 1 ELSE e.useid, data |-> d]

(* index_alloc of an entry that is free.                                    *)
Take(e, d) == [useid |-> e.useid + 1, data |-> d]

(* EBUSY: the bit is set although the index is in use.                      *)
Busy(e, d) == e.data # NoData /\ e.data # d

AddHandle(d) ==
    \E index \in free \cup Bucket(nbucket) :
        LET grown == Grown(index)
            entry == Take(grown[index], d)
        IN  /\ adds < MaxAdd /\ adds' = adds + 1
            /\ free = {} => nbucket < MaxBucket
            /\ d \notin {live[h] : h \in DOMAIN live}
            /\ FreemapAlloc(index)
            /\ IF Busy(grown[index], d) THEN entries' = grown /\ UNCHANGED live
               ELSE /\ entries' = [grown EXCEPT ![index] = entry]
                    /\ live' = [h \in DOMAIN live \cup {Handle(index, entry)} |->
                                   IF h = Handle(index, entry) THEN d ELSE live[h]]
            /\ UNCHANGED dead

(* index_realloc and mdb_handle_get_data find the entry by index and by the *)
(* whole use count.                                                         *)
Known(h) == Index(h) \in DOMAIN entries /\ entries[Index(h)].useid = UseId(h)
Resolved(h) == IF Known(h) THEN entries[Index(h)].data ELSE NoData

FreemapFree(index) ==
    LET b == index \div Bits
        now == free \cup {index}
        idle == b + 1 = nbucket /\ Bucket(b) \subseteq now
    IN  IF b >= nbucket THEN UNCHANGED <<nbucket, owned, free>>
        ELSE /\ free' = IF idle /\ nbucket = 1 THEN {} ELSE now
             /\ nbucket' = IF idle /\ nbucket = 1 THEN 0 ELSE nbucket
             /\ owned' = IF idle THEN b ELSE owned

(* Any handle ever given out, those deleted before as well.                 *)
DeleteHandle(h) ==
    /\ h \in DOMAIN live \cup dead
    /\ Resolved(h) # NoData
    /\ entries' = [entries EXCEPT ![Index(h)].data = NoData]
    /\ FreemapFree(Index(h))
    /\ live' = Restrict(live, DOMAIN live \ {h})
    /\ dead' = dead \cup {h}
    /\ UNCHANGED adds

(* External: others write to the memory beyond the buckets allocated.       *)
Overwritten ==
    \E bits \in SUBSET UNION {Bucket(b) : b \in owned .. (nbucket - 1)} :
        /\ free' = {i \in free : i \div Bits < owned} \cup bits
        /\ UNCHANGED <<nbucket, owned, entries, live, dead, adds>>

HandlesNext == \/ \E d \in Data : AddHandle(d)
               \/ \E h \in DOMAIN live \cup dead : DeleteHandle(h)
               \/ Overwritten

HandlesSpec == HandlesInit /\ [][HandlesNext]_handleVars

------------------------------------------------------------------------------
(* A handle stands for its data until it is deleted and for nothing after,  *)
(* whoever else gets the index and whatever the bucket map says - up to the *)
(* use count at which a handle no longer holds all of it: from there on a   *)
(* handle stands for nothing (mdb_handle_get_data, mdb_handle_delete).      *)
HandlesKeepTheirData ==
    /\ \A h \in DOMAIN live : \/ Resolved(h) = live[h]
                              \/ entries[Index(h)].useid >= MaxUse /\ Resolved(h) = NoData
    /\ \A h \in dead : Resolved(h) = NoData
==============================================================================
