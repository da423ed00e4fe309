------------------------------- MODULE MdbHash -------------------------------
(* The hash table of murphy-db/mdb/hash.c: chains of entries, which are     *)
(* also on a list in the order they were added; a walk keeps a pointer to   *)
(* the entry that is next.  The hash functions for strings, numbers and     *)
(* blobs are any function of keys to chains.                                *)
EXTENDS Integers, Sequences, FiniteSets, SequencesExt

CONSTANTS HashKeys, HashData,
          Primes,      \* the sizes there are: what `sizes' lists
          MaxEntries,  \* bound on the size asked for
          Spread       \* the chains that the hash functions may use

(* The sizes increase from 2 to more than 65535, which is the most that is  *)
(* asked for.  A walk at its end is at the head of the list of entries.     *)
ASSUME HashAssumption ==
    /\ Primes \in Seq(Nat) /\ Primes # <<>> /\ Primes[1] = 2
    /\ \A i, j \in DOMAIN Primes : i < j => Primes[i] < Primes[j]
    /\ MaxEntries \in Nat /\ MaxEntries <= Primes[Len(Primes)]
    /\ Spread \subseteq Nat /\ "head" \notin HashKeys

VARIABLES chains,   \* htbl->chains: from 0 .. nchain - 1, sequences of keys
          elist,    \* htbl->entries: keys in the order of their adding
          data,     \* the data of the keys that have an entry
          asked,    \* history: max_entries of mdb_hash_table_create
          hfunc,    \* the hash function
          walk,     \* a walk: [st, next, due]; next is a key or "head"
          dangling  \* history: the walk was left with a freed entry

hashVars == <<chains, elist, data, asked, hfunc, walk, dangling>>
NoWalk == [st |-> "none", next |-> "head", due |-> {}]

(* get_table_size: a search by halving, from place min to place max.       *)
SizeRanges == {r \in (DOMAIN Primes) \X (DOMAIN Primes) : r[1] <= r[2]}

TableSize(n) ==
    LET Halve[r \in SizeRanges] ==
            LET idx == (r[1] + r[2]) \div 2
            IN  CASE Primes[idx] = n -> n
                  [] Primes[idx] # n /\ idx = r[1] -> Primes[r[2]]
                  [] Primes[idx] > n /\ idx # r[1] -> Halve[<<r[1], idx>>]
                  [] OTHER -> Halve[<<idx, r[2]>>]
    IN  Halve[<<1, Len(Primes)>>]

HashInit ==
    /\ asked \in 2 .. MaxEntries
    /\ chains = [c \in 0 .. TableSize(asked) - 1 |-> <<>>]
    /\ hfunc \in [HashKeys -> {c \in Spread : c < TableSize(asked)}]
    /\ elist = <<>> /\ data = <<>> /\ walk = NoWalk /\ dangling = FALSE

Chain(k) == chains[hfunc[k]]
Get(k) == IF k \in ToSet(Chain(k)) THEN {data[k]} ELSE {}

(* Adding the same again does nothing, and other data is an error.          *)
HashAdd(k, d) ==
    /\ Get(k) = {}
    /\ chains' = [chains EXCEPT ![hfunc[k]] = Append(@, k)]
    /\ elist' = Append(elist, k)
    /\ data' = [j \in DOMAIN data \cup {k} |-> IF j = k THEN d ELSE data[j]]
    /\ UNCHANGED <<asked, hfunc, walk, dangling>>

HashDeleteChainOnly(k) ==
    /\ Get(k) # {}
    /\ chains' = [chains EXCEPT ![hfunc[k]] = RemoveFirst(@, k)]
    /\ data' = Restrict(data, DOMAIN data \ {k})
    /\ UNCHANGED <<elist, asked, hfunc, walk, dangling>>

HashDelete(k) ==
    /\ Get(k) # {}
    /\ chains' = [chains EXCEPT ![hfunc[k]] = RemoveFirst(@, k)]
    /\ elist' = RemoveFirst(elist, k)
    /\ data' = Restrict(data, DOMAIN data \ {k})
    /\ walk' = [walk EXCEPT !.due = @ \ {k}]
    /\ dangling' = (dangling \/ (walk.st = "on" /\ walk.next = k))
    /\ UNCHANGED <<asked, hfunc>>

(* mdb_hash_table_reset: every entry is freed.                              *)
HashReset == /\ elist # <<>> /\ walk.st = "none"
             /\ chains' = [c \in DOMAIN chains |-> <<>>] /\ elist' = <<>> /\ data' = <<>>
             /\ UNCHANGED <<asked, hfunc, walk, dangling>>

After(k) == LET at == CHOOSE j \in DOMAIN elist : elist[j] = k
            IN  IF at = Len(elist) THEN "head" ELSE elist[at + 1]

(* MDB_HASH_TABLE_FOR_EACH: the first call of mdb_hash_table_iterate, the   *)
(* calls that follow, and the last, which returns NULL.                     *)
WalkFirst == /\ walk.st = "none" /\ elist # <<>>
             /\ walk' = [st |-> "on", next |-> After(elist[1]), due |-> ToSet(Tail(elist))]
             /\ UNCHANGED <<chains, elist, data, asked, hfunc, dangling>>

WalkNext == /\ walk.st = "on" /\ walk.next # "head" /\ ~dangling
            /\ walk' = [walk EXCEPT !.next = After(walk.next), !.due = @ \ {walk.next}]
            /\ UNCHANGED <<chains, elist, data, asked, hfunc, dangling>>

WalkEnd == /\ walk.st = "on" /\ walk.next = "head" /\ ~dangling
           /\ walk' = NoWalk
           /\ UNCHANGED <<chains, elist, data, asked, hfunc, dangling>>

HashNext == \/ \E k \in HashKeys, d \in HashData : HashAdd(k, d)
            \/ \E k \in HashKeys : HashDelete(k)
            \/ HashReset \/ WalkFirst \/ WalkNext \/ WalkEnd

HashSpec == HashInit /\ [][HashNext]_hashVars

------------------------------------------------------------------------------
(* What a walk has before it.                                               *)
Ahead == IF walk.next = "head" THEN {}
         ELSE LET at == CHOOSE j \in DOMAIN elist : elist[j] = walk.next
              IN  {elist[j] : j \in at .. Len(elist)}

(* The table is the smallest one there is for what was asked, the chains    *)
(* and the list hold the same entries, each once and in the chain of its    *)
(* key, and a walk still has before it what it has not returned of the      *)
(* entries there were at its start - until an entry is deleted that the     *)
(* walk keeps a pointer to (mdb_hash_table_create, _add, _delete, _iterate).*)
HashIsSound ==
    /\ Cardinality(DOMAIN chains) >= asked
    /\ \A j \in DOMAIN Primes : Primes[j] >= asked => Primes[j] >= Cardinality(DOMAIN chains)
    /\ \A k \in HashKeys : Cardinality({j \in DOMAIN elist : elist[j] = k}) = Cardinality(Get(k))
    /\ ToSet(elist) = DOMAIN data
    /\ walk.st = "on" /\ ~dangling => walk.due \subseteq Ahead
==============================================================================
