------------------------------- MODULE Hashtbl --------------------------------
(* The hash table of common/hashtbl.c: chains of entries in buckets, a list *)
(* of the buckets in use, and one walk at a time, which deletes inside its  *)
(* callbacks take care of.                                                  *)
(*                                                                          *)
(* The list of buckets keeps its pointers, as a bucket that is appended     *)
(* once more tears it: nothing takes a bucket off when its last entry is    *)
(* removed outside of a walk, or unhashed by a verdict.  Entries are        *)
(* numbered as they are made; a chain is a sequence of them.                *)
EXTENDS Integers, Sequences, FiniteSets, SequencesExt, MrpList

CONSTANTS Buckets,
          Bucket,       \* key -> its bucket
          MaxMade       \* bound on the entries ever made

Keys == DOMAIN Bucket
Used == "used"          \* ht->used, the head of the list of buckets
NoEntry == 0            \* the head of a chain, where its walk ends
BucketHooks == Buckets \cup {Used}

(* The head of the list is none of the buckets, and every key hashes.       *)
ASSUME HashtblAssumption == Used \notin Buckets /\ Bucket \in [Keys -> Buckets]

VARIABLES chains,    \* bucket -> the entries on its chain
          hooks,     \* the hooks `used' of the table and of its buckets
          made,      \* entry -> its key, of the entries ever made
          dropped,   \* the entries freed
          iter,      \* ht->iter, and what walks: see NoIter
          live,      \* history: the entries added and not removed or unhashed
          toCall,    \* history: the live entries a walk is still to have called
          seen,      \* history: the entries it has called
          unfreed,   \* history: entries removed under their callback that it keeps
          torn,      \* history: a bucket was appended that was on the list
          fault      \* history: how a freed entry came to be used, and nothing follows

hashtblVars == <<chains, hooks, made, dropped, iter, live, toCall, seen, unfreed, torn, fault>>

(* A walk is at bucket bp and entry ep, with the next ones looked up.       *)
NoIter == [walk |-> "none", bp |-> Used, bn |-> Used, ep |-> NoEntry, en |-> NoEntry,
           entry |-> NoEntry, verdict |-> FALSE, called |-> FALSE]

HashtblInit ==
    /\ chains = [b \in Buckets |-> <<>>] /\ hooks = InitLinks(BucketHooks)
    /\ made = <<>> /\ dropped = {} /\ iter = NoIter /\ live = {} /\ toCall = {} /\ seen = {}
    /\ unfreed = {} /\ torn = FALSE /\ fault = "none"

Iterating == iter.walk \in {"foreach", "find"}

(* Clients run outside of a walk and inside its callbacks.                  *)
UsersRun == fault = "none" /\ (iter.walk = "none" \/ iter.called)

Nth(chain, i) == IF i \in DOMAIN chain THEN chain[i] ELSE NoEntry
Behind(chain, e) == Nth(chain, SelectInSeq(chain, LAMBDA x : x = e) + 1)

------------------------------------------------------------------------------
(* mrp_htbl_insert                                                          *)
Insert(k) ==
    /\ UsersRun /\ Len(made) < MaxMade
    /\ LET b == Bucket[k]
           e == Len(made) + 1
       IN  /\ made' = Append(made, k) /\ live' = live \cup {e}
           /\ chains' = [chains EXCEPT ![b] = Append(@, e)]
           /\ IF chains[b] = <<>>
              THEN hooks' = ListAppend(hooks, Used, b) /\ torn' = (torn \/ ~ListEmpty(hooks, b))
              ELSE UNCHANGED <<hooks, torn>>
    /\ UNCHANGED <<dropped, iter, toCall, seen, unfreed, fault>>

(* lookup: the first entry of the key.                                      *)
Lookup(k) ==
    LET chain == chains[Bucket[k]]
    IN  Nth(chain, SelectInSeq(chain, LAMBDA e : made[e] = k))

DeleteLeavesCursor(it, b, e) ==     \* mutant: a walk keeps its next entry
    /\ chains' = [chains EXCEPT ![b] = RemoveFirst(@, e)] /\ iter' = it
    /\ IF Iterating /\ Len(chains[b]) = 1 THEN hooks' = ListDelete(hooks, b) ELSE UNCHANGED hooks

(* delete_from_bucket: a walk passes over the entry and the bucket.         *)
DeleteFromBucket(it, b, e) ==
    LET chain == RemoveFirst(chains[b], e)
        passed == [it EXCEPT !.en = IF @ = e THEN Behind(chains[b], e) ELSE @]
    IN  /\ chains' = [chains EXCEPT ![b] = chain]
        /\ IF Iterating /\ chain = <<>>
           THEN /\ iter' = [passed EXCEPT !.bn = IF @ = b THEN hooks.next[b] ELSE @]
                /\ hooks' = ListDelete(hooks, b)
           ELSE iter' = passed /\ UNCHANGED hooks

(* mrp_htbl_remove: the entry that is called is left to the walk to free.   *)
RemoveEntry(k, free) ==
    /\ UsersRun /\ Lookup(k) # NoEntry
    /\ LET e == Lookup(k)
           own == Iterating /\ e = iter.entry
       IN  /\ DeleteFromBucket(IF own THEN [iter EXCEPT !.verdict = free] ELSE iter, Bucket[k], e)
           /\ dropped' = IF own THEN dropped ELSE dropped \cup {e}
           /\ unfreed' = IF own THEN unfreed \cup {e} ELSE unfreed
           /\ live' = live \ {e} /\ toCall' = toCall \ {e}
    /\ UNCHANGED <<made, seen, torn, fault>>

------------------------------------------------------------------------------
AtBucket(it, b) == [it EXCEPT !.bp = b, !.bn = hooks.next[b],
                              !.ep = IF b = Used THEN NoEntry ELSE Nth(chains[b], 1),
                              !.en = IF b = Used THEN NoEntry ELSE Nth(chains[b], 2)]

(* mrp_htbl_foreach and mrp_htbl_find: one of them at a time.               *)
StartWalk(kind) ==
    /\ fault = "none" /\ iter.walk = "none" /\ live # {}
    /\ iter' = AtBucket([NoIter EXCEPT !.walk = kind], hooks.next[Used])
    /\ toCall' = live /\ seen' = {}
    /\ UNCHANGED <<chains, hooks, made, dropped, live, unfreed, torn, fault>>

(* The callback is called for the entry; mrp_htbl_find keeps no entry.      *)
Call == /\ fault = "none" /\ Iterating /\ ~iter.called /\ iter.ep # NoEntry
        /\ iter' = [iter EXCEPT !.called = TRUE, !.entry = IF iter.walk = "foreach" THEN iter.ep ELSE NoEntry]
        /\ seen' = seen \cup {iter.ep}
        /\ fault' = IF iter.ep \in dropped THEN "called" ELSE fault
        /\ UNCHANGED <<chains, hooks, made, dropped, live, toCall, unfreed, torn>>

(* The next entry of what is left of the chain.                             *)
NextEntry(cs) ==
    [iter EXCEPT !.called = FALSE, !.ep = iter.en,
                 !.en = IF iter.en = NoEntry THEN NoEntry ELSE Behind(cs[iter.bp], iter.en)]

(* It returns: to go on, or to drop the entry.  A verdict mrp_htbl_remove   *)
(* has left is kept for the entries that follow.  MRP_HTBL_ITER_STOP has no *)
(* bit to test and goes on, and MRP_HTBL_ITER_UNHASH shares one with        *)
(* MRP_HTBL_ITER_DELETE and frees.                                          *)
Returns(drop) ==
    /\ iter.walk = "foreach" /\ iter.called
    /\ LET e == iter.ep
           b == iter.bp
           unhash == ~iter.verdict /\ drop
           cs == IF unhash THEN [chains EXCEPT ![b] = RemoveFirst(@, e)] ELSE chains
       IN  /\ chains' = cs /\ iter' = NextEntry(cs)
           /\ dropped' = IF iter.verdict \/ drop THEN dropped \cup {e} ELSE dropped
           /\ unfreed' = IF iter.verdict \/ drop THEN unfreed \ {e} ELSE unfreed
           /\ live' = IF unhash THEN live \ {e} ELSE live
           /\ fault' = IF iter.verdict /\ e \in live THEN "verdict" ELSE fault
    /\ UNCHANGED <<hooks, made, toCall, seen, torn>>

(* mrp_htbl_find reads the object of the entry it has found.                *)
Finds(found) ==
    /\ fault = "none" /\ iter.walk = "find" /\ iter.called
    /\ fault' = IF found /\ iter.ep \in dropped THEN "found" ELSE fault
    /\ IF found THEN iter' = NoIter /\ toCall' = {} /\ seen' = {}
       ELSE iter' = NextEntry(chains) /\ UNCHANGED <<toCall, seen>>
    /\ UNCHANGED <<chains, hooks, made, dropped, live, unfreed, torn>>

NextBucket ==
    /\ fault = "none" /\ Iterating /\ ~iter.called /\ iter.ep = NoEntry /\ iter.bp # Used
    /\ iter' = AtBucket(iter, iter.bn)
    /\ UNCHANGED <<chains, hooks, made, dropped, live, toCall, seen, unfreed, torn, fault>>

AtEnd == iter.walk # "none" /\ iter.bp = Used

WalkEnds == /\ AtEnd /\ Iterating /\ fault = "none"
            /\ iter' = NoIter /\ toCall' = {} /\ seen' = {}
            /\ UNCHANGED <<chains, hooks, made, dropped, live, unfreed, torn, fault>>

(* mrp_htbl_reset, of mrp_htbl_destroy as well: bucket by bucket.           *)
StartReset ==
    /\ fault = "none" /\ iter.walk = "none" /\ live # {}
    /\ iter' = [NoIter EXCEPT !.walk = "reset", !.bp = hooks.next[Used], !.bn = hooks.next[hooks.next[Used]]]
    /\ UNCHANGED <<chains, hooks, made, dropped, live, toCall, seen, unfreed, torn, fault>>

ResetBucket ==
    /\ iter.walk = "reset"
    /\ LET b == iter.bp
       IN  IF b = Used THEN iter' = NoIter /\ UNCHANGED <<chains, hooks, dropped, live>>
           ELSE /\ dropped' = dropped \cup ToSet(chains[b]) /\ live' = live \ ToSet(chains[b])
                /\ chains' = [chains EXCEPT ![b] = <<>>]
                /\ hooks' = ListDelete(hooks, b)
                /\ iter' = [iter EXCEPT !.bp = iter.bn, !.bn = ListDelete(hooks, b).next[iter.bn]]
    /\ UNCHANGED <<made, toCall, seen, unfreed, torn, fault>>

HashtblNext ==
    \/ \E k \in Keys : Insert(k) \/ \E free \in BOOLEAN : RemoveEntry(k, free)
    \/ \E kind \in {"foreach", "find"} : StartWalk(kind)
    \/ Call \/ (\E drop \in BOOLEAN : Returns(drop)) \/ (\E found \in BOOLEAN : Finds(found))
    \/ NextBucket \/ WalkEnds \/ StartReset \/ ResetBucket

HashtblSpec == HashtblInit /\ [][HashtblNext]_hashtblVars

------------------------------------------------------------------------------
(* What is hashed in bucket b, oldest first, so that the oldest is found.   *)
ChainIsLive(b) == ToSet(chains[b]) = {e \in live : Bucket[made[e]] = b}
                  /\ \A i, j \in DOMAIN chains[b] : i < j => chains[b][i] < chains[b][j]

(* x is met from hook h on, before the walk is back at the head: it is in   *)
(* every set of hooks that holds h and, but for the head, where these lead.  *)
Reaches(L, h, x) ==
    \A S \in SUBSET BucketHooks : h \in S /\ (\A y \in S \ {Used} : L.next[y] \in S) => x \in S

OnUsed(b) == Reaches(hooks, hooks.next[Used], b)

(* The chains hold the entries that were inserted and neither removed nor   *)
(* dropped, and any other was freed, but for one its own callback removed.  *)
(* Whatever a callback removes, no walk calls an entry that was freed; and  *)
(* as long as no bucket was appended to the list it was on, that list is a  *)
(* ring with all that hold entries, a walk stays on it and has at its end   *)
(* called every entry that stayed, and a reset leaves none                  *)
(* (mrp_htbl_insert, mrp_htbl_remove, mrp_htbl_foreach, mrp_htbl_find and   *)
(* mrp_htbl_reset).                                                         *)
HashtblIsSound ==
    /\ fault # "called"
    /\ fault = "none" =>
         /\ \A b \in Buckets : ChainIsLive(b)
         /\ DOMAIN made = live \cup dropped \cup unfreed
         /\ live \cap dropped = {} /\ unfreed \cap (live \cup dropped) = {}
    /\ fault = "none" /\ ~torn =>
         /\ WellLinked(hooks, BucketHooks)
         /\ OnUsed(Used) /\ \A b \in Buckets : chains[b] # <<>> => OnUsed(b)
         /\ Iterating => OnUsed(iter.bn)
         /\ AtEnd => IF Iterating THEN toCall \subseteq seen ELSE live = {}
==============================================================================
