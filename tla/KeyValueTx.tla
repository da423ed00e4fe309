----------------------------- MODULE KeyValueTx -----------------------------
(* What a Murphy-DB table promises the client of murphy-db/mqi: a map from   *)
(* index keys to values, and transactions whose rollback undoes every write  *)
(* made since the last begin or commit.  Store.tla implements it.            *)
EXTENDS Naturals

CONSTANTS Keys,      \* values of the index column
          Vals,      \* values of the rest of a row
          NoVal,     \* "no row has this key"
          MaxDepth   \* the deepest transaction that can be begun

VARIABLES kv,     \* what a select returns, by key
          base,   \* what it returned at the last begin or commit
          depth   \* how many transactions have been begun

kvVars == <<kv, base, depth>>

Empty == [k \in Keys |-> NoVal]

KVInit == kv = Empty /\ base = Empty /\ depth = 0

\* Insert, replace or update of one row, which may change its key.
Put(k, v) == kv' = [kv EXCEPT ![k] = v] /\ UNCHANGED <<base, depth>>

Rename(k, k2, v) ==
  /\ kv[k] # NoVal /\ kv[k2] = NoVal
  /\ kv' = [kv EXCEPT ![k] = NoVal, ![k2] = v]
  /\ UNCHANGED <<base, depth>>

Remove(k) == kv' = [kv EXCEPT ![k] = NoVal] /\ UNCHANGED <<base, depth>>

Clear == kv' = Empty /\ UNCHANGED <<base, depth>>

BeginTx ==
  /\ depth < MaxDepth
  /\ depth' = depth + 1
  /\ base' = kv
  /\ UNCHANGED kv

CommitTx == depth > 0 /\ base' = kv /\ UNCHANGED <<kv, depth>>

RollbackTx == depth > 0 /\ kv' = base /\ UNCHANGED <<base, depth>>

\* Dropping the table and creating it again is not part of any transaction.
Drop == kv' = Empty /\ base' = Empty /\ UNCHANGED depth

KVNext ==
  \/ \E k \in Keys, v \in Vals : Put(k, v)
  \/ \E k, k2 \in Keys, v \in Vals : Rename(k, k2, v)
  \/ \E k \in Keys : Remove(k)
  \/ Clear \/ BeginTx \/ CommitTx \/ RollbackTx \/ Drop

KVSpec == KVInit /\ [][KVNext]_kvVars
=============================================================================
