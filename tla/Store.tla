------------------------------- MODULE Store -------------------------------
(* One indexed table of Murphy-DB with its transactions: the rows and the   *)
(* index (mdb/table.c, mdb/row.c, mdb/index.c), the undo log (mdb/log.c)    *)
(* and begin, commit and rollback (mdb/transaction.c, mqi/mqi.c).           *)
(*                                                                          *)
(* A row is a memory cell: the log keeps pointers to rows, and the question *)
(* is whether a row it points to is still there when the log is played.     *)
(* The hash and the sequence of an index are one map here, and a cell is    *)
(* `Freed' or holds the key column and the rest of the row.  Rows that a    *)
(* condition selects are written one by one, so each write is an action of  *)
(* its own.  The first column is the key, so that mdb_table_update always   *)
(* maintains the index.  Out of memory is not modelled.                     *)
EXTENDS Naturals, Sequences, SequencesExt, FiniteSets

CONSTANTS Rows,        \* memory cells for mdb_row_t
          Keys, Vals,  \* values of the key column and of the other columns
          NoRow, NoVal, Freed,
          TxDepthMax,  \* MQI_TXDEPTH_MAX
          MaxLog,      \* bound: changes in the log of one transaction
          Careless     \* which of the calls below the client may make

\* Calls that no argument check refuses but that the code does not survive:
\* an insert-or-replace of a duplicate outside any transaction, an update that
\* gives two rows one key, and a rollback of a transaction that replaced a row
\* it had itself inserted or updated.
CarelessCalls == {"replace_outside", "duplicate_key", "rollback_replaced"}

ASSUME StoreAssumption ==
  /\ NoRow \notin Rows
  /\ NoVal \notin Vals
  /\ Freed \notin [key : Keys, val : Vals]
  /\ TxDepthMax \in Nat \ {0}
  /\ MaxLog \in Nat
  /\ Careless \subseteq CarelessCalls

VARIABLES cell,     \* the memory: what each row holds
          rows,     \* tbl->rows, in list order
          index,    \* the row the index finds for each key
          txdepth,  \* the static txdepth; mqi.c keeps an equal one
          logs,     \* the changes logged at each depth, newest first
          pc,       \* "idle", in a commit "trigger", in a "rollback", "broken"
          cur,      \* the change a commit is reporting, and was it the last
          base,     \* history: what the table held at the last begin or commit
          open,     \* history: transactions begun and not yet finished
          lost      \* history: rows whose logged change was thrown away

storeVars == <<cell, rows, index, txdepth, logs, pc, cur, base, open, lost>>
-----------------------------------------------------------------------------
Depths == 1 .. (TxDepthMax - 1)

RowData == [key : Keys, val : Vals]
Changes == [change : {"insert", "update", "delete"},
            before : Rows \union {NoRow}, after : Rows \union {NoRow}]

NoChange == [change |-> "none", before |-> NoRow, after |-> NoRow]
Idle == [entry |-> NoChange, last |-> FALSE]

Heap == {r \in Rows : cell[r] # Freed}
Linked == ToSet(rows)

\* What a select over the index returns.
Contents == [k \in Keys |-> IF index[k] \in Heap THEN cell[index[k]].val ELSE NoVal]

Top == logs[txdepth]

Inserted(r)  == [change |-> "insert", before |-> NoRow, after |-> r]
Updated(b, r) == [change |-> "update", before |-> b, after |-> r]
Deleted(r)   == [change |-> "delete", before |-> r, after |-> NoRow]

\* mdb_log_change: outside of every transaction nothing is logged.
Log(changes) ==
  logs' = IF txdepth = 0 THEN logs ELSE [logs EXCEPT ![txdepth] = changes \o @]

\* MDB_DLIST_UNLINK; a row on no list is linked to itself.
Unlink(r) ==
  IF r \in Linked THEN RemoveAt(rows, CHOOSE i \in DOMAIN rows : rows[i] = r) ELSE rows

StoreInit ==
  /\ cell = [r \in Rows |-> Freed]
  /\ rows = <<>>
  /\ index = [k \in Keys |-> NoRow]
  /\ txdepth = 0
  /\ logs = [d \in Depths |-> <<>>]
  /\ pc = "idle"
  /\ cur = Idle
  /\ base = [k \in Keys |-> NoVal]
  /\ open = {}
  /\ lost = {}
-----------------------------------------------------------------------------
(* Writes.  A client makes them between transactions, in a transaction, and *)
(* from the trigger callbacks that run in the middle of a commit.           *)

MayWrite(n) ==
  /\ pc \in {"idle", "trigger"}
  /\ txdepth > 0 => Len(Top) + n <= MaxLog

WriteFrame == UNCHANGED <<txdepth, pc, cur, base, open, lost>>

\* mdb_table_insert of a row whose key is new.  The row of a duplicate key is
\* freed again and nothing else happens.
Insert(r, k, v) ==
  /\ MayWrite(1)
  /\ cell[r] = Freed
  /\ index[k] = NoRow
  /\ cell' = [cell EXCEPT ![r] = [key |-> k, val |-> v]]
  /\ rows' = Append(rows, r)
  /\ index' = [index EXCEPT ![k] = r]
  /\ Log(<<Inserted(r)>>)
  /\ WriteFrame

\* mdb_table_insert with `ignore', of a duplicate: the new row takes the place
\* of the old one, which the log keeps.  Outside every transaction the call is
\* refused with EIO, but the new row has been linked and stays so.
Replace(r, k, v) ==
  /\ txdepth > 0 \/ "replace_outside" \in Careless
  /\ MayWrite(1)
  /\ cell[r] = Freed
  /\ index[k] # NoRow
  /\ cell' = [cell EXCEPT ![r] = [key |-> k, val |-> v]]
  /\ IF txdepth > 0
     THEN /\ rows' = Append(Unlink(index[k]), r)
          /\ index' = [index EXCEPT ![k] = r]
          /\ Log(<<Updated(index[k], r)>>)
     ELSE rows' = Append(rows, r) /\ UNCHANGED <<index, logs>>
  /\ WriteFrame

SaveAfterWriting(b, r, now) ==     \* mutant: duplicates the row it has written
  IF txdepth > 0
  THEN /\ cell[b] = Freed
       /\ cell' = [cell EXCEPT ![b] = now, ![r] = now]
       /\ Log(<<Updated(b, r)>>)
  ELSE cell' = [cell EXCEPT ![r] = now] /\ UNCHANGED logs

\* update_single_row: in a transaction a copy of the row goes to the log.
SaveBefore(b, r, now) ==
  IF txdepth > 0
  THEN /\ cell[b] = Freed
       /\ cell' = [cell EXCEPT ![b] = cell[r], ![r] = now]
       /\ Log(<<Updated(b, r)>>)
  ELSE /\ cell' = [cell EXCEPT ![r] = now]
       /\ UNCHANGED logs

\* A new key that is another row's makes mdb_index_insert free the updated
\* row, and neither mdb_row_update nor its caller looks at the result.
Update(b, k, k2, v) ==
  LET r == index[k]
      taken == k2 # k /\ index[k2] # NoRow
  IN
  /\ taken => "duplicate_key" \in Careless
  /\ MayWrite(1)
  /\ r # NoRow
  /\ SaveBefore(b, r, IF taken THEN Freed ELSE [key |-> k2, val |-> v])
  /\ index' = IF taken THEN [index EXCEPT ![k] = NoRow]
              ELSE [index EXCEPT ![k] = NoRow, ![k2] = r]
  /\ rows' = IF taken THEN Unlink(r) ELSE rows
  /\ WriteFrame

DeleteFreesAlways(k) ==     \* mutant: frees the row in a transaction too
  LET r == index[k] IN
  /\ MayWrite(1)
  /\ r # NoRow
  /\ index' = [index EXCEPT ![k] = NoRow]
  /\ rows' = Unlink(r)
  /\ cell' = [cell EXCEPT ![r] = Freed]
  /\ Log(<<Deleted(r)>>)
  /\ WriteFrame

\* delete_single_row: in a transaction the row is kept for the log.
Delete(k) ==
  LET r == index[k] IN
  /\ MayWrite(1)
  /\ r # NoRow
  /\ index' = [index EXCEPT ![k] = NoRow]
  /\ rows' = Unlink(r)
  /\ cell' = IF txdepth = 0 THEN [cell EXCEPT ![r] = Freed] ELSE cell
  /\ Log(<<Deleted(r)>>)
  /\ WriteFrame

\* delete_all resets the index and deletes every row of the list.
DeleteAll ==
  /\ MayWrite(Len(rows))
  /\ rows # <<>>
  /\ index' = [k \in Keys |-> NoRow]
  /\ rows' = <<>>
  /\ cell' = IF txdepth = 0
             THEN [r \in Rows |-> IF r \in Linked THEN Freed ELSE cell[r]]
             ELSE cell
  /\ Log(Reverse([i \in DOMAIN rows |-> Deleted(rows[i])]))
  /\ WriteFrame

Write ==
  \/ \E r \in Rows, k \in Keys, v \in Vals :
       Insert(r, k, v) \/ Replace(r, k, v)
  \/ \E b \in Rows, k, k2 \in Keys, v \in Vals : Update(b, k, k2, v)
  \/ \E k \in Keys : Delete(k)
  \/ DeleteAll
-----------------------------------------------------------------------------
(* Transactions.  The handle of a transaction is its depth: commit and      *)
(* rollback refuse every handle but the last one given out, and accept that *)
(* one again after it was used, for nothing ever decrements txdepth.        *)

Begin ==
  /\ pc = "idle"
  /\ txdepth < TxDepthMax - 1
  /\ txdepth' = txdepth + 1
  /\ base' = Contents
  /\ open' = open \union {txdepth + 1}
  /\ UNCHANGED <<cell, rows, index, logs, pc, cur, lost>>

\* Does the code read a freed row when a commit reports this change?
Dangling(e, freed) == ({e.before, e.after} \ {NoRow}) \ (Heap \ freed) # {}

\* Takes the oldest change out of the log and calls its triggers.
Report(log, freed) ==
  /\ logs' = [logs EXCEPT ![txdepth] = Front(log)]
  /\ cur' = [entry |-> Last(log), last |-> Len(log) = 1]
  /\ pc' = IF Dangling(Last(log), freed) THEN "broken" ELSE "trigger"

Finish ==
  /\ pc' = "idle"
  /\ cur' = Idle
  /\ open' = open \ {txdepth}

Commit ==
  /\ pc = "idle" /\ txdepth > 0
  /\ IF Top = <<>> THEN Finish /\ base' = Contents /\ UNCHANGED logs
                   ELSE Report(Top, {}) /\ UNCHANGED <<base, open>>
  /\ UNCHANGED <<cell, rows, index, txdepth, lost>>

Befores(log) == {log[i].before : i \in DOMAIN log} \ {NoRow}

\* The callbacks have returned: the change's old row is destroyed, then the
\* walk goes on.  When the change was the last one, the walk's cursor has
\* already reached the head of the list: what the callbacks logged meanwhile
\* is thrown away with the list.
TriggerReturned ==
  /\ pc = "trigger"
  /\ cell' = [r \in Rows |-> IF r = cur.entry.before THEN Freed ELSE cell[r]]
  /\ UNCHANGED <<rows, index, txdepth>>

CommitNext ==
  /\ TriggerReturned
  /\ ~cur.last
  /\ Report(Top, {cur.entry.before})
  /\ UNCHANGED <<base, open, lost>>

CommitEnd ==
  /\ TriggerReturned
  /\ cur.last
  /\ Finish
  /\ logs' = [logs EXCEPT ![txdepth] = <<>>]
  /\ lost' = lost \union Befores(Top)
  /\ base' = Contents

\* Has a transaction replaced a row it had itself inserted or updated?
ReplacedOwnWrite(log) ==
  \E i, j \in DOMAIN log :
    i < j /\ log[i].change = "update" /\ log[i].before = log[j].after

Rollback ==
  /\ pc = "idle" /\ txdepth > 0
  /\ "rollback_replaced" \in Careless \/ ~ReplacedOwnWrite(Top)
  /\ pc' = "rollback"
  /\ UNCHANGED <<cell, rows, index, txdepth, logs, cur, base, open, lost>>

\* Takes the newest change out of the log and undoes it.  A row that was freed
\* meanwhile, or that the index does not find under its key, breaks the table.
Undo(change) ==
  /\ pc = "rollback"
  /\ Top # <<>> /\ Head(Top).change = change
  /\ logs' = [logs EXCEPT ![txdepth] = Tail(@)]
  /\ UNCHANGED <<txdepth, cur, base, open, lost>>

Found(r) == cell[r] # Freed /\ index[cell[r].key] = r

Broken == pc' = "broken" /\ UNCHANGED <<cell, rows, index>>

\* remove_row
UndoInsert ==
  LET r == Head(Top).after IN
  /\ Undo("insert")
  /\ IF Found(r)
     THEN /\ index' = [index EXCEPT ![cell[r].key] = NoRow]
          /\ rows' = Unlink(r)
          /\ cell' = [cell EXCEPT ![r] = Freed]
          /\ UNCHANGED pc
     ELSE Broken

\* add_row: a row whose key is taken is freed.
UndoDelete ==
  LET r == Head(Top).before IN
  /\ Undo("delete")
  /\ IF cell[r] = Freed THEN Broken
     ELSE /\ UNCHANGED pc
          /\ IF index[cell[r].key] = NoRow
             THEN /\ index' = [index EXCEPT ![cell[r].key] = r]
                  /\ rows' = Append(rows, r)
                  /\ UNCHANGED cell
             ELSE /\ cell' = [cell EXCEPT ![r] = Freed]
                  /\ UNCHANGED <<index, rows>>

\* copy_row: the old contents are copied back, and the copy is freed.  When the
\* old key is taken, the row is freed instead and the copy is left behind.
UndoUpdate ==
  LET src == Head(Top).before
      dst == Head(Top).after
  IN
  /\ Undo("update")
  /\ IF cell[src] = Freed \/ ~Found(dst) THEN Broken
     ELSE LET removed == [index EXCEPT ![cell[dst].key] = NoRow] IN
          /\ UNCHANGED pc
          /\ IF removed[cell[src].key] = NoRow
             THEN /\ index' = [removed EXCEPT ![cell[src].key] = dst]
                  /\ cell' = [cell EXCEPT ![dst] = cell[src], ![src] = Freed]
                  /\ UNCHANGED rows
             ELSE /\ index' = removed
                  /\ cell' = [cell EXCEPT ![dst] = Freed]
                  /\ rows' = Unlink(dst)

RollbackEnd ==
  /\ pc = "rollback" /\ Top = <<>>
  /\ Finish
  /\ UNCHANGED <<cell, rows, index, txdepth, logs, base, lost>>

AllBefores == UNION {Befores(logs[d]) : d \in Depths}

\* mdb_table_drop, then the table is created again: the logs at every depth
\* give up the old rows they keep, and the rows of the list are freed.
DropTable ==
  /\ pc = "idle"
  /\ IF AllBefores \subseteq Heap
     THEN /\ cell' = [r \in Rows |-> IF r \in AllBefores \union Linked
                                     THEN Freed ELSE cell[r]]
          /\ UNCHANGED pc
     ELSE pc' = "broken" /\ UNCHANGED cell
  /\ rows' = <<>>
  /\ index' = [k \in Keys |-> NoRow]
  /\ logs' = [d \in Depths |-> <<>>]
  /\ base' = [k \in Keys |-> NoVal]
  /\ UNCHANGED <<txdepth, cur, open, lost>>

StoreNext ==
  \/ Write
  \/ Begin
  \/ Commit \/ CommitNext \/ CommitEnd
  \/ Rollback \/ UndoInsert \/ UndoDelete \/ UndoUpdate \/ RollbackEnd
  \/ DropTable

StoreSpec == StoreInit /\ [][StoreNext]_storeVars
-----------------------------------------------------------------------------
(* Properties.                                                              *)

\* Type correctness of rows, index, depth and undo log (table.c, log.c).
TypeOK ==
  /\ cell \in [Rows -> RowData \union {Freed}]
  /\ rows \in Seq(Rows)
  /\ index \in [Keys -> Rows \union {NoRow}]
  /\ txdepth \in 0 .. (TxDepthMax - 1)
  /\ logs \in [Depths -> Seq(Changes)]
  /\ pc \in {"idle", "trigger", "rollback", "broken"}
  /\ cur \in [entry : Changes \union {NoChange}, last : BOOLEAN]
  /\ base \in [Keys -> Vals \union {NoVal}]
  /\ open \subseteq Depths
  /\ lost \subseteq Rows

\* A table scan (the row list) and an indexed select see the same rows: every
\* linked row is allocated, linked once and found under its own key, and the
\* index finds no other row - also half-way through a rollback and a commit
\* (row.c, index.c and the undo functions of transaction.c).
IndexMatchesRows ==
  /\ \A i, j \in DOMAIN rows : rows[i] = rows[j] => i = j
  /\ \A r \in Linked : Found(r)
  /\ \A k \in Keys : index[k] # NoRow => index[k] \in Linked /\ cell[index[k]].key = k

\* The rows the undo log points to outlive the log: an old row kept for some
\* transaction is allocated, out of the table and kept by one change only, so
\* that commit, rollback and drop free it once (destroy_row and copy_row of
\* transaction.c, mdb_transaction_drop_table).
KeptRows(d) == {<<d, i>> : i \in {j \in DOMAIN logs[d] : logs[d][j].before # NoRow}}
KeptBy(p) == logs[p[1]][p[2]].before

\* Each row the log keeps is out of the table and kept by one change.
OldRowsKeptOnce ==
  LET kept == UNION {KeptRows(d) : d \in Depths} IN
  /\ \A p \in kept : KeptBy(p) \in Heap \ Linked
  /\ \A p, q \in kept : KeptBy(p) = KeptBy(q) => p = q
  /\ pc = "trigger" => cur.entry.before \notin {KeptBy(p) : p \in kept}

\* No row is leaked or freed early: an allocated row is in the table, kept by
\* the log, in the hands of the commit in progress, or was in a change that
\* commit threw away, and each of those is allocated.
EveryRowAccounted ==
  Heap = Linked \union AllBefores \union ({cur.entry.before} \ {NoRow}) \union lost

\* No commit, rollback or drop follows a pointer of the log to a freed row, or
\* finds a row missing in the index (tests/check-libmqi.c:556-590: a rollback
\* succeeds and brings every row back).
LogNeverDangles == pc # "broken"

\* Rows, index and undo log agree at every step, whatever is written, also in
\* the middle of a commit: rows are linked once and found by their key, and
\* every row is in the table or kept by one change, until it is freed, and
\* what the log points to is there when it is played.
RowsSound == TypeOK /\ IndexMatchesRows /\ OldRowsKeptOnce /\ EveryRowAccounted /\ LogNeverDangles

\* The table is the map KeyValueTx.tla describes: writes, also those trigger
\* callbacks make during a commit, take effect at once, and a rollback leaves
\* what the table held at the last begin or commit, however inserts, updates
\* that rename keys, replaces and deletes of the same rows were mixed.
Abstract == INSTANCE KeyValueTx
  WITH kv <- IF pc = "rollback" THEN base ELSE Contents,
       depth <- txdepth,
       MaxDepth <- TxDepthMax - 1

\* The table is a map with transactions (mqi.c, mdb-backend.c).
ImplementsKeyValueTx == Abstract!KVSpec

\* Transactions nest: when the inner ones are finished, the innermost one that
\* is still open can be committed or rolled back (include/murphy-db/
\* mqi-types.h:43 "maximum depth for nested transactions").
InnermostCanFinish == \A d \in open : (\A e \in open : e <= d) => d = txdepth
=============================================================================
