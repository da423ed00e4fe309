----------------------------- MODULE MdbTrigger ------------------------------
(* Triggers of Murphy-DB: the lists of callbacks of mdb/trigger.c, and how  *)
(* a commit (mdb/transaction.c) and the tables that come and go report      *)
(* changes to them.                                                         *)
(*                                                                          *)
(* A trigger is [id, cb], cb standing for the function and its user data.   *)
(* Which columns of the row a callback is shown is left out.  Nothing       *)
(* protects the trigger that is called from its own callback deleting it:   *)
(* here no callback does, but it may delete any other and add more.         *)
EXTENDS Integers, Sequences, FiniteSets, SequencesExt

CONSTANTS Callbacks,
          ColumnNames,  \* the columns of the table, a sequence of strings
          MaxTriggers,  \* bound on triggers ever added
          MaxCommits,   \* bound on commits and drops
          MaxChanges    \* bound on the changes of a transaction

(* Columns have names of their own.                                         *)
ASSUME TriggerAssumption ==
    /\ ColumnNames \in Seq(STRING) /\ IsInjective(ColumnNames)
    /\ ToSet(ColumnNames) \cap {"transaction", "table", "row", "none"} = {}

VARIABLES triggers,   \* list -> sequence of triggers
          added,      \* triggers ever added
          changes,    \* what is reported: the changes of a commit, or a drop
          report,     \* the change reported, the list of triggers that are called for
                      \* it (or "none"), and the columns of it that are next
          calling,    \* id of the trigger called, 0 for none
          called,     \* history: [change, list, id] of the calls made
          twice,      \* history: a call made twice
          due,        \* history: the triggers there since the start
          reports

triggerVars == <<triggers, added, changes, report, calling, called, twice, due, reports>>

Columns == ToSet(ColumnNames)
Lists == {"transaction", "table", "row"} \cup Columns
ReportAs(i, l, mask) == [change |-> i, list |-> l, mask |-> mask]
NoReport == ReportAs(0, "none", {})

TriggerInit == /\ triggers = [l \in Lists |-> <<>>] /\ added = 0 /\ changes = <<>> /\ report = NoReport
               /\ calling = 0 /\ called = {} /\ twice = FALSE /\ due = {} /\ reports = 0

TriggersMayChange == report = NoReport \/ calling # 0
Registered(l, cb) == {j \in DOMAIN triggers[l] : triggers[l][j].cb = cb}
All == UNION {ToSet(triggers[l]) : l \in Lists}

(* mdb_trigger_add_*_callback: a callback that is registered stays as it    *)
(* was, whatever columns it now asks for.                                   *)
AddTrigger(l, cb) ==
    /\ TriggersMayChange /\ added < MaxTriggers
    /\ Registered(l, cb) = {}
    /\ triggers' = [triggers EXCEPT ![l] = Append(@, [id |-> added + 1, cb |-> cb])]
    /\ added' = added + 1
    /\ UNCHANGED <<changes, report, calling, called, twice, due, reports>>

DeleteTrigger(l, cb) ==
    /\ TriggersMayChange
    /\ \E j \in Registered(l, cb) :
          /\ triggers[l][j].id # calling
          /\ triggers' = [triggers EXCEPT ![l] = RemoveAt(@, j)]
          /\ due' = due \ {triggers[l][j].id}
    /\ UNCHANGED <<added, changes, report, calling, called, twice, reports>>

------------------------------------------------------------------------------
(* The change a commit goes on with, and its end after the last.            *)
ReportOfRowOnly(i) ==
    IF i > Len(changes) THEN ReportAs(i, "transaction", {})
    ELSE ReportAs(i, IF changes[i].kind = "update" THEN "none" ELSE "row", {})

ReportOf(i) ==
    IF i > Len(changes) THEN ReportAs(i, "transaction", {})
    ELSE ReportAs(i, IF changes[i].kind = "update" THEN "none" ELSE "row", changes[i].mask)

(* mdb_trigger_column_change: the lowest of the columns that are left.      *)
LowestColumn(mask) == ColumnNames[Min({j \in DOMAIN ColumnNames : ColumnNames[j] \in mask})]

IsOver == report.mask = {} /\ (report.list = "table" \/ report.change > Len(changes))

NextReport ==
    CASE report.mask # {} -> LET c == LowestColumn(report.mask) IN ReportAs(report.change, c, report.mask \ {c})
      [] report.mask = {} /\ IsOver -> NoReport
      [] OTHER -> ReportOf(report.change + 1)

Start(cs, first) ==
    /\ report = NoReport /\ reports < MaxCommits
    /\ changes' = cs /\ report' = first
    /\ calling' = 0 /\ called' = {} /\ twice' = FALSE
    /\ due' = {t.id : t \in All}
    /\ reports' = reports + 1
    /\ UNCHANGED <<triggers, added>>

(* mdb_transaction_commit: the transaction's start with the first change,   *)
(* the changes from the oldest on, and its end.                             *)
ChangesMade == [kind : {"insert", "update"}, mask : SUBSET Columns] \cup [kind : {"delete"}, mask : {{}}]
CommitReported == \E n \in 1 .. MaxChanges : \E cs \in [1 .. n -> ChangesMade] : Start(cs, ReportAs(0, "transaction", {}))

(* mdb_table_register_handle and mdb_table_drop.                            *)
TableCreated == Start(<<[kind |-> "create", mask |-> {}]>>, ReportAs(1, "table", {}))
TableDropped == Start(<<[kind |-> "drop", mask |-> {}]>>, ReportAs(1, "table", {}))

(* MDB_DLIST_FOR_EACH: from the head, and from the trigger just called, the *)
(* next in the list is looked up when the callback has returned.            *)
Walked == IF report.list = "none" THEN <<>> ELSE triggers[report.list]
NextToCall == IF calling = 0 THEN 1
              ELSE 1 + CHOOSE j \in DOMAIN Walked : Walked[j].id = calling

Call ==
    /\ report # NoReport /\ NextToCall <= Len(Walked)
    /\ LET id == Walked[NextToCall].id
           call == [change |-> report.change, list |-> report.list, id |-> id]
       IN  calling' = id /\ twice' = (twice \/ call \in called) /\ called' = called \cup {call}
    /\ UNCHANGED <<triggers, added, changes, report, due, reports>>

(* mdb_trigger_reset, after the drop was reported: the triggers of the      *)
(* table are freed.                                                         *)
Reset(cs) == IF cs[1].kind = "drop"
             THEN [l \in Lists |-> IF l \in {"transaction", "table"} THEN triggers[l] ELSE <<>>]
             ELSE triggers

EndReport ==
    /\ report # NoReport /\ NextToCall > Len(Walked)
    /\ calling' = 0 /\ report' = NextReport
    /\ triggers' = IF IsOver THEN Reset(changes) ELSE triggers
    /\ UNCHANGED <<added, changes, called, twice, due, reports>>

TriggerNext == \/ \E l \in Lists, cb \in Callbacks : AddTrigger(l, cb) \/ DeleteTrigger(l, cb)
               \/ CommitReported \/ TableCreated \/ TableDropped \/ Call \/ EndReport

TriggerSpec == TriggerInit /\ [][TriggerNext]_triggerVars

------------------------------------------------------------------------------
(* What a change concerns.                                                  *)
Concerned(i, l) ==
    LET k == IF i \in DOMAIN changes THEN changes[i].kind ELSE "frame"
    IN  CASE l = "transaction" -> k = "frame"
          [] l = "table" -> k \in {"create", "drop"}
          [] l = "row" -> k \in {"insert", "delete"}
          [] OTHER -> k \in {"insert", "update"} /\ l \in changes[i].mask

Reported == IF changes = <<>> THEN {}
            ELSE IF changes[1].kind \in {"create", "drop"} THEN {1} ELSE 0 .. Len(changes) + 1

(* When all is reported each trigger that was there from start to end has   *)
(* been called for every change it is about, and none ever is for another   *)
(* change or twice for one - whatever triggers the callbacks added and      *)
(* deleted (mdb_transaction_commit, row_change, mdb_trigger_column_change). *)
TriggersSeeTheirChanges ==
    /\ ~twice
    /\ \A c \in called : Concerned(c.change, c.list)
    /\ report = NoReport =>
         \A l \in Lists, i \in Reported : \A t \in ToSet(triggers[l]) :
            t.id \in due /\ Concerned(i, l) => [change |-> i, list |-> l, id |-> t.id] \in called
==============================================================================
