------------------------------ MODULE MdbTables ------------------------------
(* The tables there are: mqi/mqi.c gives out handles and keeps names for    *)
(* them, mdb/table.c keeps its own names of the same tables.  Handles are   *)
(* numbers never given out twice (see MdbHandle).                           *)
(*                                                                          *)
(* mdb_table_drop frees a table and its name and leaves both in table_hash  *)
(* until the last table goes: the entry is stale, and what a lookup makes   *)
(* of the freed name is anything.  Tables are never renamed.                *)
EXTENDS Integers, Sequences, FiniteSets, Functions

CONSTANTS TableNames,
          MaxTables    \* bound on tables ever made

VARIABLES isOpen,      \* dbs and ndb
          named,       \* table -> name, of the tables not freed (mdb)
          tableHash,   \* entries of table_hash: [name, table]
          tableCount,
          handles,     \* table_handle: handle -> table
          nameHash,    \* table_name_hash: name -> handle
          made,        \* tables ever made
          given,       \* history: handle -> name, of those not dropped
          overwritten, \* history: names a create failed for while in use
          orphans      \* history: tables whose drop failed, or left by a close

tablesVars == <<isOpen, named, tableHash, tableCount, handles, nameHash, made, given, overwritten,
                orphans>>

Tables == DOMAIN named

TablesInit == /\ isOpen = FALSE /\ named = <<>> /\ tableHash = {} /\ tableCount = 0 /\ handles = <<>>
              /\ nameHash = <<>> /\ made = 0 /\ given = <<>> /\ overwritten = {} /\ orphans = {}

With(f, x, y) == [z \in DOMAIN f \cup {x} |-> IF z = x THEN y ELSE f[z]]
Without(f, x) == Restrict(f, DOMAIN f \ {x})

Fresh(name) == {e \in tableHash : e.name = name /\ e.table \in Tables}
Stale(name) == {e \in tableHash : e.name = name /\ e.table \notin Tables}

(* mqi_open registers the one backend there is; mqi_close forgets what mqi  *)
(* knows and leaves the tables where they are.                              *)
Open == /\ ~isOpen /\ isOpen' = TRUE
        /\ UNCHANGED <<named, tableHash, tableCount, handles, nameHash, made, given, overwritten, orphans>>

Close == /\ isOpen /\ isOpen' = FALSE
         /\ handles' = <<>> /\ nameHash' = <<>> /\ given' = <<>> /\ overwritten' = {}
         /\ orphans' = Tables
         /\ UNCHANGED <<named, tableHash, tableCount, made>>

(* mqi_create_table with a definition mdb_table_create accepts: the handle  *)
(* and the name are registered.  Of a stale entry the new one may be taken  *)
(* for an old acquaintance, and is then not added.                          *)
Create(name) ==
    LET t == made + 1 IN
    /\ isOpen /\ made < MaxTables
    /\ Fresh(name) = {} /\ name \notin DOMAIN nameHash
    /\ named' = With(named, t, name)
    /\ \/ tableHash' = tableHash \cup {[name |-> name, table |-> t]}
       \/ Stale(name) # {} /\ tableHash' = (tableHash \ Stale(name)) \cup {[name |-> name, table |-> t]}
    /\ tableCount' = tableCount + 1
    /\ handles' = With(handles, t, t)
    /\ nameHash' = With(nameHash, name, t)
    /\ made' = t
    /\ given' = With(given, t, name)
    /\ UNCHANGED <<isOpen, overwritten, orphans>>

(* The cleanup forgets the name - also that of the table that has it.       *)
CleanUp(name) == nameHash' = Without(nameHash, name)

(* A bad definition, or the name is there or a stale one seems to be.       *)
CreateFails(name) ==
    /\ isOpen
    /\ CleanUp(name)
    /\ overwritten' = overwritten \cup ({name} \cap DOMAIN nameHash)
    /\ UNCHANGED <<isOpen, named, tableHash, tableCount, handles, made, given, orphans>>

DropKeepsCount(t) == /\ named' = Without(named, t)
                     /\ UNCHANGED <<tableHash, tableCount>>

(* mdb_table_drop                                                           *)
MdbDrop(t) ==
    /\ named' = Without(named, t)
    /\ IF tableCount > 1 THEN tableCount' = tableCount - 1 /\ UNCHANGED tableHash
                         ELSE tableCount' = 0 /\ tableHash' = {}

(* mqi_drop_table of any handle ever given; the handle goes first, and the  *)
(* table only when its name is found.                                       *)
Drop(h) ==
    /\ isOpen /\ h \in DOMAIN handles
    /\ handles' = Without(handles, h)
    /\ given' = Without(given, h)
    /\ LET mine == {n \in DOMAIN nameHash : nameHash[n] = h}
       IN  IF mine = {}
           THEN /\ orphans' = orphans \cup {handles[h]}
                /\ UNCHANGED <<named, tableHash, tableCount, nameHash, overwritten>>
           ELSE /\ MdbDrop(handles[h])
                /\ nameHash' = Restrict(nameHash, DOMAIN nameHash \ mine)
                /\ overwritten' = overwritten \ mine
                /\ UNCHANGED orphans
    /\ UNCHANGED <<isOpen, made>>

(* GET_TABLE: what every other call on a handle reaches.                    *)
Reaches(h) == IF h \in DOMAIN handles THEN {handles[h]} ELSE {}

(* mqi_get_table_handle, with {} for the NULL that becomes handle zero,     *)
(* which stands for no table.                                               *)
HandleOf(name) == IF name \in DOMAIN nameHash THEN {nameHash[name]} ELSE {}

(* mqi_show_tables: names whose handle still stands for a table.            *)
Shown == {n \in DOMAIN nameHash : Reaches(nameHash[n]) # {}}

TablesNext == Open \/ Close \/ (\E n \in TableNames : Create(n) \/ CreateFails(n))
              \/ (\E h \in DOMAIN handles : Drop(h))

TablesSpec == TablesInit /\ [][TablesNext]_tablesVars

------------------------------------------------------------------------------
(* A handle reaches its own table, allocated, until it is dropped, and its  *)
(* name leads to it and is shown as long as no create of that name failed   *)
(* meanwhile; a table no handle reaches is one whose drop failed or that a  *)
(* close left behind, and all tables are counted and found under their      *)
(* names (mqi_create_table, mqi_drop_table, mdb_table_create, _drop).       *)
HandlesReachTables ==
    /\ \A h \in DOMAIN given :
          /\ \E t \in Reaches(h) : t \in Tables /\ named[t] = given[h]
          /\ given[h] \notin overwritten => HandleOf(given[h]) = {h} /\ given[h] \in Shown
    /\ \A t \in Tables \ orphans : \E h \in DOMAIN given : Reaches(h) = {t}
    /\ tableCount = Cardinality(Tables)
    /\ \A t \in Tables : [name |-> named[t], table |-> t] \in tableHash
==============================================================================
