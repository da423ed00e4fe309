-------------------------------- MODULE MCMdb --------------------------------
(* A table of Murphy-DB with its transactions, and the structures the store *)
(* is built from, side by side.  A behaviour is one of a single part.       *)
EXTENDS Store, MdbHandle, MdbTables, MdbSequence, MdbHash, MdbTrigger, TLC

VARIABLES part,
          cond, result

condVars == <<cond, result>>

MCPrimes == <<2, 3, 5, 7, 11>>
MCColumns == <<"c1", "c2">>

(* Values of one type and of different ones, NULL and false among them.     *)
C == INSTANCE MdbCond WITH Values <- {[type |-> "integer", v |-> 0], [type |-> "integer", v |-> 1],
                                      [type |-> "unsignd", v |-> 1], [type |-> "varchar", v |-> 0]}

(* Cells, keys and values of the table are each interchangeable.            *)
StoreSymmetry ==
  {p @@ q @@ s : p \in Permutations(Rows), q \in Permutations(Keys), s \in Permutations(Vals)}

Init == /\ part \in {"handle", "sequence", "hash", "cond", "trigger", "tables", "store"}
        /\ HandlesInit /\ SequenceInit /\ TriggerInit /\ TablesInit /\ StoreInit
        /\ IF part = "hash" THEN TRUE ELSE asked = 2 /\ hfunc = [k \in HashKeys |-> 0]
        /\ HashInit
        /\ IF part = "cond" THEN C!CondInit ELSE cond = <<>> /\ result = {}

Next ==
  \/ part = "handle" /\ HandlesNext
     /\ UNCHANGED <<part, sequenceVars, hashVars, condVars, triggerVars, tablesVars, storeVars>>
  \/ part = "sequence" /\ SequenceNext
     /\ UNCHANGED <<part, handleVars, hashVars, condVars, triggerVars, tablesVars, storeVars>>
  \/ part = "hash" /\ HashNext
     /\ UNCHANGED <<part, handleVars, sequenceVars, condVars, triggerVars, tablesVars, storeVars>>
  \/ part = "cond" /\ C!CondNext
     /\ UNCHANGED <<part, handleVars, sequenceVars, hashVars, triggerVars, tablesVars, storeVars>>
  \/ part = "trigger" /\ TriggerNext
     /\ UNCHANGED <<part, handleVars, sequenceVars, hashVars, condVars, tablesVars, storeVars>>
  \/ part = "tables" /\ TablesNext
     /\ UNCHANGED <<part, handleVars, sequenceVars, hashVars, condVars, triggerVars, storeVars>>
  \/ part = "store" /\ StoreNext
     /\ UNCHANGED <<part, handleVars, sequenceVars, hashVars, condVars, triggerVars, tablesVars>>

Spec == Init /\ [][Next]_<<part, handleVars, sequenceVars, hashVars, condVars, triggerVars, tablesVars, storeVars>>

(* Of the conditions; the other properties come with their modules.         *)
ConditionsMeanWhatTheySay == C!ConditionsMeanWhatTheySay
==============================================================================
