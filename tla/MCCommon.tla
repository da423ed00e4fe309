------------------------------- MODULE MCCommon -------------------------------
(* The subloops, the superloop and the signal handlers of the main loop,    *)
(* and the hash table and the allocators all parts use, each on its own.    *)
EXTENDS Subloops, Superloop, SigHandlers, Hashtbl, Memory, TLC

CONSTANTS l1, l2, h1, h2, h3

VARIABLE part

mainVars == <<subloopVars, superVars, sigVars>>
commonVars == <<hashtblVars, poolVars, blockVars>>

MCLoops == {l1, l2}
MCTimeouts == {-1, 1}
MCFdLists == {<<>>, <<"f">>, <<"f", "g">>, <<"f", "f">>}
MCSignum == h1 :> "SIGHUP" @@ h2 :> "SIGHUP" @@ h3 :> "SIGTERM"
MCBucket == "k1" :> "a" @@ "k2" :> "a" @@ "k3" :> "b"

Pool(n, limit, setup, cleanup) == [nperchunk |-> n, limit |-> limit, setup |-> setup, cleanup |-> cleanup]
MCPoolSizes == {Pool(3, 0, FALSE, TRUE), Pool(3, 4, TRUE, FALSE), Pool(2, 3, TRUE, TRUE)}

(* The chunks of a pool are two pages.                                      *)
ASSUME PoolAssumption == \A objsize \in 1 .. 8192 : ObjectsFit(objsize, 8192)

Symmetry == Permutations(MCLoops)

Init == /\ part \in {"subloops", "superloop", "signals", "hash", "pool", "blocks"}
        /\ SubloopsInit /\ SuperInit /\ SigInit /\ HashtblInit
        /\ IF part = "pool" THEN PoolInit
           ELSE PoolInit /\ pool.cleanup /\ ~pool.setup
        /\ BlocksInit /\ (part = "blocks" \/ mode = "debug")

Next == /\ \/ part = "subloops" /\ SubloopsNext /\ UNCHANGED <<superVars, sigVars, commonVars>>
           \/ part = "superloop" /\ SuperNext /\ UNCHANGED <<subloopVars, sigVars, commonVars>>
           \/ part = "signals" /\ SigNext /\ UNCHANGED <<subloopVars, superVars, commonVars>>
           \/ part = "hash" /\ HashtblNext /\ UNCHANGED <<mainVars, poolVars, blockVars>>
           \/ part = "pool" /\ PoolNext /\ UNCHANGED <<mainVars, hashtblVars, blockVars>>
           \/ part = "blocks" /\ BlocksNext /\ UNCHANGED <<mainVars, hashtblVars, poolVars>>
        /\ UNCHANGED part

Spec == Init /\ [][Next]_<<part, mainVars, commonVars>>
==============================================================================
