----------------------------- MODULE SigHandlers -----------------------------
(* Signal handlers of common/mainloop.c: signals with a handler are blocked *)
(* and read from a signalfd by a watch of the loop, which calls every       *)
(* handler of the signal.                                                   *)
(*                                                                          *)
(* Deleting a handler, in a callback or not, unblocks every handled signal  *)
(* for a moment: whichever is pending, or arrives then, has its default     *)
(* effect.  A deleted handler is unlinked when a signal is next dispatched. *)
EXTENDS Integers, Sequences, FiniteSets, SequencesExt

CONSTANTS Handlers,   \* each added once
          Signals,
          Signum,     \* handler -> its signal
          MaxRaised   \* bound on the signals raised

ASSUME SigAssumption == "nobody" \notin Handlers

VARIABLES sighandlers, \* ml->sighandlers
          added,
          removed,     \* is_deleted
          freed,
          sigmask,     \* ml->sigmask
          fdmask,      \* the mask the signalfd was last given
          blocked, pending, \* of the process
          sig,         \* [signum, cur, next] being dispatched
          calls,       \* history: handler -> how often called for this signal
          owed,        \* history: handlers there when it was read, not deleted since
          lost,        \* history: handled signals that had their default effect
          unblocked,   \* in recalc_sigmask: signals are unblocked
          raised

sigVars == <<sighandlers, added, removed, freed, sigmask, fdmask, blocked, pending, sig, calls, owed,
             lost, unblocked, raised>>
lists == <<sighandlers, added, removed, freed>>
masks == <<sigmask, fdmask, blocked>>
walk == <<sig, calls, owed>>
Nobody == "nobody"
Idle == [signum |-> "none", cur |-> Nobody, next |-> Nobody]

SigInit == /\ sighandlers = <<>> /\ added = {} /\ removed = {} /\ freed = {} /\ sigmask = {} /\ fdmask = {}
           /\ blocked = {} /\ pending = {} /\ sig = Idle /\ calls = [h \in Handlers |-> 0] /\ owed = {}
           /\ lost = {} /\ unblocked = FALSE /\ raised = 0

Live == ToSet(sighandlers) \ removed
SignalsOf(H) == {Signum[h] : h \in H}
Place(h) == CHOOSE i \in DOMAIN sighandlers : sighandlers[i] = h
Follower(h) == IF Place(h) < Len(sighandlers) THEN sighandlers[Place(h) + 1] ELSE Nobody

(* mrp_add_sighandler                                                       *)
AddSighandler(h) == /\ ~unblocked /\ h \notin added /\ added' = added \cup {h}
                    /\ sighandlers' = Append(sighandlers, h)
                    /\ sigmask' = sigmask \cup {Signum[h]} /\ fdmask' = sigmask' /\ blocked' = blocked \cup sigmask'
                    /\ UNCHANGED <<removed, freed, pending, walk, lost, unblocked, raised>>

(* mrp_del_sighandler and recalc_sigmask, which a signal may come amid.     *)
DelSighandler(h) == /\ ~unblocked /\ h \in Live /\ removed' = removed \cup {h} /\ owed' = owed \ {h}
                    /\ blocked' = blocked \ sigmask /\ pending' = pending \ sigmask
                    /\ lost' = lost \cup (pending \cap SignalsOf(Live)) /\ unblocked' = TRUE
                    /\ UNCHANGED <<sighandlers, added, freed, sigmask, fdmask, sig, calls, raised>>

RecalculatedWithDeleted == SignalsOf(ToSet(sighandlers))
Recalculated == SignalsOf(Live)

Reblock == /\ unblocked /\ unblocked' = FALSE /\ sigmask' = Recalculated /\ blocked' = blocked \cup sigmask'
           /\ UNCHANGED <<lists, fdmask, pending, walk, lost, raised>>

(* External: a signal arrives.                                              *)
Raise(s) == /\ raised < MaxRaised /\ raised' = raised + 1
            /\ IF s \in blocked THEN pending' = pending \cup {s} /\ UNCHANGED lost
               ELSE lost' = (lost \cup ({s} \cap SignalsOf(Live))) /\ UNCHANGED pending
            /\ UNCHANGED <<lists, masks, walk, unblocked>>

(* dispatch_signals reads the next signal,                                  *)
ReadSignal == /\ ~unblocked /\ sig = Idle
              /\ \E s \in pending \cap fdmask :
                    /\ pending' = pending \ {s}
                    /\ sig' = [signum |-> s, cur |-> IF sighandlers = <<>> THEN Nobody ELSE sighandlers[1],
                               next |-> IF Len(sighandlers) > 1 THEN sighandlers[2] ELSE Nobody]
                    /\ owed' = {h \in Live : Signum[h] = s}
              /\ calls' = [h \in Handlers |-> 0]
              /\ UNCHANGED <<lists, masks, lost, unblocked, raised>>

CallHandler == /\ ~unblocked /\ sig.cur \in Live /\ Signum[sig.cur] = sig.signum /\ calls[sig.cur] = 0
               /\ calls' = [calls EXCEPT ![sig.cur] = 1]
               /\ UNCHANGED <<lists, masks, pending, sig, owed, lost, unblocked, raised>>

(* and moves on, unlinking (delete_sighandler) what was deleted.            *)
Proceed == /\ ~unblocked /\ sig.cur # Nobody
           /\ sig.cur \in removed \/ Signum[sig.cur] # sig.signum \/ calls[sig.cur] > 0
           /\ sighandlers' = IF sig.cur \in removed THEN RemoveAt(sighandlers, Place(sig.cur)) ELSE sighandlers
           /\ freed' = freed \cup ({sig.cur} \cap removed)
           /\ sig' = [sig EXCEPT !.cur = sig.next, !.next = IF sig.next = Nobody THEN Nobody ELSE Follower(sig.next)]
           /\ UNCHANGED <<added, removed, masks, pending, calls, owed, lost, unblocked, raised>>

Dispatched == /\ ~unblocked /\ sig # Idle /\ sig.cur = Nobody /\ sig' = Idle /\ owed' = {} /\ calls' = [h \in Handlers |-> 0]
              /\ UNCHANGED <<lists, masks, pending, lost, unblocked, raised>>

SigNext == \/ \E h \in Handlers : AddSighandler(h) \/ DelSighandler(h)
           \/ \E s \in Signals : Raise(s)
           \/ Reblock \/ ReadSignal \/ CallHandler \/ Proceed \/ Dispatched

SigSpec == SigInit /\ [][SigNext]_sigVars

------------------------------------------------------------------------------
(* A signal with a handler is blocked and read, and so never has its default*)
(* effect, until a handler is deleted; every handler that is there when a   *)
(* signal is read, and stays, is called for it; and what is linked is what  *)
(* was added and not unlinked (recalc_sigmask, dispatch_signals).           *)
SignalsAreHandled ==
    /\ ~unblocked => blocked = sigmask /\ sigmask = SignalsOf(Live) /\ sigmask \subseteq fdmask
    /\ lost # {} => removed # {}
    /\ pending \subseteq blocked
    /\ sig # Idle /\ sig.cur = Nobody => \A h \in owed : calls[h] = 1
    /\ IsInjective(sighandlers) /\ ToSet(sighandlers) = added \ freed /\ freed \subseteq removed
    /\ sig.cur # Nobody => sig.cur \in ToSet(sighandlers)
    /\ sig.next # Nobody => sig.next \in ToSet(sighandlers)
==============================================================================
