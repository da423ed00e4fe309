------------------------------- MODULE Subloops -------------------------------
(* Foreign loops that common/mainloop.c pumps: each iteration asks every    *)
(* subloop for its descriptors and timeout before it sleeps, and lets it    *)
(* check what has become ready, and dispatch, afterwards.                   *)
(*                                                                          *)
(* A subloop's callbacks may delete any subloop, itself included, add one,  *)
(* change what it wants and close and open descriptors; its check and its   *)
(* query do none of that.  Deleting the subloop the walk is to visit next   *)
(* makes it go on along the list of deleted ones, and a subloop deleted by  *)
(* its own dispatch while it is prepared is called through NULL: both ways  *)
(* the loop is lost, and nothing follows.                                   *)
EXTENDS Integers, Sequences, FiniteSets, SequencesExt, FiniteSetsExt

CONSTANTS Loops,       \* subloops, each added once
          Pollable,    \* descriptors
          FdLists,     \* the lists of descriptors subloops ask for
          Timeouts,    \* the timeouts they ask for, -1 for none
          OwnTimeouts, \* the loop's own, with a timer or a deferred callback
          INT_MAX,
          MaxRounds,   \* bound on the iterations
          MaxCalls     \* bound on what clients do

End == "end"

ASSUME SubloopsAssumption == /\ End \notin Loops /\ FdLists \subseteq Seq(Pollable)
                             /\ Timeouts \subseteq Int /\ OwnTimeouts \subseteq Nat /\ INT_MAX \in Nat

VARIABLES state,    \* subloop -> "new", "on", "deleted" or "freed"
          subloops, \* ml->subloops
          pollfds,  \* subloop -> sl->pollfds, the descriptors
          revents,  \* subloop -> what check is to see: whether each is ready
          epoll,    \* subloop -> descriptor -> index in pollfds, 0 if not registered
          poll,     \* the subloops to be polled: sl->poll
          wanted,     \* subloop -> [fds, timeout], what query answers
          ready,    \* the descriptors that are ready
          at,       \* [phase, cb, cur, next] of the iteration
          least,    \* min_timeout
          asked,    \* history: the timeouts answered in this iteration
          woken,    \* history: what was ready when the loop woke up and is not drained
          reopened, \* history: descriptors opened again while registered, by subloop
          round, called

loopVars == <<state, subloops>>
fdVars == <<pollfds, revents, epoll, poll>>
timeVars == <<least, asked>>
history == <<woken, reopened>>
subloopVars == <<loopVars, fdVars, wanted, ready, at, timeVars, history, round, called>>

At(phase, cb, list) == [phase |-> phase, cb |-> cb, next |-> IF Len(list) > 1 THEN list[2] ELSE End,
                        cur |-> IF list = <<>> THEN End ELSE list[1]]

SubloopsInit ==
    /\ state = [l \in Loops |-> "new"] /\ subloops = <<>> /\ pollfds = [l \in Loops |-> <<>>]
    /\ revents = [l \in Loops |-> <<>>] /\ epoll = [l \in Loops |-> [f \in Pollable |-> 0]] /\ poll = {}
    /\ wanted = [l \in Loops |-> [fds |-> <<>>, timeout |-> -1]] /\ ready = {} /\ woken = {}
    /\ at = At("others", "none", <<>>) /\ least = INT_MAX /\ asked = {} /\ reopened = {}
    /\ round = 0 /\ called = 0

(* mrp_list_foreach has the entry after the next one looked up as it moves. *)
LoopPlace(l) == CHOOSE i \in DOMAIN subloops : subloops[i] = l
After(l) == IF LoopPlace(l) < Len(subloops) THEN subloops[LoopPlace(l) + 1] ELSE End
Lost(how) == [phase |-> how, cb |-> "none", cur |-> End, next |-> End]
Advanced == IF at.next = End THEN [at EXCEPT !.cb = "none", !.cur = End]
            ELSE IF state[at.next] # "on" THEN Lost("strayed")
            ELSE [at EXCEPT !.cb = "none", !.cur = at.next, !.next = After(at.next)]

------------------------------------------------------------------------------
(* Client code: in other callbacks of the loop and in those of a subloop.   *)
CallbackRuns == /\ at.phase = "others" \/ at.cb \in {"prepare", "dispatch"}
              /\ called < MaxCalls /\ called' = called + 1

AddSubloop(l, fds, timeout) ==
    /\ CallbackRuns /\ state[l] = "new"
    /\ state' = [state EXCEPT ![l] = "on"] /\ subloops' = Append(subloops, l)
    /\ wanted' = [wanted EXCEPT ![l] = [fds |-> fds, timeout |-> timeout]]
    /\ UNCHANGED <<fdVars, ready, at, timeVars, history, round>>

DelSubloop(l) == /\ CallbackRuns /\ state[l] = "on"
                 /\ state' = [state EXCEPT ![l] = "deleted"]
                 /\ subloops' = RemoveAt(subloops, LoopPlace(l))
                 /\ epoll' = [epoll EXCEPT ![l] = [f \in Pollable |-> 0]]
                 /\ UNCHANGED <<pollfds, revents, poll, wanted, ready, at, timeVars, history, round>>

Wants(l, fds, timeout) ==
    /\ CallbackRuns /\ state[l] = "on" /\ wanted' = [wanted EXCEPT ![l] = [fds |-> fds, timeout |-> timeout]]
    /\ UNCHANGED <<loopVars, fdVars, ready, at, timeVars, history, round>>

(* Closing takes a descriptor out of every epoll set; what is opened next   *)
(* has its number.                                                          *)
Reopen(f) == /\ CallbackRuns /\ \E l \in Loops : epoll[l][f] # 0
             /\ reopened' = reopened \cup {<<l, f>> : l \in {k \in Loops : epoll[k][f] # 0}}
             /\ epoll' = [l \in Loops |-> [epoll[l] EXCEPT ![f] = 0]] /\ ready' = ready \ {f}
             /\ UNCHANGED <<loopVars, pollfds, revents, poll, wanted, at, timeVars, woken, round>>

(* External: a descriptor becomes ready, where somebody may notice; a       *)
(* client reads what there is.                                              *)
BecomesReady(f) == /\ at.phase \in {"poll", "dispatch"} /\ f \notin ready /\ ready' = ready \cup {f}
                   /\ UNCHANGED <<loopVars, fdVars, wanted, at, timeVars, history, round, called>>
Drained(f) == /\ CallbackRuns /\ f \in ready /\ ready' = ready \ {f} /\ woken' = woken \ {f}
              /\ UNCHANGED <<loopVars, fdVars, wanted, at, timeVars, reopened, round>>

------------------------------------------------------------------------------
(* mrp_mainloop_prepare, prepare_subloops                                   *)
StartPrepare == /\ at.phase = "others" /\ round < MaxRounds /\ round' = round + 1
                /\ at' = At("prepare", "none", subloops) /\ UNCHANGED <<loopVars, fdVars, wanted, ready, timeVars, history, called>>

(* prepare_subloop: prepare, perhaps dispatch, then query.                  *)
CallPrepare == /\ at.phase = "prepare" /\ at.cur # End /\ at.cb = "none"
               /\ \E cb \in {"prepare", "query"} : at' = [at EXCEPT !.cb = cb]
               /\ UNCHANGED <<loopVars, fdVars, wanted, ready, timeVars, history, round, called>>

PrepareReturns == /\ at.cb = "prepare"
                  /\ at' = IF state[at.cur] = "on" THEN [at EXCEPT !.cb = "query"] ELSE Lost("crashed")
                  /\ UNCHANGED <<loopVars, fdVars, wanted, ready, timeVars, history, round, called>>

FirstPlace(fds, f) == IF f \in ToSet(fds) THEN Min({i \in DOMAIN fds : fds[i] = f}) ELSE 0

EpollSetNotRemoved(new, reg) ==      \* mutant: the old descriptors stay
    [f \in Pollable |-> IF reg[f] # 0 THEN reg[f] ELSE FirstPlace(new, f)]

(* The old descriptors are removed and the new ones added; a descriptor     *)
(* that is given twice is registered for its first place.                   *)
EpollSet(new, reg) == [f \in Pollable |-> FirstPlace(new, f)]

Query ==
    /\ at.cb = "query" /\ at.phase = "prepare"
    /\ LET l == at.cur
           new == wanted[l].fds
       IN  /\ poll' = poll \ {l}
           /\ pollfds' = [pollfds EXCEPT ![l] = new]
           /\ revents' = [revents EXCEPT ![l] = [i \in DOMAIN new |-> FALSE]]
           /\ epoll' = IF new = pollfds[l] THEN epoll
                       ELSE [epoll EXCEPT ![l] = EpollSet(new, epoll[l])]
           /\ reopened' = IF new = pollfds[l] THEN reopened ELSE {r \in reopened : r[1] # l}
           /\ least' = IF wanted[l].timeout < least THEN wanted[l].timeout ELSE least
           /\ asked' = asked \cup {wanted[l].timeout}
    /\ at' = Advanced
    /\ UNCHANGED <<loopVars, wanted, ready, woken, round, called>>

Prepared == /\ at.phase = "prepare" /\ at.cur = End /\ at' = [at EXCEPT !.phase = "poll"]
            /\ UNCHANGED <<loopVars, fdVars, wanted, ready, timeVars, history, round, called>>

(* ml->poll_timeout; the loop's own timeout, its next timer's or 0, is      *)
(* worked out before the subloops are asked.                                *)
PollTimeout(own) == IF least # -1 /\ least < own THEN least ELSE own

(* mrp_mainloop_poll, and subloop_event_cb for each epoll set that is ready;*)
(* other callbacks follow.                                                  *)
WakeUp == /\ at.phase = "poll" /\ woken' = ready /\ asked' = {} /\ least' = INT_MAX
          /\ poll' = poll \cup {l \in Loops : state[l] = "on" /\ \E f \in ready : epoll[l][f] # 0}
          /\ at' = [at EXCEPT !.phase = "callbacks", !.cb = "dispatch"]
          /\ UNCHANGED <<loopVars, pollfds, revents, epoll, wanted, ready, reopened, round, called>>

StartSubloops == /\ at.phase = "callbacks" /\ at' = At("dispatch", "none", subloops)
                 /\ UNCHANGED <<loopVars, fdVars, wanted, ready, timeVars, history, round, called>>

(* poll_subloop                                                             *)
PollSubloop == /\ at.phase = "dispatch" /\ at.cur # End /\ at.cb = "none"
               /\ revents' = [revents EXCEPT ![at.cur] =
                    [i \in DOMAIN @ |-> @[i] \/ (at.cur \in poll /\ pollfds[at.cur][i] \in ready
                                                 /\ epoll[at.cur][pollfds[at.cur][i]] = i)]]
               /\ at' = [at EXCEPT !.cb = "check"]
               /\ UNCHANGED <<loopVars, pollfds, epoll, poll, wanted, ready, timeVars, history, round, called>>

(* check, and dispatch if there is something to do.                         *)
Check == /\ at.cb = "check"
         /\ at' \in {[at EXCEPT !.cb = "dispatch"], Advanced}
         /\ UNCHANGED <<loopVars, fdVars, wanted, ready, timeVars, history, round, called>>

DispatchReturns == /\ at.phase = "dispatch" /\ at.cb = "dispatch" /\ at' = Advanced
                   /\ UNCHANGED <<loopVars, fdVars, wanted, ready, timeVars, history, round, called>>

(* purge_deleted                                                            *)
Purge == /\ at.phase = "dispatch" /\ at.cur = End /\ at.cb = "none"
         /\ state' = [l \in Loops |-> IF state[l] = "deleted" THEN "freed" ELSE state[l]]
         /\ at' = At("others", "none", <<>>) /\ woken' = {}
         /\ UNCHANGED <<subloops, fdVars, wanted, ready, timeVars, reopened, round, called>>

SubloopsNext ==
    \/ \E l \in Loops : \/ DelSubloop(l)
                        \/ \E fds \in FdLists, timeout \in Timeouts :
                              AddSubloop(l, fds, timeout) \/ Wants(l, fds, timeout)
    \/ \E f \in Pollable : Reopen(f) \/ BecomesReady(f) \/ Drained(f)
    \/ StartPrepare \/ CallPrepare \/ PrepareReturns \/ Query \/ Prepared \/ WakeUp \/ StartSubloops
    \/ PollSubloop \/ Check \/ DispatchReturns \/ Purge

SubloopsSpec == SubloopsInit /\ [][SubloopsNext]_subloopVars

------------------------------------------------------------------------------
(* What check sees ready is ready, and what was ready when the loop woke up *)
(* and still is, is seen, unless the descriptor was opened anew behind the  *)
(* loop's back or given twice; epoll never points into descriptors that     *)
(* were replaced; the subloops linked are those added and not deleted; and  *)
(* a loop with a timer of its own, whose subloops all answer with a timeout,*)
(* sleeps past none (prepare_subloop, poll_subloop, mrp_mainloop_prepare).  *)
SubloopsAreServed ==
    /\ at.cb = "check" =>
         LET l == at.cur IN \A i \in DOMAIN pollfds[l] :
            LET f == pollfds[l][i] IN
            /\ revents[l][i] => f \in ready
            /\ f \in woken \cap ready /\ <<l, f>> \notin reopened /\ (\A j \in 1 .. i - 1 : pollfds[l][j] # f)
               => revents[l][i]
    /\ \A l \in Loops, f \in Pollable :
          epoll[l][f] # 0 => epoll[l][f] \in DOMAIN pollfds[l] /\ pollfds[l][epoll[l][f]] = f
    /\ ToSet(subloops) = {l \in Loops : state[l] = "on"} /\ IsInjective(subloops)
    /\ at.phase = "poll" /\ -1 \notin asked => \A own \in OwnTimeouts, t \in asked : PollTimeout(own) <= t

(* The walk over the subloops stays on their list: "since we do not         *)
(* dispatch loops by traversing the list of loops, it is safe to relink it  *)
(* to the list of data structures to be deleted" (mrp_del_subloop).         *)
WalkStaysOnSubloops == at.phase # "strayed"
==============================================================================
