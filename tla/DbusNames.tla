------------------------------ MODULE DbusNames ------------------------------
(****************************************************************************)
(* Names and pending calls of common/dbus.c: following the owner of a name  *)
(* on the bus by a match rule, a first query and the signals that come      *)
(* after it; forgetting it with the query under way; calls, their replies,  *)
(* timeouts and cancellation; dropping the connection.                      *)
(*                                                                          *)
(* The bus and libdbus are external: the bus answers in some order and all  *)
(* it sends arrives in that order; libdbus turns a late answer into an      *)
(* error.  Trackers and calls are numbered as they are made, a tracker and  *)
(* its query alike.                                                         *)
(****************************************************************************)
EXTENDS Integers, Sequences, SequencesExt, FiniteSets

CONSTANTS Clients, Names, Owners,
          NoOwner,       \* a name nobody owns
          MaxTrackers,   \* bound on trackers and calls ever made
          MaxChanges     \* bound on changes of ownership

VARIABLES owner,      \* bus: who owns each name
          rules,      \* bus: how many match rules we have for each name
          inq,        \* what the bus has sent us and we have not dispatched
          asked,      \* calls the bus has not answered yet
          held,       \* calls libdbus holds with our callback
          calls,      \* dbus->calls: calls we have allocated
          trackers,   \* dbus->name_trackers
          tracker,    \* every tracker made: [name, client, st, told, late]
          walk,       \* the loop of name_owner_change_cb: its p and n
          alive,      \* somebody has a reference to the connection
          changes

nameVars == <<owner, rules, inq, asked, held, calls, trackers, tracker, walk, alive, changes>>

Head0 == 0                         \* the list head, where a walk ends
Idle  == [p |-> Head0, n |-> Head0, next |-> NoOwner, called |-> FALSE]
Unknown == [up |-> FALSE, owner |-> "unknown"]

NamesInit ==
    /\ owner = [m \in Names |-> NoOwner] /\ rules = [m \in Names |-> 0]
    /\ inq = <<>> /\ asked = {} /\ held = {} /\ calls = {}
    /\ trackers = <<>> /\ tracker = <<>> /\ walk = Idle /\ alive = TRUE /\ changes = 0

Fresh   == Len(tracker) + 1
Walking == walk.p # Head0

(* Clients run between two messages, and inside a callback of the walk.     *)
ClientRuns == alive /\ (Walking => walk.called)

------------------------------------------------------------------------------
(* The bus.                                                                 *)
ChangeOwner(m, o) ==
    /\ changes < MaxChanges /\ owner[m] # o
    /\ owner' = [owner EXCEPT ![m] = o] /\ changes' = changes + 1
    /\ inq' = IF rules[m] > 0 THEN Append(inq, [kind |-> "signal", name |-> m, next |-> o])
                              ELSE inq
    /\ UNCHANGED <<rules, asked, held, calls, trackers, tracker, walk, alive>>

Answer(k) ==
    /\ k \in asked /\ asked' = asked \ {k}
    /\ LET o == owner[tracker[k].name]
       IN  inq' = Append(inq, [kind |-> "reply", id |-> k, up |-> o # NoOwner, owner |-> o])
    /\ UNCHANGED <<owner, rules, held, calls, trackers, tracker, walk, alive, changes>>

------------------------------------------------------------------------------
(* mrp_dbus_call and mrp_dbus_send with a callback: the call is held by     *)
(* libdbus and on our list.                                                 *)
MakeCall(k) == asked' = asked \cup {k} /\ held' = held \cup {k} /\ calls' = calls \cup {k}

(* mrp_dbus_follow_name: the match rule is on the bus before the query.     *)
FollowName(c, m) ==
    /\ ClientRuns /\ Fresh <= MaxTrackers
    /\ rules' = [rules EXCEPT ![m] = @ + 1]
    /\ trackers' = Append(trackers, Fresh)
    /\ tracker' = Append(tracker, [name |-> m, client |-> c, st |-> "active", told |-> Unknown,
                                  late |-> FALSE])
    /\ MakeCall(Fresh)
    /\ UNCHANGED <<owner, inq, walk, alive, changes>>

(* A client's own call, about a name; nothing is tracked.                   *)
Call(m) ==
    /\ ClientRuns /\ Fresh <= MaxTrackers
    /\ tracker' = Append(tracker, [name |-> m, client |-> NoOwner, st |-> "call", told |-> Unknown,
                                  late |-> FALSE])
    /\ MakeCall(Fresh)
    /\ UNCHANGED <<owner, rules, inq, trackers, walk, alive, changes>>

Answers(i, k) == inq[i].kind = "reply" /\ inq[i].id = k

(* libdbus drops the answer to a call that is cancelled or has timed out.   *)
DropAnswer(k) ==
    /\ asked' = asked \ {k}
    /\ inq' = IF \E i \in DOMAIN inq : Answers(i, k)
              THEN RemoveAt(inq, CHOOSE i \in DOMAIN inq : Answers(i, k)) ELSE inq

CancelCall(k) ==
    /\ ClientRuns /\ k \in calls /\ tracker[k].st = "call"
    /\ calls' = calls \ {k} /\ held' = held \ {k} /\ DropAnswer(k)
    /\ UNCHANGED <<owner, rules, trackers, tracker, walk, alive, changes>>

(* mrp_dbus_forget_name: the first tracker of the client for the name goes; *)
(* one whose query is out is kept until it is answered.                     *)
Forget(i) ==
    LET k == trackers[i]
    IN  /\ rules' = [rules EXCEPT ![tracker[k].name] = @ - 1]
        /\ trackers' = RemoveAt(trackers, i)
        /\ tracker' = [tracker EXCEPT ![k].st = IF k \in calls THEN "zombie" ELSE "freed"]
        /\ UNCHANGED <<owner, inq, asked, held, calls, walk, alive, changes>>

Follows(i, c, m) == tracker[trackers[i]].client = c /\ tracker[trackers[i]].name = m

ForgetName(c, m) ==
    \E i \in DOMAIN trackers :
        /\ ClientRuns /\ Follows(i, c, m) /\ \A j \in 1 .. i - 1 : ~Follows(j, c, m)
        /\ Walking => trackers[i] = walk.p
        /\ Forget(i)

------------------------------------------------------------------------------
(* What we do with what arrives.                                            *)

(* call_reply_cb, then name_owner_query_cb.                                 *)
ReplyCb(k, up, o, late) ==
    /\ held' = held \ {k} /\ calls' = calls \ {k}
    /\ tracker' = CASE tracker[k].st = "active" ->
                         [tracker EXCEPT ![k].told = [up |-> up, owner |-> o], ![k].late = late]
                    [] tracker[k].st \in {"zombie", "call"} -> [tracker EXCEPT ![k].st = "freed"]
                    [] OTHER -> tracker
    /\ UNCHANGED <<owner, rules, trackers, walk, alive, changes>>

DispatchReply ==
    /\ ~Walking /\ inq # <<>> /\ Head(inq).kind = "reply"
    /\ ReplyCb(Head(inq).id, Head(inq).up, Head(inq).owner, FALSE)
    /\ inq' = Tail(inq) /\ UNCHANGED asked

(* No answer in time: libdbus makes up an error and drops the late answer.  *)
Timeout(k) == ~Walking /\ k \in held /\ ReplyCb(k, FALSE, NoOwner, TRUE) /\ DropAnswer(k)

After(k) == IF \E j \in 1..Len(trackers) - 1 : trackers[j] = k
            THEN trackers[(CHOOSE j \in 1..Len(trackers) : trackers[j] = k) + 1] ELSE Head0

StartWalk ==
    /\ ~Walking /\ alive /\ inq # <<>> /\ Head(inq).kind = "signal" /\ trackers # <<>>
    /\ walk' = [p |-> trackers[1], n |-> After(trackers[1]), next |-> Head(inq).next,
                called |-> FALSE]
    /\ UNCHANGED <<owner, rules, inq, asked, held, calls, trackers, tracker, alive, changes>>

(* The signal is not for us any more: the last tracker went before it.      *)
DropSignal ==
    /\ ~Walking /\ inq # <<>> /\ Head(inq).kind = "signal" /\ (alive => trackers = <<>>)
    /\ inq' = Tail(inq)
    /\ UNCHANGED <<owner, rules, asked, held, calls, trackers, tracker, walk, alive, changes>>

CallTrackerAnyName ==
    /\ Walking /\ ~walk.called /\ walk' = [walk EXCEPT !.called = TRUE]
    /\ tracker' = [tracker EXCEPT ![walk.p].told =
                      [up |-> walk.next # NoOwner, owner |-> walk.next]]
    /\ UNCHANGED <<owner, rules, inq, asked, held, calls, trackers, alive, changes>>

CallTracker ==
    /\ Walking /\ ~walk.called
    /\ walk' = [walk EXCEPT !.called = TRUE]
    /\ tracker' = IF tracker[walk.p].name = Head(inq).name
                  THEN [tracker EXCEPT ![walk.p].told =
                           [up |-> walk.next # NoOwner, owner |-> walk.next]]
                  ELSE tracker
    /\ UNCHANGED <<owner, rules, inq, asked, held, calls, trackers, alive, changes>>

NextTracker ==
    /\ Walking /\ walk.called
    /\ IF walk.n = Head0 THEN walk' = Idle /\ inq' = Tail(inq)
       ELSE /\ walk' = [walk EXCEPT !.p = walk.n, !.n = After(walk.n), !.called = FALSE]
            /\ UNCHANGED inq
    /\ UNCHANGED <<owner, rules, asked, held, calls, trackers, tracker, alive, changes>>

(* mrp_dbus_unref of the last reference, outside of every callback.  The    *)
(* trackers and the calls are freed, but libdbus is not told to cancel the  *)
(* calls: on a shared bus it goes on holding them.                          *)
Disconnect ==
    /\ alive /\ ~Walking /\ alive' = FALSE
    /\ trackers' = <<>> /\ calls' = {} /\ rules' = [m \in Names |-> 0]
    /\ tracker' = [k \in DOMAIN tracker |-> [tracker[k] EXCEPT !.st =
                       IF @ = "active" THEN "freed" ELSE @]]
    /\ UNCHANGED <<owner, inq, asked, held, walk, changes>>

NamesNext ==
    \/ \E m \in Names : \/ \E o \in Owners \cup {NoOwner} : ChangeOwner(m, o)
                        \/ \E c \in Clients : FollowName(c, m) \/ ForgetName(c, m)
                        \/ Call(m)
    \/ \E k \in DOMAIN tracker : Answer(k) \/ CancelCall(k) \/ Timeout(k)
    \/ DispatchReply \/ StartWalk \/ DropSignal \/ CallTracker \/ NextTracker \/ Disconnect

NamesSpec == NamesInit /\ [][NamesNext]_nameVars

------------------------------------------------------------------------------
(* When everything the bus sent was dispatched, each tracker has been told  *)
(* who owns its name now: no change is lost between the query and the       *)
(* signals.  Unless its query timed out: then it was told that nobody does. *)
OwnersAreKnown ==
    inq = <<>> /\ ~Walking =>
       \A j \in DOMAIN trackers :
          LET t == tracker[trackers[j]]
          IN  \/ trackers[j] \in asked \/ t.late
              \/ t.told = [up |-> owner[t.name] # NoOwner, owner |-> owner[t.name]]

(* The walk over the trackers goes on with a tracker that is on the list,   *)
(* whatever the callbacks follow and forget.                                *)
WalkStaysOnList == Walking => walk.n \in {Head0} \cup ToSet(trackers)

(* libdbus holds no call we have freed, as long as the connection lives; a  *)
(* forgotten tracker is freed at the latest by the answer to its query; and *)
(* the bus has a rule for each tracker, no more and no less.                *)
NothingLingers ==
    /\ alive => held = calls
    /\ \A k \in DOMAIN tracker : tracker[k].st = "zombie" => k \in held
    /\ IsInjective(trackers)
    /\ \A m \in Names : alive => rules[m] = Cardinality({k \in ToSet(trackers) : tracker[k].name = m})

(* Trackers know the owner of their name, survive callbacks that follow and *)
(* forget, and leave nothing behind, neither calls nor rules nor zombies.   *)
NamesAreKnown == OwnersAreKnown /\ WalkStaysOnList /\ NothingLingers
==============================================================================
