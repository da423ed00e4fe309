------------------------------- MODULE Timers -------------------------------
(***************************************************************************)
(* Timers of the Murphy main loop (src/common/mainloop.c).                 *)
(*                                                                         *)
(* The list of timers is kept sorted by expiration time, the timeout of    *)
(* epoll_wait is taken from next_timer, and dispatch_timers walks the list *)
(* from its head and stops at the first timer that has not expired.        *)
(* Deleting a timer only marks it; the walk moves it to the list of        *)
(* deleted objects when it gets there.                                     *)
(*                                                                         *)
(* Time is relative: rem[t] is the expiration time of t minus the current  *)
(* time, in microseconds.  A timer that is overdue by more than MaxLag is  *)
(* overdue by MaxLag + 1: nothing the code compares can tell the           *)
(* difference, since MaxLag is also the longest a dispatch may last.       *)
(* The deferred and I/O callbacks of an iteration are phases of their own, *)
(* in which any client call may be made.                                   *)
(***************************************************************************)
EXTENDS Integers, Sequences, SequencesExt

CONSTANTS
    TimerBlocks,    \* the mrp_timer_t blocks malloc can hand out
    Intervals,      \* the intervals clients ask for, in milliseconds
    UsecsPerMsec,   \* USECS_PER_MSEC, scaled down
    UintSize,       \* 2^w for the w-bit product msecs * USECS_PER_MSEC
    MaxLag,         \* bound: microseconds one dispatch may last
    NULL

TimerList == "timers"   \* the list heads, where the cursors can point
Deleted   == "deleted"
Forever   == -1         \* the timeout of an epoll_wait that only I/O ends

ASSUME TimersAssumption ==
    /\ Intervals \subseteq Nat
    /\ UsecsPerMsec \in Nat \ {0}
    /\ UintSize \in Nat \ {0}
    /\ MaxLag \in Nat
    /\ TimerBlocks \cap {NULL, TimerList, Deleted} = {}

VARIABLES
    timers,     \* ml->timers, first to last
    deleted,    \* ml->deleted, first to last
    cb,         \* cb[t]: the callback pointer is not NULL (not deleted)
    interval,   \* interval[t]: msecs
    rem,        \* rem[t]: expire minus the current time
    next,       \* ml->next_timer
    sleep,      \* what is left of the poll timeout, in microseconds
    since,      \* time since dispatch_timers has read the clock
    late,       \* history: timers added or deleted while preparing subloops
    quit, pc, p, n

vars == <<timers, deleted, cb, interval, rem, next, sleep, since, late, quit,
          pc, p, n>>

objvars  == <<timers, deleted, cb, interval, rem>>
pollvars == <<sleep, since, late>>
walkvars == <<pc, p, n>>

Elements(s) == {s[i] : i \in DOMAIN s}
Allocated   == Elements(timers) \union Elements(deleted)
Live        == {t \in Elements(timers) : cb[t]}

\* Unlinking a hook that is on the list once, or not at all.
Without(s, t) ==
    LET i == CHOOSE i \in DOMAIN s : s[i] = t
    IN  IF t \in Elements(s) THEN SubSeq(s, 1, i - 1) \o SubSeq(s, i + 1, Len(s))
                             ELSE s

\* expire = now + msecs * USECS_PER_MSEC, an unsigned product.
Usecs(msecs) == (msecs * UsecsPerMsec) % UintSize

Least(S) == CHOOSE i \in S : \A j \in S : i <= j

(***************************************************************************)
(* insert_timer: in front of the first live timer that does not expire     *)
(* earlier, past any number of deleted ones, or at the end.                *)
(***************************************************************************)
InsertTimer(s, t, e) ==
    LET later == {i \in DOMAIN s : cb[s[i]] /\ e <= rem[s[i]]}
    IN  InsertAt(s, IF later = {} THEN Len(s) + 1 ELSE Least(later), t)

\* The update of next_timer at its end, given the new expiration times.
NextAfterInsert(t, newrem) ==
    IF next = NULL \/ newrem[t] < newrem[next] THEN t ELSE next

\* find_next_timer: the first timer of the list that is not deleted.
FindNext(s, live) ==
    LET I == {i \in DOMAIN s : s[i] \in live}
    IN  IF I = {} THEN NULL ELSE s[Least(I)]

\* The next pointer of a hook: the list it leads through is the one the
\* object is on now.
NextIn(s, head, x) ==
    LET i == CHOOSE i \in DOMAIN s : s[i] = x
    IN  IF i = Len(s) THEN head ELSE s[i + 1]

Succ(ts, ds, x) ==
    IF x \in Elements(ts) THEN NextIn(ts, TimerList, x)
    ELSE IF x \in Elements(ds) THEN NextIn(ds, Deleted, x)
    ELSE LET s == IF x = TimerList THEN ts ELSE ds
         IN  IF s = <<>> THEN x ELSE s[1]

-----------------------------------------------------------------------------
Init ==
    /\ timers = <<>>
    /\ deleted = <<>>
    /\ cb = [t \in TimerBlocks |-> FALSE]
    /\ interval = [t \in TimerBlocks |-> 0]
    /\ rem = [t \in TimerBlocks |-> 0]
    /\ next = NULL
    /\ sleep = 0
    /\ since = 0
    /\ late = {}
    /\ quit = FALSE
    /\ pc = "idle"
    /\ p = TimerList
    /\ n = TimerList

ClientRuns == pc \in {"idle", "subloops", "deferred", "callback", "others"}

AddTimer(t, msecs) ==
    /\ ClientRuns
    /\ t \notin Allocated
    /\ cb' = [cb EXCEPT ![t] = TRUE]
    /\ interval' = [interval EXCEPT ![t] = msecs]
    /\ rem' = [rem EXCEPT ![t] = Usecs(msecs)]
    /\ timers' = InsertTimer(timers, t, Usecs(msecs))
    /\ next' = NextAfterInsert(t, rem')
    /\ late' = IF pc = "subloops" THEN late \union {t} ELSE late
    /\ UNCHANGED <<deleted, sleep, since, quit, walkvars>>

DelTimerClearsNext(t) ==         \* mutant: looks for no other next_timer
    /\ ClientRuns
    /\ t \in Allocated
    /\ cb' = [cb EXCEPT ![t] = FALSE]
    /\ next' = IF next = t THEN NULL ELSE next
    /\ late' = IF pc = "subloops" THEN late \union {t} ELSE late
    /\ UNCHANGED <<timers, deleted, interval, rem, sleep, since, quit, walkvars>>

DelTimer(t) ==
    /\ ClientRuns
    /\ t \in Allocated
    /\ cb' = [cb EXCEPT ![t] = FALSE]
    /\ next' = IF next = t THEN FindNext(timers, Live \ {t}) ELSE next
    /\ late' = IF pc = "subloops" THEN late \union {t} ELSE late
    /\ UNCHANGED <<timers, deleted, interval, rem, sleep, since, quit, walkvars>>

Quit ==
    /\ ClientRuns
    /\ quit' = TRUE
    /\ UNCHANGED <<objvars, next, pollvars, walkvars>>

Client ==
    \/ \E t \in TimerBlocks : \/ \E msecs \in Intervals : AddTimer(t, msecs)
                              \/ DelTimer(t)
    \/ Quit

-----------------------------------------------------------------------------
(***************************************************************************)
(* The clock.  It is read when the poll timeout is computed, when a timer  *)
(* is armed and when a dispatch starts; it moves on while the loop sleeps  *)
(* and while a timer callback runs.                                        *)
(***************************************************************************)
Overdue == -(MaxLag + 1)

TimePasses ==
    rem' = [t \in TimerBlocks |->
              IF t \in Elements(timers) /\ rem[t] > Overdue
                THEN rem[t] - 1 ELSE rem[t]]

TickAsleep ==
    /\ pc = "poll"
    /\ sleep' = IF sleep > 0 THEN sleep - 1 ELSE sleep
    /\ TimePasses
    /\ UNCHANGED <<timers, deleted, cb, interval, next, since, late, quit,
                   walkvars>>

TickInCallback ==
    /\ pc = "callback"
    /\ since < MaxLag
    /\ since' = since + 1
    /\ TimePasses
    /\ UNCHANGED <<timers, deleted, cb, interval, next, sleep, late, quit,
                   walkvars>>

RoundUpOneUnit(usecs) ==         \* mutant: takes milliseconds for microseconds
    (usecs + UsecsPerMsec - 1) \div UsecsPerMsec

\* usecs_to_msecs rounds up; epoll_wait takes milliseconds.
RoundUp(usecs) ==
    ((usecs + UsecsPerMsec - 1) \div UsecsPerMsec) * UsecsPerMsec

\* mrp_mainloop_prepare.  With deferred callbacks pending the timeout is 0,
\* which the model leaves to chance.
Prepare ==
    /\ pc = "idle"
    /\ \/ sleep' = 0
       \/ sleep' = IF next = NULL THEN Forever
                   ELSE IF rem[next] <= 0 THEN 0
                   ELSE RoundUp(rem[next])
    /\ pc' = "subloops"
    /\ UNCHANGED <<objvars, next, since, late, quit, p, n>>

SubloopsPrepared ==
    /\ pc = "subloops"
    /\ pc' = "poll"
    /\ UNCHANGED <<objvars, next, pollvars, quit, p, n>>

\* epoll_wait returns, because its time is up or because of some event.
Poll ==
    /\ pc = "poll"
    /\ pc' = "deferred"
    /\ sleep' = 0
    /\ late' = {}
    /\ UNCHANGED <<objvars, next, since, quit, p, n>>

\* dispatch_deferred is done: unless a callback has asked to quit, the
\* clock is read and the walk over the timers starts.
StartDispatch ==
    /\ pc = "deferred"
    /\ pc' = IF quit THEN "purge" ELSE "check"
    /\ since' = 0
    /\ p' = IF quit THEN TimerList ELSE Succ(timers, deleted, TimerList)
    /\ n' = Succ(timers, deleted, p')
    /\ UNCHANGED <<objvars, next, sleep, late, quit>>

EndDispatch ==
    /\ pc = "check"
    /\ \/ p = TimerList
       \/ p # TimerList /\ cb[p] /\ rem[p] > -since
    /\ pc' = "others"
    /\ p' = TimerList
    /\ n' = TimerList
    /\ since' = 0
    /\ UNCHANGED <<objvars, next, sleep, late, quit>>

FireEarly ==                     \* mutant: compares whole milliseconds
    /\ pc = "check"
    /\ p # TimerList
    /\ cb[p]
    /\ rem[p] < UsecsPerMsec - since
    /\ pc' = "callback"
    /\ UNCHANGED <<objvars, next, pollvars, quit, p, n>>

Fire ==
    /\ pc = "check"
    /\ p # TimerList
    /\ cb[p]
    /\ rem[p] <= -since
    /\ pc' = "callback"
    /\ UNCHANGED <<objvars, next, pollvars, quit, p, n>>

\* The end of the loop body: leave the walk on quit, or step to the cached
\* n, whose own next pointer is read only now.
Step(ts, ds) ==
    IF quit
      THEN pc' = "purge" /\ p' = TimerList /\ n' = TimerList /\ since' = 0
      ELSE pc' = "check" /\ p' = n /\ n' = Succ(ts, ds, n)
           /\ UNCHANGED since

RearmInPlace ==                  \* mutant: leaves the timer where it is
    /\ pc = "callback"
    /\ cb[p]
    /\ rem' = [rem EXCEPT ![p] = Usecs(interval[p])]
    /\ next' = NextAfterInsert(p, rem')
    /\ Step(timers, deleted)
    /\ UNCHANGED <<timers, deleted, cb, interval, sleep, late, quit>>

\* The callback returns and p is not deleted: rearm_timer.
Rearm ==
    /\ pc = "callback"
    /\ cb[p]
    /\ rem' = [rem EXCEPT ![p] = Usecs(interval[p])]
    /\ timers' = InsertTimer(Without(timers, p), p, Usecs(interval[p]))
    /\ next' = NextAfterInsert(p, rem')
    /\ Step(timers', deleted)
    /\ UNCHANGED <<deleted, cb, interval, sleep, late, quit>>

\* p is deleted, by its own callback or before the walk got here:
\* delete_timer.
Relink ==
    /\ pc \in {"check", "callback"}
    /\ p # TimerList
    /\ ~cb[p]
    /\ timers' = Without(timers, p)
    /\ deleted' = Append(Without(deleted, p), p)
    /\ Step(timers', deleted')
    /\ UNCHANGED <<cb, interval, rem, next, sleep, late, quit>>

OthersDone ==
    /\ pc = "others"
    /\ pc' = "purge"
    /\ UNCHANGED <<objvars, next, pollvars, quit, p, n>>

\* purge_deleted, which runs no client code, is one step.
Freed(T) ==
    /\ cb' = [t \in TimerBlocks |-> t \notin T /\ cb[t]]
    /\ interval' = [t \in TimerBlocks |-> IF t \in T THEN 0 ELSE interval[t]]
    /\ rem' = [t \in TimerBlocks |-> IF t \in T THEN 0 ELSE rem[t]]

PurgeDeleted ==
    /\ pc = "purge"
    /\ Freed(Elements(deleted))
    /\ deleted' = <<>>
    /\ pc' = IF quit THEN "stopped" ELSE "idle"
    /\ UNCHANGED <<timers, next, pollvars, quit, p, n>>

\* mrp_mainloop_destroy: purge_timers and purge_deleted.
Destroy ==
    /\ pc \in {"idle", "stopped"}
    /\ Freed(Allocated)
    /\ timers' = <<>>
    /\ deleted' = <<>>
    /\ pc' = "gone"
    /\ UNCHANGED <<next, pollvars, quit, p, n>>

Loop ==
    \/ Prepare \/ SubloopsPrepared \/ Poll \/ StartDispatch \/ EndDispatch
    \/ Fire \/ Rearm \/ Relink \/ OthersDone \/ PurgeDeleted

Next == Client \/ TickAsleep \/ TickInCallback \/ Loop \/ Destroy

Spec == Init /\ [][Next]_vars

(***************************************************************************)
(* The loop keeps running, callbacks return, epoll_wait returns when its   *)
(* time is up, and the clock never stops: whenever the loop polls again    *)
(* and again, time passes.  Nothing is assumed to end a sleep without a    *)
(* timeout.                                                                *)
(***************************************************************************)
Asleep == pc = "poll" /\ sleep # 0

Fairness == WF_vars(~Asleep /\ Loop) /\ SF_vars(TickAsleep)

FairSpec == Spec /\ Fairness

-----------------------------------------------------------------------------
(***************************************************************************)
(* Properties.                                                             *)
(***************************************************************************)

\* Every variable stays in its range, and the cursors are hooks of this loop.
TypeOK ==
    /\ timers \in Seq(TimerBlocks)
    /\ deleted \in Seq(TimerBlocks)
    /\ cb \in [TimerBlocks -> BOOLEAN]
    /\ interval \in [TimerBlocks -> Intervals \union {0}]
    /\ rem \in [TimerBlocks -> Overdue .. UintSize]
    /\ next \in TimerBlocks \union {NULL}
    /\ sleep \in Nat \union {Forever}
    /\ since \in 0 .. MaxLag
    /\ late \subseteq TimerBlocks
    /\ quit \in BOOLEAN
    /\ pc \in {"idle", "subloops", "poll", "deferred", "check", "callback",
               "others", "purge", "stopped", "gone"}
    /\ p \in TimerBlocks \union {TimerList, Deleted}
    /\ n \in TimerBlocks \union {TimerList, Deleted}

NoRepeats(s) == \A i, j \in DOMAIN s : s[i] = s[j] => i = j

\* A timer is on one list, once, however it was rearmed and deleted in the
\* middle of the walk.
TimersOnOneList ==
    /\ NoRepeats(timers)
    /\ NoRepeats(deleted)
    /\ Elements(timers) \cap Elements(deleted) = {}

\* The live timers of the list are sorted by expiration time, whatever
\* deleted ones lie between them: this is what lets dispatch_timers stop at
\* the first timer that has not expired.
LiveTimersSorted ==
    \A i, j \in DOMAIN timers :
        i < j /\ cb[timers[i]] /\ cb[timers[j]]
            => rem[timers[i]] <= rem[timers[j]]

\* next_timer is never a timer that was deleted or freed, and it is not NULL
\* as long as there is a live timer, although neither dispatch_timers nor
\* purge_deleted ever looks at it.
NextTimerIsLive ==
    pc # "gone" =>
        /\ next # NULL => next \in Live
        /\ next = NULL => Live = {}

\* The cursors of dispatch_timers stay on the list of timers while callbacks
\* add and delete timers and the walk itself reorders the list.
WalkStaysOnTimers ==
    pc \in {"check", "callback"} =>
        /\ p \in Elements(timers) \union {TimerList}
        /\ n \in Elements(timers) \union {TimerList}
        /\ pc = "callback" => p # TimerList /\ p # n

\* epoll_wait is never asked to sleep without a timeout while a timer is
\* live, but for those that a subloop added after the timeout was computed.
NoSleepWithoutTimeout ==
    pc = "poll" /\ sleep = Forever => Live \subseteq late

\* When the poll timeout has passed, next_timer has expired, whatever timers
\* the subloops left alone: rounding to milliseconds never makes the loop
\* wake up for nothing and poll again.
FullSleepExpires ==
    [][sleep = 1 /\ TickAsleep /\ late = {} => rem'[next] <= 0]_vars

\* A timer callback runs no earlier than the interval asked for: at the call
\* interval[p] milliseconds have passed since p was armed.
WaitsItsInterval ==
    pc = "callback" =>
        Usecs(interval[p]) - rem[p] >= interval[p] * UsecsPerMsec

\* A live timer fires, unless it is deleted, the loop quits, or it was added
\* too late for a loop that went to sleep without a timeout: a stale
\* next_timer or any reordering of the list only delays it.
TimerFires ==
    \A t \in TimerBlocks :
        t \in Live ~> \/ pc = "callback" /\ p = t
                      \/ t \notin Live
                      \/ quit
                      \/ pc = "poll" /\ sleep = Forever /\ t \in late

\* A deleted timer is freed, unless the loop quits or sleeps without a
\* timeout, even when it lies behind timers that keep being rearmed.
DeletedTimerFreed ==
    \A t \in TimerBlocks :
        (t \in Allocated /\ ~cb[t])
            ~> \/ t \notin Allocated
               \/ quit
               \/ pc = "poll" /\ sleep = Forever

\* The list of timers is sound while callbacks add, delete and rearm around
\* the walk: sorted, without a timer that is on it twice or deleted, with its
\* cursors on it, and with a next_timer that never dangles or sends the loop
\* to sleep for ever while a timer lives.
TimersSound ==
    TypeOK /\ TimersOnOneList /\ LiveTimersSorted /\ NextTimerIsLive /\ WalkStaysOnTimers
           /\ NoSleepWithoutTimeout

\* Every live timer fires and every deleted one is freed.
TimersServed == TimerFires /\ DeletedTimerFreed
=============================================================================
