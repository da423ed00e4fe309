------------------------------ MODULE Superloop ------------------------------
(* A foreign loop that pumps common/mainloop.c: it watches the loop's epoll *)
(* descriptor, has a timer for the loop's next timeout and an idle callback *)
(* that runs one iteration.                                                 *)
(*                                                                          *)
(* What is asked of the loop from outside of its iterations, a timer or a   *)
(* deferred callback, does not move the foreign timer: it waits for the     *)
(* next iteration.  Clearing the superloop takes back the descriptor only:  *)
(* the timer and the idle callback, if they still run, call through NULL.   *)
EXTENDS Integers

CONSTANT MaxTime   \* bound on the clock

Never == MaxTime + 1

VARIABLES super_ops, \* is a superloop set?
          iow, timer, work, \* what is registered with it
          armed,     \* when its timer goes off
          enabled,   \* is work enabled?
          now,
          due,       \* the loop's next timer or subloop timeout
          deferred,  \* has the loop an enabled deferred callback?
          io,        \* is the epoll descriptor readable?
          quitting, \* ml->quit
          crashed,
          old,       \* is something of an earlier superloop still registered?
          outside    \* history: asked from outside since the last iteration

superVars == <<super_ops, iow, timer, work, armed, enabled, now, due, deferred, io, quitting, crashed, old, outside>>
registered == <<super_ops, iow, timer, work, old>>
inside == <<due, deferred, io, quitting>>

SuperInit == /\ super_ops = FALSE /\ iow = FALSE /\ timer = FALSE /\ work = FALSE /\ armed = Never
             /\ enabled = FALSE /\ now = 0 /\ due = Never /\ deferred = FALSE /\ io = FALSE
             /\ quitting = FALSE /\ crashed = FALSE /\ old = FALSE /\ outside = FALSE

Up == ~crashed

TimeoutOfTimers(d, list) == IF d < now THEN now ELSE d

(* Our deferred callbacks would starve the superloop: its timer, at 0, gives*)
(* it a round of its own.                                                   *)
Timeout(d, list) == IF list \/ d < now THEN now ELSE d

(* mrp_set_superloop; when something cannot be registered it is cleared, and*)
(* what could be is left.                                                   *)
SetSuperloop ==
    /\ Up /\ ~super_ops /\ outside' = FALSE
    /\ \/ /\ super_ops' = TRUE /\ iow' = TRUE /\ timer' = TRUE /\ work' = TRUE /\ enabled' = TRUE
          /\ armed' = Timeout(due, deferred) /\ old' = old
       \/ old' \in {old, TRUE} /\ UNCHANGED <<super_ops, iow, timer, work, enabled, armed>>
    /\ UNCHANGED <<now, inside, crashed>>

(* mrp_clear_superloop                                                      *)
ClearSuperloop == /\ Up /\ super_ops /\ super_ops' = FALSE /\ iow' = FALSE /\ timer' = FALSE /\ work' = FALSE
                  /\ enabled' = FALSE /\ armed' = Never /\ old' = (old \/ timer \/ work)
                  /\ UNCHANGED <<now, inside, crashed, outside>>

(* A timer or idle callback of an earlier superloop.                        *)
OldCb == /\ Up /\ old /\ crashed' = (~super_ops \/ ~work) /\ enabled' = (super_ops /\ work)
         /\ UNCHANGED <<registered, armed, now, inside, outside>>

(* super_io_cb                                                              *)
IoCb == /\ Up /\ iow /\ io /\ enabled' = TRUE
        /\ UNCHANGED <<registered, armed, now, inside, crashed, outside>>

(* super_timer_cb; the timer goes off once.                                 *)
TimerCb == /\ Up /\ timer /\ armed <= now /\ armed' = Never /\ enabled' = TRUE
           /\ UNCHANGED <<registered, now, inside, crashed, outside>>

(* super_work_cb: one iteration.  Its callbacks leave timers in the future, *)
(* deferred callbacks enabled again and events unread, or quit.             *)
WorkCb ==
    /\ Up /\ work /\ enabled /\ outside' = FALSE
    /\ deferred' \in BOOLEAN /\ io' \in (IF io THEN BOOLEAN ELSE {FALSE})
    /\ due' \in (now + 1 .. MaxTime) \cup {Never} /\ (due > now => due' <= due) /\ quitting' \in {quitting, TRUE}
    /\ IF quitting'
       THEN iow' = FALSE /\ timer' = FALSE /\ work' = FALSE /\ enabled' = FALSE /\ armed' = Never
       ELSE enabled' = FALSE /\ armed' = Timeout(due', deferred') /\ UNCHANGED <<iow, timer, work>>
    /\ UNCHANGED <<super_ops, now, crashed, old>>

(* Other callbacks of the superloop use this loop.                          *)
AddTimer(t) == Up /\ t > now /\ t < due /\ due' = t /\ outside' = TRUE
               /\ UNCHANGED <<registered, armed, enabled, now, deferred, io, quitting, crashed>>
EnableDeferred == Up /\ ~deferred /\ deferred' = TRUE /\ outside' = TRUE
                  /\ UNCHANGED <<registered, armed, enabled, now, due, io, quitting, crashed>>
QuitLoop == Up /\ ~quitting /\ quitting' = TRUE
        /\ UNCHANGED <<registered, armed, enabled, now, due, deferred, io, crashed, outside>>

(* External: time passes, a descriptor becomes ready.                       *)
Tick == Up /\ now < MaxTime /\ now' = now + 1
        /\ UNCHANGED <<registered, armed, enabled, inside, crashed, outside>>
BecomesReadable == Up /\ ~io /\ io' = TRUE
                   /\ UNCHANGED <<registered, armed, enabled, now, due, deferred, quitting, crashed, outside>>

SuperNext == \/ SetSuperloop \/ ClearSuperloop \/ OldCb \/ IoCb \/ TimerCb \/ WorkCb \/ EnableDeferred \/ QuitLoop
             \/ Tick \/ BecomesReadable \/ \E t \in 1 .. MaxTime : AddTimer(t)

SuperSpec == SuperInit /\ [][SuperNext]_superVars

------------------------------------------------------------------------------
(* While it is set, the superloop will run work, without more being asked   *)
(* of it, for anything the loop had to do when it last went through its own *)
(* timers and deferred callbacks, and for any event; and an iteration that  *)
(* quits leaves nothing registered (super_work_cb, super_io_cb,             *)
(* super_timer_cb).                                                         *)
SuperloopPumps ==
    /\ super_ops /\ work /\ ~outside =>
          enabled \/ (timer /\ armed <= due /\ (deferred => armed <= now))
    /\ super_ops /\ work /\ io => enabled \/ iow
    /\ ~work => ~enabled /\ ~timer /\ ~iow
    /\ super_ops => work \/ quitting
==============================================================================
