------------------------------ MODULE Deferred ------------------------------
(***************************************************************************)
(* Deferred callbacks of the Murphy main loop (src/common/mainloop.c).     *)
(*                                                                         *)
(* An active deferred callback is run once in every iteration.  Client     *)
(* code adds, deletes, enables and disables deferred callbacks at any time *)
(* it runs: before the loop is started, from a deferred callback in the    *)
(* middle of the walk over the active list, and from the timer and I/O     *)
(* callbacks that are dispatched after it.  Deleting and disabling only    *)
(* mark the object; dispatch_deferred relinks it when the walk reaches it  *)
(* and purge_deleted frees it at the end of the iteration.  Enabling       *)
(* relinks at once, also while the walk holds a cached pointer to it.      *)
(***************************************************************************)
EXTENDS MrpList

CONSTANT Deferreds      \* the mrp_deferred_t blocks malloc can hand out

\* The list heads embedded in mrp_mainloop_t that a deferred can be on.
Active   == "deferred"
Inactive == "inactive_deferred"
Deleted  == "deleted"
Heads    == {Active, Inactive, Deleted}

ASSUME DeferredsAssumption == Deferreds \cap Heads = {}

Hooks == Deferreds \union Heads

VARIABLES
    links,      \* prev/next pointers of every hook
    home,       \* history: head of the ring a hook was last linked to
    allocated,  \* allocated[d]: the block is in use
    cb,         \* cb[d]: the callback pointer is not NULL (not deleted)
    inactive,   \* inactive[d]: the inactive bit
    quit,       \* ml->quit
    blocks,     \* the next epoll_wait may sleep (poll timeout is not 0)
    late,       \* history: what prepare_subloops let clients add or enable
    pc,         \* where the thread of the loop is
    p, n        \* mrp_list_foreach cursors of dispatch_deferred

vars == <<links, home, allocated, cb, inactive, quit, blocks, late, pc, p, n>>

Phases == {"idle", "subloops", "poll", "check", "callback", "after", "others", "purge",
           "stopped", "destroy", "gone"}

Init ==
    /\ links = InitLinks(Hooks)
    /\ home = [h \in Hooks |-> h]
    /\ allocated = [d \in Deferreds |-> FALSE]
    /\ cb = [d \in Deferreds |-> FALSE]
    /\ inactive = [d \in Deferreds |-> FALSE]
    /\ quit = FALSE
    /\ blocks = FALSE
    /\ late = {}
    /\ pc = "idle"
    /\ p = Active
    /\ n = Active

-----------------------------------------------------------------------------
(***************************************************************************)
(* The client interface.  The loop is single threaded: client code runs    *)
(* outside the loop, in a deferred callback, in one of the other callbacks *)
(* of an iteration, and in the glue of a subloop that prepare_subloops     *)
(* asks to dispatch.  A client holds pointers to blocks that have *)
(* not been freed; a call on a marked block is still possible, since the   *)
(* code guards against it.                                                 *)
(***************************************************************************)
ClientRuns == pc \in {"idle", "subloops", "callback", "others"}

objvars  == <<links, home, allocated, cb, inactive>>
loopvars == <<quit, blocks, pc, p, n>>

\* Remember what is queued after Prepare has looked at the active list.
NoteLate(d) ==
    late' = IF pc = "subloops" THEN late \union {d} ELSE late

IsDeleted(d) == ~cb[d]

AddDeferred(d) ==
    /\ ClientRuns
    /\ ~allocated[d]
    /\ allocated' = [allocated EXCEPT ![d] = TRUE]
    /\ cb' = [cb EXCEPT ![d] = TRUE]
    /\ inactive' = [inactive EXCEPT ![d] = FALSE]
    /\ links' = ListAppend(ListInit(links, d), Active, d)
    /\ home' = [home EXCEPT ![d] = Active]
    /\ NoteLate(d)
    /\ UNCHANGED loopvars

DelDeferredUnlinksAtOnce(d) ==
    /\ ClientRuns
    /\ allocated[d]
    /\ cb' = [cb EXCEPT ![d] = FALSE]
    /\ links' = ListMove(links, Deleted, d)
    /\ home' = [home EXCEPT ![d] = Deleted]
    /\ UNCHANGED <<allocated, inactive, late, loopvars>>

DelDeferred(d) ==
    /\ ClientRuns
    /\ allocated[d]
    /\ cb' = [cb EXCEPT ![d] = FALSE]
    /\ UNCHANGED <<links, home, allocated, inactive, late, loopvars>>

DisableDeferred(d) ==
    /\ ClientRuns
    /\ allocated[d]
    /\ inactive' = [inactive EXCEPT ![d] = TRUE]
    /\ UNCHANGED <<links, home, allocated, cb, late, loopvars>>

EnableDeferredNoUnlink(d) ==
    /\ ClientRuns
    /\ allocated[d]
    /\ ~IsDeleted(d)
    /\ inactive' = [inactive EXCEPT ![d] = FALSE]
    /\ links' = ListAppend(links, Active, d)
    /\ home' = [home EXCEPT ![d] = Active]
    /\ NoteLate(d)
    /\ UNCHANGED <<allocated, cb, loopvars>>

EnableDeferredNoRelink(d) ==
    /\ ClientRuns
    /\ allocated[d]
    /\ ~IsDeleted(d)
    /\ inactive' = [inactive EXCEPT ![d] = FALSE]
    /\ NoteLate(d)
    /\ UNCHANGED <<links, home, allocated, cb, loopvars>>

EnableDeferred(d) ==
    /\ ClientRuns
    /\ allocated[d]
    /\ ~IsDeleted(d)
    /\ inactive' = [inactive EXCEPT ![d] = FALSE]
    /\ links' = ListMove(links, Active, d)
    /\ home' = [home EXCEPT ![d] = Active]
    /\ NoteLate(d)
    /\ UNCHANGED <<allocated, cb, loopvars>>

Quit ==
    /\ ClientRuns
    /\ quit' = TRUE
    /\ UNCHANGED <<objvars, blocks, late, pc, p, n>>

Client ==
    \/ \E d \in Deferreds : \/ AddDeferred(d)
                            \/ DelDeferred(d)
                            \/ DisableDeferred(d)
                            \/ EnableDeferred(d)
    \/ Quit

-----------------------------------------------------------------------------
(***************************************************************************)
(* One iteration: prepare, poll, dispatch, purge.                          *)
(***************************************************************************)
PrepareIgnoresDeferred ==
    /\ pc = "idle"
    /\ blocks' = TRUE
    /\ pc' = "subloops"
    /\ UNCHANGED <<objvars, quit, late, p, n>>

\* mrp_mainloop_prepare: a non-empty active list forces a zero timeout.
\* With an empty list the timeout is that of the next timer, if any.
Prepare ==
    /\ pc = "idle"
    /\ blocks' = ListEmpty(links, Active)
    /\ pc' = "subloops"
    /\ UNCHANGED <<objvars, quit, late, p, n>>

\* prepare_subloops has asked every subloop for its timeout, and let those
\* that were ready dispatch.  A subloop timeout can only shorten the sleep
\* and is not modelled.
SubloopsPrepared ==
    /\ pc = "subloops"
    /\ pc' = "poll"
    /\ UNCHANGED <<objvars, quit, blocks, late, p, n>>

\* mrp_mainloop_poll returns and dispatch_deferred starts its walk.
Poll ==
    /\ pc = "poll"
    /\ p' = links.next[Active]
    /\ n' = links.next[links.next[Active]]
    /\ blocks' = FALSE
    /\ late' = {}
    /\ pc' = "check"
    /\ UNCHANGED <<objvars, quit>>

EndWalk ==
    /\ pc = "check"
    /\ p = Active
    /\ pc' = IF quit THEN "purge" ELSE "others"
    /\ UNCHANGED <<objvars, quit, blocks, late, p, n>>

\* The walk is at an object: call it if it is neither deleted nor inactive.
Visit ==
    /\ pc = "check"
    /\ p # Active
    /\ pc' = IF cb[p] /\ ~inactive[p] THEN "callback" ELSE "after"
    /\ UNCHANGED <<objvars, quit, blocks, late, p, n>>

CallbackReturns ==
    /\ pc = "callback"
    /\ pc' = "after"
    /\ UNCHANGED <<objvars, quit, blocks, late, p, n>>

(***************************************************************************)
(* After the call: relink p if it was deleted (delete_deferred) or made    *)
(* inactive (disable_deferred), then leave the walk on quit or step to the *)
(* cached n, whose own next pointer is read only now.                      *)
(***************************************************************************)
RelinkToInactiveFirst(d) ==
    CASE inactive[d]                   -> Inactive
      [] IsDeleted(d) /\ ~inactive[d]  -> Deleted
      [] OTHER                         -> home[d]

RelinkTo(d) ==
    CASE IsDeleted(d)                  -> Deleted
      [] ~IsDeleted(d) /\ inactive[d]  -> Inactive
      [] OTHER                         -> home[d]

Advance ==
    /\ pc = "after"
    /\ home' = [home EXCEPT ![p] = RelinkTo(p)]
    /\ links' = IF IsDeleted(p) \/ inactive[p]
                  THEN ListMove(links, RelinkTo(p), p)
                  ELSE links
    /\ IF quit
         THEN pc' = "purge" /\ UNCHANGED <<p, n>>
         ELSE pc' = "check" /\ p' = n /\ n' = links'.next[n]
    /\ UNCHANGED <<allocated, cb, inactive, quit, blocks, late>>

\* The timers, I/O watches and subloops of the iteration are done.
OthersDone ==
    /\ pc = "others"
    /\ pc' = "purge"
    /\ UNCHANGED <<objvars, quit, blocks, late, p, n>>

\* Unlink and free the first object of the ring of head.
FreeFirst(head) ==
    LET d == links.next[head] IN
    /\ d # head
    /\ links' = ListDelete(links, d)
    /\ home' = [home EXCEPT ![d] = d]
    /\ allocated' = [allocated EXCEPT ![d] = FALSE]
    /\ UNCHANGED <<cb, inactive, late, loopvars>>

PurgeDeleted == pc = "purge" /\ FreeFirst(Deleted)

EndIteration ==
    /\ pc = "purge"
    /\ links.next[Deleted] = Deleted
    /\ pc' = IF quit THEN "stopped" ELSE "idle"
    /\ UNCHANGED <<objvars, quit, blocks, late, p, n>>

-----------------------------------------------------------------------------
(***************************************************************************)
(* mrp_mainloop_destroy: purge_deferred frees the active and the inactive  *)
(* list, purge_deleted what is left on the deleted list.                   *)
(***************************************************************************)
Destroy ==
    /\ pc \in {"idle", "stopped"}
    /\ pc' = "destroy"
    /\ UNCHANGED <<objvars, quit, blocks, late, p, n>>

DestroyStep ==
    /\ pc = "destroy"
    /\ \/ FreeFirst(Active)
       \/ /\ links.next[Active] = Active
          /\ FreeFirst(Inactive)
       \/ /\ links.next[Active] = Active
          /\ links.next[Inactive] = Inactive
          /\ FreeFirst(Deleted)

DestroyDone ==
    /\ pc = "destroy"
    /\ \A head \in Heads : links.next[head] = head
    /\ pc' = "gone"
    /\ UNCHANGED <<objvars, quit, blocks, late, p, n>>

Loop ==
    \/ Prepare \/ SubloopsPrepared \/ Poll \/ EndWalk \/ Visit \/ CallbackReturns \/ Advance
    \/ OthersDone \/ PurgeDeleted \/ EndIteration

Next == Client \/ Loop \/ Destroy \/ DestroyStep \/ DestroyDone

Spec == Init /\ [][Next]_vars

(***************************************************************************)
(* The loop thread keeps running and every callback returns.  Whether an   *)
(* epoll_wait that may sleep ever returns is up to the environment (a      *)
(* timer, a signal, I/O) and not assumed.                                  *)
(***************************************************************************)
Asleep == pc = "poll" /\ blocks

Fairness == WF_vars(~Asleep /\ Loop)

FairSpec == Spec /\ Fairness
-----------------------------------------------------------------------------
(***************************************************************************)
(* Properties.                                                             *)
(***************************************************************************)

\* Every variable stays in its range, and the cursors are hooks of this loop.
TypeOK ==
    /\ links \in LinkMaps(Hooks)
    /\ home \in [Hooks -> Hooks]
    /\ allocated \in [Deferreds -> BOOLEAN]
    /\ cb \in [Deferreds -> BOOLEAN]
    /\ inactive \in [Deferreds -> BOOLEAN]
    /\ quit \in BOOLEAN
    /\ blocks \in BOOLEAN
    /\ late \subseteq Deferreds
    /\ pc \in Phases
    /\ p \in Hooks
    /\ n \in Hooks

Enabled(d) == allocated[d] /\ cb[d] /\ ~inactive[d]

\* However the calls interleave with the walk, the rings are never torn and
\* no block that has been freed is still linked to anything: relinking in
\* mrp_enable_deferred and in dispatch_deferred never mixes two lists.
RingsIntact ==
    /\ WellLinked(links, Hooks)
    /\ SameRing(links, Hooks, home)
    /\ \A d \in Deferreds : ~allocated[d] <=> home[d] \notin Heads

\* An enabled deferred callback is on the active list, whatever sequence of
\* enabling, disabling and half-done relinking came before: no wakeup by
\* mrp_enable_deferred is ever lost.
EnabledIsQueued ==
    \A d \in Deferreds : Enabled(d) => home[d] = Active

\* The cursors p and the cached n of dispatch_deferred stay on the active
\* list while callbacks delete, disable and enable the very objects they
\* point to, so that the walk ends at its own head and never touches a
\* freed block.
WalkStaysOnList ==
    /\ pc \in {"check", "callback", "after"} => home[p] = Active
    /\ pc \in {"check", "callback", "after"} => home[n] = Active
    /\ pc \in {"callback", "after"} => p \in Deferreds /\ p # n

\* mrp_mainloop_prepare never lets epoll_wait sleep while a deferred
\* callback is enabled, but for those that a subloop it has let dispatch
\* added or enabled after the list was looked at: these it does miss.
NeverSleepsOnWork ==
    Asleep => \A d \in Deferreds : Enabled(d) => d \in late

\* mrp_mainloop_destroy leaves no block behind, on whichever list or in
\* whichever half-deleted state it was.
DestroyFreesAll ==
    pc = "gone" => \A d \in Deferreds : ~allocated[d]

\* A callback that keeps enabling deferreds (itself, or others in turn) from
\* inside the walk can keep dispatch_deferred from ever reaching its head.
EnableCall == \E d \in Deferreds : EnableDeferred(d)

\* Unless mrp_enable_deferred is called again and again, an enabled deferred
\* callback is eventually run, or deleted or disabled by a client, or the
\* loop quits, or it was enabled too late for a loop that went to sleep: no
\* other sequence of relinking under the walk starves it.
EnabledRuns ==
    <>[][~EnableCall]_vars =>
        \A d \in Deferreds :
            Enabled(d) ~> \/ pc = "callback" /\ p = d
                          \/ ~Enabled(d)
                          \/ Asleep /\ d \in late
                          \/ quit
                          \/ pc = "destroy"

\* A deferred callback deleted while it is on the active list is freed, by
\* the walk and the purge that follows it, unless mrp_enable_deferred is
\* called again and again.
DeletedActiveFreed ==
    <>[][~EnableCall]_vars =>
        \A d \in Deferreds :
            (allocated[d] /\ ~cb[d] /\ home[d] = Active)
                ~> \/ ~allocated[d]
                   \/ Asleep /\ d \in late
                   \/ quit
                   \/ pc = "destroy"

\* The lists are sound: each block is what it should be, on the list its
\* flags and its history put it on, in a ring that is whole, and none is left
\* once the loop is destroyed.
ListsSound == TypeOK /\ RingsIntact /\ DestroyFreesAll

\* Whoever is enabled runs and whoever is deleted while active is freed.
ServedOrFreed == EnabledRuns /\ DeletedActiveFreed
=============================================================================
