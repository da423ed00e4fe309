------------------------------ MODULE IoWatch ------------------------------
(***************************************************************************)
(* I/O watches of the Murphy main loop (src/common/mainloop.c).            *)
(*                                                                         *)
(* Watches of the same file descriptor share one epoll registration.  The  *)
(* first of them is the master, a member of ml->iowatches and the pointer  *)
(* epoll hands back; the others are its slaves, in a ring of their own.    *)
(* Deleting a watch only marks it: it is unlinked when the dispatching     *)
(* loop comes across it, and then epoll is told.                           *)
(*                                                                         *)
(* The kernel is modelled by what its interface says: a registration       *)
(* belongs to a file descriptor number and goes away when that is closed,  *)
(* and the number may be given to another file.  Clients delete the        *)
(* watches of a descriptor before they close it, as the transports do.     *)
(***************************************************************************)
EXTENDS Integers, Sequences, SequencesExt, FiniteSets

CONSTANTS
    WatchBlocks,    \* the mrp_io_watch_t blocks malloc can hand out
    Fds,            \* file descriptor numbers
    Interests,      \* the sets of events clients ask for
    FdReuse,        \* whether a closed descriptor number is opened again
    MaxDrift,       \* bound: how far niowatch may fall below zero
    NULL

InOut == {"in", "out"}          \* MRP_IO_EVENT_INOUT
Hup   == "hup"                  \* EPOLLRDHUP
AllEvents == InOut \union {Hup}

ASSUME IoWatchAssumption ==
    /\ Interests \subseteq (SUBSET AllEvents) \ {{}}
    /\ FdReuse \in BOOLEAN
    /\ MaxDrift \in Nat
    /\ NULL \notin WatchBlocks \union Fds
    /\ IsFiniteSet(Fds)

VARIABLES
    fresh,      \* the descriptors never opened so far
    open,       \* the open descriptors
    reg,        \* reg[f]: the epoll registration of f
    hup,        \* history: open descriptors unregistered on EPOLLRDHUP
    fd, want, cb,   \* of each watch; cb[w]: the pointer is not NULL
    allocated,
    iowatches,  \* ml->iowatches, first to last
    slaves,     \* slaves[w]: w->slave of a master, first to last
    deleted,    \* the members of ml->deleted
    niowatch, nevent,
    events,     \* what is left of ml->events, the current one first
    evs,        \* the events dispatch_slaves has not masked yet
    s, n,       \* its cursors; NULL stands for the head of the ring
    quit, pc

kernvars  == <<fresh, open, hup>>
watchvars == <<fd, want, cb, allocated>>
linkvars  == <<reg, fd, want, iowatches, slaves, deleted, niowatch>>
walkvars  == <<evs, s, n>>
vars == <<kernvars, linkvars, cb, allocated, nevent, events, walkvars, quit, pc>>

Without(q, w) ==
    IF w \in ToSet(q) THEN RemoveAt(q, CHOOSE i \in DOMAIN q : q[i] = w) ELSE q

NoReg    == [ptr |-> NULL, events |-> {}]
Reg(w, e) == [ptr |-> w, events |-> e]

IsMaster(w) == w \in ToSet(iowatches)
MasterOf(w) == CHOOSE m \in ToSet(iowatches) : w \in ToSet(slaves[m])
Linked      == ToSet(iowatches)
                 \union UNION {ToSet(slaves[m]) : m \in ToSet(iowatches)}

Wanted(W) == UNION {want[w] : w \in W}

\* EPOLL_CTL_MOD fails, with no effect, on a descriptor that is not there.
Modify(r, f, new) == IF r[f] = NoReg THEN r ELSE [r EXCEPT ![f] = new]

Unregister(r, f) == [r EXCEPT ![f] = NoReg]

-----------------------------------------------------------------------------
Init ==
    /\ fresh = Fds
    /\ open = {}
    /\ hup = {}
    /\ reg = [f \in Fds |-> NoReg]
    /\ fd = [w \in WatchBlocks |-> NULL]
    /\ want = [w \in WatchBlocks |-> {}]
    /\ cb = [w \in WatchBlocks |-> FALSE]
    /\ allocated = {}
    /\ iowatches = <<>>
    /\ slaves = [w \in WatchBlocks |-> <<>>]
    /\ deleted = {}
    /\ niowatch = 1             \* the watch of the signal descriptor
    /\ nevent = 0
    /\ events = <<>>
    /\ evs = {}
    /\ s = NULL
    /\ n = NULL
    /\ quit = FALSE
    /\ pc = "idle"

(***************************************************************************)
(* delete_io_watch(w), in the three situations it distinguishes; r is the  *)
(* state of epoll when it is called.                                       *)
(***************************************************************************)
DeleteAlone(w, r) ==
    /\ IsMaster(w)
    /\ slaves[w] = <<>>
    /\ iowatches' = Without(iowatches, w)
    /\ reg' = Unregister(r, fd[w])
    /\ UNCHANGED <<want, slaves, deleted>>

DeletePromoteKeepsRing(w, r) ==  \* mutant: leaves the ring to the old master
    /\ IsMaster(w)
    /\ slaves[w] # <<>>
    /\ LET m == Head(slaves[w])
       IN  /\ iowatches' = Append(Without(iowatches, w), m)
           /\ slaves' = [slaves EXCEPT ![m] = Tail(slaves[w])]
           /\ reg' = Modify(r, fd[w], Reg(m, Wanted(ToSet(slaves[w]))))
    /\ deleted' = deleted \union {w}
    /\ UNCHANGED want

DeletePromoteOldEvents(w, r) ==  \* mutant: registers what the old master wanted
    /\ IsMaster(w)
    /\ slaves[w] # <<>>
    /\ LET m == Head(slaves[w])
       IN  /\ iowatches' = Append(Without(iowatches, w), m)
           /\ slaves' = [slaves EXCEPT ![w] = <<>>, ![m] = Tail(slaves[w])]
           /\ reg' = Modify(r, fd[w], Reg(m, want[w]))
    /\ deleted' = deleted \union {w}
    /\ UNCHANGED want

\* The first slave becomes the master of the others.
DeletePromote(w, r) ==
    /\ IsMaster(w)
    /\ slaves[w] # <<>>
    /\ LET m == Head(slaves[w])
       IN  /\ iowatches' = Append(Without(iowatches, w), m)
           /\ slaves' = [slaves EXCEPT ![w] = <<>>, ![m] = Tail(slaves[w])]
           /\ reg' = Modify(r, fd[w], Reg(m, Wanted(ToSet(slaves[w]))))
    /\ deleted' = deleted \union {w}
    /\ UNCHANGED want

DeleteSlave(w, r) ==
    /\ ~IsMaster(w)
    /\ LET m == MasterOf(w)
       IN  /\ slaves' = [slaves EXCEPT ![m] = Without(@, w)]
           /\ reg' = Modify(r, fd[w],
                Reg(m, Wanted(({m} \union ToSet(slaves[m])) \ {w})))
    /\ want' = [want EXCEPT ![w] = {}]
    /\ deleted' = deleted \union {w}
    /\ UNCHANGED iowatches

DeleteIoWatch(w, r) ==
    /\ DeleteAlone(w, r) \/ DeletePromote(w, r) \/ DeleteSlave(w, r)
    /\ fd' = [fd EXCEPT ![w] = NULL]
    /\ niowatch' = niowatch - 1

-----------------------------------------------------------------------------
\* Between iterations, in deferred and timer callbacks, and in the callbacks
\* of a master and of a slave.
ClientRuns == pc \in {"idle", "polled", "mastercb", "slavecb"}

Open(f) ==
    /\ ClientRuns
    /\ f \notin open
    /\ f \in fresh \/ FdReuse
    /\ fresh' = fresh \ {f}
    /\ open' = open \union {f}
    /\ UNCHANGED <<hup, linkvars, cb, allocated, nevent, events, walkvars,
                   quit, pc>>

Close(f) ==
    /\ ClientRuns
    /\ f \in open
    /\ \A w \in allocated : fd[w] = f => ~cb[w]
    /\ open' = open \ {f}
    /\ hup' = hup \ {f}
    /\ reg' = Unregister(reg, f)
    /\ UNCHANGED <<fresh, fd, want, iowatches, slaves, deleted, niowatch, cb,
                   allocated, nevent, events, walkvars, quit, pc>>

NewWatch(w, f, e) ==
    /\ ClientRuns
    /\ w \notin allocated
    /\ f \in open
    /\ allocated' = allocated \union {w}
    /\ fd' = [fd EXCEPT ![w] = f]
    /\ want' = [want EXCEPT ![w] = e]
    /\ cb' = [cb EXCEPT ![w] = TRUE]
    /\ UNCHANGED <<kernvars, deleted, nevent, events, walkvars, quit, pc>>

\* mrp_add_io_watch when EPOLL_CTL_ADD succeeds.
AddMaster(w, f, e) ==
    /\ NewWatch(w, f, e)
    /\ reg[f] = NoReg
    /\ reg' = [reg EXCEPT ![f] = Reg(w, e)]
    /\ iowatches' = Append(iowatches, w)
    /\ niowatch' = niowatch + 1
    /\ UNCHANGED slaves

\* mrp_add_io_watch on EEXIST: add_slave_io_watch attaches the watch to the
\* first master of the list with the same descriptor number.
AddSlave(w, f, e) ==
    /\ NewWatch(w, f, e)
    /\ reg[f] # NoReg
    /\ niowatch > -MaxDrift
    /\ \E i \in DOMAIN iowatches :
          LET m == iowatches[i]
          IN  /\ fd[m] = f
              /\ \A j \in 1 .. i - 1 : fd[iowatches[j]] # f
              /\ reg' = [reg EXCEPT ![f] =
                           Reg(m, Wanted({m} \union ToSet(slaves[m])) \union e)]
              /\ slaves' = [slaves EXCEPT ![m] = Append(@, w)]
    /\ UNCHANGED <<iowatches, niowatch>>

DelIoWatch(w) ==
    /\ ClientRuns
    /\ w \in allocated
    /\ cb[w]
    /\ cb' = [cb EXCEPT ![w] = FALSE]
    /\ UNCHANGED <<kernvars, linkvars, allocated, nevent, events, walkvars,
                   quit, pc>>

Quit ==
    /\ ClientRuns
    /\ quit' = TRUE
    /\ UNCHANGED <<kernvars, linkvars, cb, allocated, nevent, events, walkvars,
                   pc>>

Client ==
    \/ \E f \in Fds : Open(f) \/ Close(f)
    \/ \E w \in WatchBlocks, f \in Fds, e \in Interests :
          AddMaster(w, f, e) \/ AddSlave(w, f, e)
    \/ \E w \in WatchBlocks : DelIoWatch(w)
    \/ Quit

-----------------------------------------------------------------------------
Larger(a, b) == IF a < b THEN b ELSE a

Event(f, e) == [w |-> reg[f].ptr, events |-> e]

\* mrp_mainloop_prepare makes room for niowatch events, and epoll_wait
\* returns some of those that are registered, in any order.
Poll ==
    /\ pc = "idle"
    /\ nevent' = Larger(nevent, niowatch)
    /\ \E k \in 0 .. Cardinality(Fds) : \E fs \in [1 .. k -> Fds] :
          \E es \in [1 .. k -> (SUBSET AllEvents) \ {{}}] :
             /\ k <= nevent'
             /\ \A i, j \in 1 .. k : fs[i] = fs[j] => i = j
             /\ \A i \in 1 .. k : es[i] \subseteq reg[fs[i]].events
             /\ events' = [i \in 1 .. k |-> Event(fs[i], es[i])]
    /\ pc' = "polled"
    /\ UNCHANGED <<kernvars, linkvars, cb, allocated, walkvars, quit>>

\* dispatch_deferred and dispatch_timers are done.
StartDispatch ==
    /\ pc = "polled"
    /\ IF quit \/ events = <<>>
         THEN events' = <<>> /\ pc' = "purge"
         ELSE UNCHANGED events /\ pc' = "event"
    /\ UNCHANGED <<kernvars, linkvars, cb, allocated, nevent, walkvars, quit>>

Current == events[1].w

NextSlave(q, x) ==
    LET i == CHOOSE i \in DOMAIN q : q[i] = x
    IN  IF x = NULL \/ i = Len(q) THEN NULL ELSE q[i + 1]

First(q) == IF q = <<>> THEN NULL ELSE q[1]

\* The events left for the slaves once a watch has taken its own.
Mask(e, w) == e \ (InOut \cap want[w])

StartSlaves ==
    /\ evs' = Mask(events[1].events, Current)
    /\ s' = First(slaves[Current])
    /\ n' = NextSlave(slaves[Current], s')
    /\ pc' = "slaves"

CallMaster ==
    /\ pc = "event"
    /\ IF cb[Current] THEN pc' = "mastercb" /\ UNCHANGED walkvars
                      ELSE StartSlaves
    /\ UNCHANGED <<kernvars, linkvars, cb, allocated, nevent, events, quit>>

MasterReturns ==
    /\ pc = "mastercb"
    /\ StartSlaves
    /\ UNCHANGED <<kernvars, linkvars, cb, allocated, nevent, events, quit>>

CallSlave ==
    /\ pc = "slaves"
    /\ s # NULL
    /\ evs # {}
    /\ cb[s]
    /\ pc' = "slavecb"
    /\ UNCHANGED <<kernvars, linkvars, cb, allocated, nevent, events, walkvars,
                   quit>>

\* The rest of the loop body of dispatch_slaves, after the callback of s or
\* without one.
NextSlaveStep ==
    /\ \/ pc = "slavecb"
       \/ pc = "slaves" /\ s # NULL /\ evs # {} /\ ~cb[s]
    /\ evs' = Mask(evs, s)
    /\ IF cb[s] THEN UNCHANGED linkvars ELSE DeleteIoWatch(s, reg)
    /\ s' = n
    /\ n' = NextSlave(slaves'[Current], n)
    /\ pc' = "slaves"
    /\ UNCHANGED <<kernvars, cb, allocated, nevent, events, quit>>

SlavesDone ==
    /\ pc = "slaves"
    /\ s = NULL \/ evs = {}
    /\ pc' = "endevent"
    /\ UNCHANGED <<kernvars, linkvars, cb, allocated, nevent, events, walkvars,
                   quit>>

\* The end of the loop body of dispatch_poll_events.  A watch whose
\* descriptor is closed has lost its registration, whatever hup says.
EndEvent ==
    /\ pc = "endevent"
    /\ LET w == Current
           h == Hup \in events[1].events
           r == IF h THEN Unregister(reg, fd[w]) ELSE reg
       IN  /\ hup' = IF h /\ reg[fd[w]] # NoReg /\ reg[fd[w]].ptr = w
                       THEN hup \union {fd[w]} ELSE hup
           /\ IF cb[w]
                THEN reg' = r /\ UNCHANGED <<fd, want, iowatches, slaves,
                                             deleted, niowatch>>
                ELSE DeleteIoWatch(w, r)
    /\ events' = IF quit THEN <<>> ELSE Tail(events)
    /\ pc' = IF events' = <<>> THEN "purge" ELSE "event"
    /\ UNCHANGED <<fresh, open, cb, allocated, nevent, walkvars, quit>>

\* free_io_watch: the descriptor of a deleted watch is -1 by now.
Free(W) ==
    /\ allocated' = allocated \ W
    /\ fd' = [w \in WatchBlocks |-> IF w \in W THEN NULL ELSE fd[w]]
    /\ want' = [w \in WatchBlocks |-> IF w \in W THEN {} ELSE want[w]]
    /\ cb' = [w \in WatchBlocks |-> w \notin W /\ cb[w]]

PurgeDeleted ==
    /\ pc = "purge"
    /\ Free(deleted)
    /\ deleted' = {}
    /\ pc' = IF quit THEN "stopped" ELSE "idle"
    /\ UNCHANGED <<kernvars, reg, iowatches, slaves, niowatch, nevent, events,
                   walkvars, quit>>

\* mrp_mainloop_destroy: purge_io_watches and purge_deleted; the epoll
\* descriptor is never polled again.
Destroy ==
    /\ pc \in {"idle", "stopped"}
    /\ Free(Linked \union deleted)
    /\ iowatches' = <<>>
    /\ slaves' = [w \in WatchBlocks |-> <<>>]
    /\ deleted' = {}
    /\ reg' = [f \in Fds |-> NoReg]
    /\ pc' = "gone"
    /\ UNCHANGED <<kernvars, niowatch, nevent, events, walkvars, quit>>

Dispatch ==
    \/ StartDispatch \/ CallMaster \/ MasterReturns \/ CallSlave
    \/ NextSlaveStep \/ SlavesDone \/ EndEvent \/ PurgeDeleted

Next == Client \/ Poll \/ Dispatch \/ Destroy

Spec == Init /\ [][Next]_vars

(***************************************************************************)
(* The loop keeps running, callbacks return, and every event a descriptor  *)
(* is registered for occurs again and again.  epoll_wait rotates its list  *)
(* of ready descriptors, so none of them is left out for ever.             *)
(***************************************************************************)
Reports(f, e) ==
    \E i \in DOMAIN events' : events'[i].w = reg[f].ptr /\ e \in events'[i].events

Fairness ==
    /\ WF_vars(Poll)
    /\ WF_vars(Dispatch)
    /\ \A f \in Fds, e \in InOut : SF_vars(Poll /\ Reports(f, e))

FairSpec == Spec /\ Fairness

-----------------------------------------------------------------------------
(***************************************************************************)
(* Properties.                                                             *)
(***************************************************************************)

\* Type correctness of the watches and of what epoll knows (mrp_io_watch_s).
TypeOK ==
    /\ fresh \subseteq Fds
    /\ open \subseteq Fds \ fresh
    /\ hup \subseteq open
    /\ reg \in [Fds -> [ptr : WatchBlocks \union {NULL},
                        events : SUBSET AllEvents]]
    /\ fd \in [WatchBlocks -> Fds \union {NULL}]
    /\ want \in [WatchBlocks -> Interests \union {{}}]
    /\ cb \in [WatchBlocks -> BOOLEAN]
    /\ allocated \subseteq WatchBlocks
    /\ iowatches \in Seq(WatchBlocks)
    /\ slaves \in [WatchBlocks -> Seq(WatchBlocks)]
    /\ deleted \subseteq WatchBlocks
    /\ niowatch \in Int
    /\ nevent \in Nat
    /\ events \in Seq([w : WatchBlocks, events : SUBSET AllEvents])
    /\ evs \subseteq AllEvents
    /\ s \in WatchBlocks \union {NULL}
    /\ n \in WatchBlocks \union {NULL}
    /\ quit \in BOOLEAN
    /\ pc \in {"idle", "polled", "event", "mastercb", "slaves", "slavecb",
               "endevent", "purge", "stopped", "gone"}

\* A watch has one place: among the masters, in the ring of one master with
\* the same descriptor number, or among the deleted ones, whatever promotions
\* and deletions happen in the middle of dispatch_slaves.
EachWatchOnce ==
    /\ IsInjective(iowatches)
    /\ \A w \in WatchBlocks :
          /\ IsInjective(slaves[w])
          /\ slaves[w] # <<>> => IsMaster(w)
          /\ \A u \in ToSet(slaves[w]) :
                /\ fd[u] = fd[w]
                /\ ~IsMaster(u) /\ u \notin deleted
                /\ \A v \in WatchBlocks : u \in ToSet(slaves[v]) => v = w
    /\ Linked \union deleted \subseteq allocated
    /\ ToSet(iowatches) \cap deleted = {}

\* epoll never hands back a watch that was unlinked or freed: the pointer of
\* a registration is a master of that very descriptor number, and so is, as
\* long as it waits to be dispatched, the pointer of every event returned.
NoDanglingPointer ==
    /\ \A f \in Fds : reg[f] # NoReg => /\ IsMaster(reg[f].ptr)
                                        /\ fd[reg[f].ptr] = f
    /\ \A i \in DOMAIN events : IsMaster(events[i].w)

\* The cursors of dispatch_slaves stay in the ring they walk.
WalkStaysInRing ==
    /\ pc \in {"slaves", "slavecb"} =>
          {s, n} \subseteq ToSet(slaves[Current]) \union {NULL}
    /\ pc = "slavecb" => s # NULL /\ s # n

\* epoll knows of every live watch: its descriptor is registered for the
\* events it wants, in the name of the master whose dispatch reaches it.
LiveWatchIsRegistered ==
    \A w \in allocated :
        cb[w] /\ fd[w] \notin hup =>
            LET r == reg[fd[w]]
            IN  /\ r.ptr # NULL
                /\ w = r.ptr \/ w \in ToSet(slaves[r.ptr])
                /\ want[w] \subseteq r.events

\* A deleted object is on its list or on the list of deleted ones, until it
\* is freed: the comment on deleted_t says that all entries are freed.
NothingIsLost ==
    allocated \subseteq Linked \union deleted

\* The loop no longer has anything to do for w.
Excused(w) ==
    \/ quit
    \/ pc \in {"stopped", "gone"}
    \/ fd[w] \notin open \ hup

\* A deleted master is unlinked as long as its descriptor stays open: the
\* next event of the descriptor does it.
DeletedMasterUnlinked ==
    \A w \in WatchBlocks :
        IsMaster(w) /\ ~cb[w] ~> ~IsMaster(w) \/ Excused(w)

\* A live watch that shares no event with another watch of its descriptor is
\* called with an event it wants, whether it is a master, a slave or a slave
\* that was promoted.
Alone(w) ==
    /\ w \in Linked
    /\ cb[w]
    /\ want[w] \cap InOut # {}
    /\ \A u \in Linked \ {w} : fd[u] = fd[w] => want[u] \cap want[w] = {}

\* Such a watch is called, or stops being such.
WatchIsCalled ==
    \A w \in WatchBlocks :
        Alone(w) ~> \/ /\ pc = "mastercb" /\ Current = w
                       /\ events[1].events \cap want[w] \cap InOut # {}
                    \/ /\ pc = "slavecb" /\ s = w
                       /\ evs \cap want[w] \cap InOut # {}
                    \/ ~Alone(w)
                    \/ Excused(w)

\* Masters, slaves and deleted watches are sound while callbacks add and
\* delete around the events and the ring being dispatched: none is on two
\* lists, the cursors stay in the ring, neither epoll nor an event that was
\* delivered points at one that is not a master, and what a live one waits for
\* is registered.
WatchesSound == TypeOK /\ EachWatchOnce /\ NoDanglingPointer /\ WalkStaysInRing /\ LiveWatchIsRegistered

\* A watch that shares no event is called and a deleted master is unlinked.
WatchesServed == WatchIsCalled /\ DeletedMasterUnlinked
=============================================================================
