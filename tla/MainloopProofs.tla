--------------------------- MODULE MainloopProofs ----------------------------
(* Proofs about the main loop: its I/O watches, the subloops it pumps, the   *)
(* superloop that pumps it, and the handlers of signals.                     *)
EXTENDS IoWatch, Subloops, Superloop, SigHandlers, ListFacts, SequenceTheorems, FiniteSetTheorems, TLAPS

------------------------------------------------------------------------------
(* I/O watches, for any watches and descriptors: masters, slaves, deleted   *)
(* watches and what epoll has registered agree, whatever callbacks add and  *)
(* delete while events and rings are dispatched.                            *)
(*                                                                          *)
(* The inductive invariant adds that live watches are linked and have an    *)
(* open descriptor, that events which wait name different masters, that the *)
(* cursors of dispatch_slaves differ, and that an open descriptor has one   *)
(* ring, the one epoll has the master of.  The last holds only as long as   *)
(* no descriptor number is given to another file.                           *)

(* Linked watches have a descriptor that was opened, live ones are linked   *)
(* and have an open one.                                                    *)
Places ==
    /\ \A w \in Linked : fd[w] \in Fds \ fresh
    /\ \A w \in allocated : cb[w] => w \in Linked /\ fd[w] \in open

(* What epoll has registered is an open descriptor, in a master's name.     *)
Kernel ==
    \A f \in Fds : reg[f] # NoReg =>
        f \in open /\ IsMaster(reg[f].ptr) /\ fd[reg[f].ptr] = f

(* Events that wait name different masters, and wait while they are         *)
(* dispatched only.                                                         *)
Waiting ==
    /\ \A i \in DOMAIN events : IsMaster(events[i].w)
    /\ \A i, j \in DOMAIN events : events[i].w = events[j].w => i = j
    /\ pc \in {"idle", "purge", "stopped", "gone"} => events = <<>>
    /\ pc \in {"event", "mastercb", "slaves", "slavecb", "endevent"} => events # <<>>

(* The next slave is not the current one.                                   *)
SlaveCursors ==
    /\ pc \in {"slaves", "slavecb"} =>
          /\ {s, n} \subseteq ToSet(slaves[Current]) \union {NULL}
          /\ s # NULL => s # n
    /\ pc = "slavecb" => s # NULL

(* A descriptor that is open and was not hung up has one master, the one    *)
(* epoll has, and is registered for what its watches want.                  *)
Registered ==
    \A w \in Linked : fd[w] \in open \ hup =>
        LET r == reg[fd[w]] IN
        /\ r # NoReg
        /\ w = r.ptr \/ w \in ToSet(slaves[r.ptr])
        /\ want[w] \subseteq r.events

Sound == TypeOK /\ EachWatchOnce /\ Places /\ Kernel /\ Waiting /\ SlaveCursors

WatchInv == Sound /\ (~FdReuse => Registered)

-----------------------------------------------------------------------------
(* Lists of watches.                                                        *)

\* A list without one of its watches.
LEMMA WithoutFacts ==
    ASSUME NEW q \in Seq(WatchBlocks), IsInjective(q), NEW w \in ToSet(q)
    PROVE  /\ Without(q, w) \in Seq(WatchBlocks)
           /\ ToSet(Without(q, w)) = ToSet(q) \ {w}
           /\ IsInjective(Without(q, w))
<1> DEFINE p == CHOOSE i \in DOMAIN q : q[i] = w
<1>1. p \in DOMAIN q /\ q[p] = w
  BY DEF ToSet
<1>2. p \in 1 .. Len(q)
  BY <1>1, LenProperties
<1>3. Without(q, w) = RemoveAt(q, p)
  BY DEF Without
<1> HIDE DEF p
<1> QED  BY <1>1, <1>2, <1>3, RemoveAtFacts

\* The cursor after x is another watch of the list, or its head.
LEMMA NextSlaveFacts ==
    ASSUME NEW q \in Seq(WatchBlocks), IsInjective(q), NULL \notin WatchBlocks
    PROVE  /\ First(q) \in ToSet(q) \union {NULL}
           /\ \A x \in ToSet(q) \union {NULL} :
                 /\ NextSlave(q, x) \in ToSet(q) \union {NULL}
                 /\ x # NULL => NextSlave(q, x) # x
<1>1. Len(q) \in Nat /\ DOMAIN q = 1 .. Len(q) /\ \A i \in 1 .. Len(q) : q[i] \in WatchBlocks
  BY LenProperties, ElementOfSeq
<1>2. First(q) \in ToSet(q) \union {NULL}
  <2>1. q # <<>> => 1 \in DOMAIN q
    BY <1>1, EmptySeq
  <2> QED  BY <2>1 DEF First, ToSet
<1>3. ASSUME NEW x \in ToSet(q) \union {NULL}
      PROVE  /\ NextSlave(q, x) \in ToSet(q) \union {NULL}
             /\ x # NULL => NextSlave(q, x) # x
  <2>1. CASE x = NULL
    BY <2>1 DEF NextSlave
  <2>2. CASE x # NULL
    <3>1. PICK i \in 1 .. Len(q) : q[i] = x /\ NextSlave(q, x) = IF i = Len(q) THEN NULL ELSE q[i + 1]
      <4> DEFINE i == CHOOSE i \in DOMAIN q : q[i] = x
      <4>1. i \in 1 .. Len(q) /\ q[i] = x
        BY <1>1, <1>3, <2>2 DEF ToSet
      <4>2. NextSlave(q, x) = IF i = Len(q) THEN NULL ELSE q[i + 1]
        BY <2>2 DEF NextSlave
      <4> HIDE DEF i
      <4> QED  BY <4>1, <4>2
    <3>2. i # Len(q) => i + 1 \in DOMAIN q
      <4>1. \A l \in Nat : \A k \in 1 .. l : k # l => k + 1 \in 1 .. l
        OBVIOUS
      <4>2. Len(q) \in Nat /\ DOMAIN q = 1 .. Len(q)
        BY <1>1
      <4> QED  BY <4>1, <4>2
    <3>3. i # Len(q) => q[i + 1] # x
      <4>1. i \in DOMAIN q /\ i + 1 # i
        <5>1. i \in DOMAIN q
          BY <1>1
        <5>2. i \in Int
          OBVIOUS
        <5>3. \A k \in Int : k + 1 # k
          OBVIOUS
        <5> QED  BY <5>1, <5>2, <5>3
      <4>2. ASSUME i # Len(q), q[i + 1] = q[i]  PROVE FALSE
        BY <3>2, <4>1, <4>2 DEF IsInjective
      <4> QED  BY <3>1, <4>2
    <3> QED  BY <2>2, <3>1, <3>2, <3>3 DEF ToSet
  <2> QED  BY <2>1, <2>2
<1> QED  BY <1>2, <1>3

\* The empty list.
LEMMA EmptyFacts ==
    /\ ToSet(<<>>) = {} /\ IsInjective(<<>>)
    /\ \A q : ToSet(q) # {} => q # <<>>
BY DEF ToSet, IsInjective

\* A list that holds a watch, and a list that holds none.
LEMMA MemberFacts ==
    ASSUME NEW q \in Seq(WatchBlocks)
    PROVE  /\ ToSet(q) \subseteq WatchBlocks
           /\ q # <<>> => ToSet(q) # {}
<1>1. Len(q) \in Nat /\ DOMAIN q = 1 .. Len(q) /\ \A i \in 1 .. Len(q) : q[i] \in WatchBlocks
  BY LenProperties, ElementOfSeq
<1>2. q # <<>> => 1 \in DOMAIN q
  BY <1>1, EmptySeq
<1> QED  BY <1>1, <1>2 DEF ToSet

\* A linked watch is a master or in a ring.
LEMMA LinkedFacts ==
    ASSUME iowatches \in Seq(WatchBlocks),
           \A m \in WatchBlocks : slaves[m] # <<>> => IsMaster(m)
    PROVE  \A w : w \in Linked <=> IsMaster(w) \/ \E m \in WatchBlocks : w \in ToSet(slaves[m])
<1>1. \A m \in WatchBlocks : ToSet(slaves[m]) # {} => m \in ToSet(iowatches)
  BY EmptyFacts DEF IsMaster
<1>2. ToSet(iowatches) \subseteq WatchBlocks
  BY MemberFacts
<1> QED  BY <1>1, <1>2 DEF Linked, IsMaster

\* The same, after a step.
LEMMA LinkedFactsNext ==
    ASSUME iowatches' \in Seq(WatchBlocks),
           \A m \in WatchBlocks : slaves'[m] # <<>> => IsMaster(m)'
    PROVE  \A w : w \in Linked' <=> IsMaster(w)' \/ \E m \in WatchBlocks : w \in ToSet(slaves'[m])
<1>1. \A m \in WatchBlocks : ToSet(slaves'[m]) # {} => m \in ToSet(iowatches')
  BY EmptyFacts DEF IsMaster
<1>2. ToSet(iowatches') \subseteq WatchBlocks
  BY MemberFacts
<1> QED  BY <1>1, <1>2 DEF Linked, IsMaster

\* Where the watches of a sound state are.
LEMMA PlaceFacts ==
    ASSUME Sound
    PROVE  /\ \A w : w \in Linked <=> IsMaster(w) \/ \E m \in WatchBlocks : w \in ToSet(slaves[m])
           /\ ToSet(iowatches) \subseteq WatchBlocks
           /\ \A v \in WatchBlocks : ToSet(slaves[v]) \subseteq WatchBlocks
           /\ \A v \in WatchBlocks : ~IsMaster(v) => slaves[v] = <<>> /\ ToSet(slaves[v]) = {}
           /\ \A v \in WatchBlocks \ allocated : v \notin Linked /\ ~IsMaster(v) /\ v \notin deleted
                                              /\ v # NULL
<1>1. \A w : w \in Linked <=> IsMaster(w) \/ \E m \in WatchBlocks : w \in ToSet(slaves[m])
  BY LinkedFacts DEF Sound, TypeOK, EachWatchOnce
<1>2. /\ ToSet(iowatches) \subseteq WatchBlocks
      /\ \A v \in WatchBlocks : ToSet(slaves[v]) \subseteq WatchBlocks
  BY MemberFacts DEF Sound, TypeOK
<1>3. \A v \in WatchBlocks : ~IsMaster(v) => slaves[v] = <<>> /\ ToSet(slaves[v]) = {}
  BY EmptyFacts DEF Sound, EachWatchOnce
<1>4. \A v \in WatchBlocks \ allocated : v \notin Linked /\ ~IsMaster(v) /\ v \notin deleted /\ v # NULL
  BY <1>1, IoWatchAssumption DEF Sound, EachWatchOnce
<1> QED  BY <1>1, <1>2, <1>3, <1>4

\* The registration that stands for a linked watch of an open descriptor.
LEMMA RegistrationFacts ==
    ASSUME Sound, Registered, NEW u \in Linked, fd[u] \in open \ hup
    PROVE  /\ reg[fd[u]] # NoReg
           /\ reg[fd[u]].ptr \in WatchBlocks /\ IsMaster(reg[fd[u]].ptr)
           /\ u = reg[fd[u]].ptr \/ u \in ToSet(slaves[reg[fd[u]].ptr])
           /\ IsMaster(u) => u = reg[fd[u]].ptr
           /\ want[u] \subseteq reg[fd[u]].events
<1>1. /\ reg[fd[u]] # NoReg
      /\ u = reg[fd[u]].ptr \/ u \in ToSet(slaves[reg[fd[u]].ptr])
      /\ want[u] \subseteq reg[fd[u]].events
  BY DEF Registered
<1>2. fd[u] \in Fds
  BY DEF Sound, Places
<1>3. IsMaster(reg[fd[u]].ptr) /\ reg[fd[u]].ptr \in WatchBlocks
  BY <1>1, <1>2, PlaceFacts DEF Sound, Kernel, IsMaster
<1>4. IsMaster(u) => u = reg[fd[u]].ptr
  BY <1>1, <1>3 DEF Sound, EachWatchOnce
<1> QED  BY <1>1, <1>3, <1>4

-----------------------------------------------------------------------------
(* Steps that leave the lists and epoll alone.                              *)

\* When only callbacks are cleared the lists and epoll stay in order.
LEMMA LinksStay ==
    ASSUME Sound, UNCHANGED <<kernvars, linkvars, allocated>>,
           \A w \in WatchBlocks : cb'[w] => cb[w]
    PROVE  EachWatchOnce' /\ Places' /\ Kernel' /\ (Registered => Registered')
<1> USE DEF linkvars, kernvars
<1>1. EachWatchOnce'
  BY DEF Sound, EachWatchOnce, IsMaster, Linked
<1>2. Places'
  BY DEF Sound, TypeOK, Places, Linked
<1>3. Kernel'
  BY DEF Sound, Kernel, IsMaster
<1>4. Registered => Registered'
  BY DEF Registered, Linked
<1> QED  BY <1>1, <1>2, <1>3, <1>4

\* A client deletes a watch.
LEMMA DelIoWatchInvariant ==
    ASSUME WatchInv, NEW w \in WatchBlocks, DelIoWatch(w)  PROVE WatchInv'
<1> USE DEF DelIoWatch, kernvars, linkvars, walkvars
<1>1. TypeOK'
  BY DEF WatchInv, Sound, TypeOK
<1>2. EachWatchOnce' /\ Places' /\ Kernel' /\ (Registered => Registered')
  <2>1. \A u \in WatchBlocks : cb'[u] => cb[u]
    BY DEF WatchInv, Sound, TypeOK
  <2> QED  BY <2>1, LinksStay DEF WatchInv
<1>3. Waiting' /\ SlaveCursors'
  BY DEF WatchInv, Sound, Waiting, SlaveCursors, IsMaster, Current
<1> QED  BY <1>1, <1>2, <1>3 DEF WatchInv, Sound

\* The loop is told to stop, or dispatch_slaves is done or calls a slave.
LEMMA QuietInvariant ==
    ASSUME WatchInv, Quit \/ SlavesDone \/ CallSlave  PROVE WatchInv'
<1> USE DEF Quit, SlavesDone, CallSlave, kernvars, linkvars, walkvars
<1>1. TypeOK'
  BY DEF WatchInv, Sound, TypeOK
<1>2. EachWatchOnce' /\ Places' /\ Kernel' /\ (Registered => Registered')
  BY LinksStay DEF WatchInv
<1>3. Waiting'
  BY DEF WatchInv, Sound, Waiting, IsMaster, ClientRuns
<1>4. SlaveCursors'
  BY DEF WatchInv, Sound, SlaveCursors, Current, ClientRuns
<1> QED  BY <1>1, <1>2, <1>3, <1>4 DEF WatchInv, Sound

\* The events are taken up or, when the loop stops, dropped.
LEMMA StartDispatchInvariant ==
    ASSUME WatchInv, StartDispatch  PROVE WatchInv'
<1> USE DEF StartDispatch, kernvars, linkvars, walkvars
<1>1. TypeOK'
  <2>1. <<>> \in Seq([w : WatchBlocks, events : SUBSET AllEvents])
    BY EmptySeq
  <2> QED  BY <2>1 DEF WatchInv, Sound, TypeOK
<1>2. EachWatchOnce' /\ Places' /\ Kernel' /\ (Registered => Registered')
  BY LinksStay DEF WatchInv
<1>3. Waiting'
  BY DEF WatchInv, Sound, Waiting, IsMaster
<1>4. SlaveCursors'
  BY DEF SlaveCursors
<1> QED  BY <1>1, <1>2, <1>3, <1>4 DEF WatchInv, Sound

\* The master of the event is called, or the walk of its ring starts.
LEMMA StartSlavesInvariant ==
    ASSUME WatchInv, CallMaster \/ MasterReturns  PROVE WatchInv'
<1> USE DEF CallMaster, MasterReturns, StartSlaves, kernvars, linkvars, walkvars
<1>1. EachWatchOnce' /\ Places' /\ Kernel' /\ (Registered => Registered')
  BY LinksStay DEF WatchInv
<1>2. Waiting'
  BY DEF WatchInv, Sound, Waiting, IsMaster
<1>3. events[1] \in [w : WatchBlocks, events : SUBSET AllEvents] /\ Current \in WatchBlocks
  <2> DEFINE T == [w : WatchBlocks, events : SUBSET AllEvents]
  <2>1. events # <<>> /\ events \in Seq(T)
    BY DEF WatchInv, Sound, TypeOK, Waiting
  <2>2. 1 \in 1 .. Len(events)
    BY <2>1, EmptySeq, LenProperties
  <2>3. events[1] \in T
    <3> HIDE DEF T
    <3> QED  BY <2>1, <2>2, ElementOfSeq
  <2> QED  BY <2>3 DEF Current
<1>4. slaves[Current] \in Seq(WatchBlocks) /\ IsInjective(slaves[Current]) /\ NULL \notin WatchBlocks
  BY <1>3, IoWatchAssumption DEF WatchInv, Sound, TypeOK, EachWatchOnce
<1>5. ToSet(slaves[Current]) \subseteq WatchBlocks
  BY <1>4, MemberFacts
<1>6. CASE StartSlaves
  <2>1. /\ s' \in ToSet(slaves[Current]) \union {NULL}
        /\ n' \in ToSet(slaves[Current]) \union {NULL}
        /\ s' # NULL => n' # s'
    BY <1>4, <1>6, NextSlaveFacts
  <2>2. SlaveCursors'
    BY <1>6, <2>1 DEF SlaveCursors, Current
  <2>3. evs' \subseteq AllEvents
    BY <1>3, <1>6 DEF Mask
  <2>4. TypeOK'
    BY <1>5, <1>6, <2>1, <2>3 DEF WatchInv, Sound, TypeOK
  <2> QED  BY <1>1, <1>2, <2>2, <2>4 DEF WatchInv, Sound
<1>7. CASE pc' = "mastercb" /\ UNCHANGED walkvars
  <2>1. TypeOK' /\ SlaveCursors'
    BY <1>7 DEF WatchInv, Sound, TypeOK, SlaveCursors
  <2> QED  BY <1>1, <1>2, <2>1 DEF WatchInv, Sound
<1> QED  BY <1>6, <1>7

-----------------------------------------------------------------------------
(* Descriptors and events.                                                  *)

\* A descriptor is opened: no watch that is linked ever had its number.
LEMMA OpenInvariant ==
    ASSUME WatchInv, NEW f \in Fds, Open(f)  PROVE WatchInv'
<1> USE DEF Open, linkvars, walkvars
<1>1. TypeOK'
  BY DEF WatchInv, Sound, TypeOK
<1>2. EachWatchOnce'
  BY DEF WatchInv, Sound, EachWatchOnce, IsMaster, Linked
<1>3. Places'
  BY DEF WatchInv, Sound, Places, Linked
<1>4. Kernel' /\ Waiting'
  BY DEF WatchInv, Sound, Kernel, Waiting, IsMaster
<1>5. SlaveCursors'
  BY DEF WatchInv, Sound, SlaveCursors, Current
<1>6. ~FdReuse => Registered'
  BY DEF WatchInv, Sound, Places, Registered, Linked
<1> QED  BY <1>1, <1>2, <1>3, <1>4, <1>5, <1>6 DEF WatchInv, Sound

\* A descriptor is closed: no live watch has it, and epoll forgets it.
LEMMA CloseInvariant ==
    ASSUME WatchInv, NEW f \in Fds, Close(f)  PROVE WatchInv'
<1> USE DEF Close, walkvars
<1>1. TypeOK'
  BY DEF WatchInv, Sound, TypeOK, Unregister, NoReg
<1>2. EachWatchOnce'
  BY DEF WatchInv, Sound, EachWatchOnce, IsMaster, Linked
<1>3. Places'
  BY DEF WatchInv, Sound, Places, Linked
<1>4. \A g \in Fds : reg'[g] = IF g = f THEN NoReg ELSE reg[g]
  BY DEF WatchInv, Sound, TypeOK, Unregister
<1>5. Kernel' /\ Waiting'
  BY <1>4 DEF WatchInv, Sound, Kernel, Waiting, IsMaster
<1>6. SlaveCursors'
  BY DEF WatchInv, Sound, SlaveCursors, Current
<1>7. Registered => Registered'
  <2>1. \A w \in Linked : fd[w] \in Fds
    BY DEF WatchInv, Sound, Places
  <2> QED  BY <1>4, <2>1 DEF Registered, Linked
<1> QED  BY <1>1, <1>2, <1>3, <1>5, <1>6, <1>7 DEF WatchInv, Sound

\* epoll_wait returns events of different descriptors, hence of different
\* masters.
LEMMA PollInvariant ==
    ASSUME WatchInv, Poll  PROVE WatchInv'
<1> DEFINE T == [w : WatchBlocks, events : SUBSET AllEvents]
<1>0. pc = "idle" /\ pc' = "polled" /\ nevent' = Larger(nevent, niowatch)
      /\ UNCHANGED <<kernvars, linkvars, cb, allocated, walkvars, quit>>
  BY DEF Poll
<1>1. EachWatchOnce' /\ Places' /\ Kernel' /\ (Registered => Registered')
  BY <1>0, LinksStay DEF WatchInv
<1>2. nevent' \in Nat
  <2>1. nevent \in Nat /\ niowatch \in Int
    BY DEF WatchInv, Sound, TypeOK
  <2> QED  BY <1>0, <2>1 DEF Larger
<1>3. PICK k \in 0 .. Cardinality(Fds) : \E fs \in [1 .. k -> Fds] :
          \E es \in [1 .. k -> (SUBSET AllEvents) \ {{}}] :
             /\ k <= nevent'
             /\ \A i, j \in 1 .. k : fs[i] = fs[j] => i = j
             /\ \A i \in 1 .. k : es[i] \subseteq reg[fs[i]].events
             /\ events' = [i \in 1 .. k |-> Event(fs[i], es[i])]
  BY DEF Poll
<1>4. k \in Nat
  BY FS_CardinalityType, IoWatchAssumption
<1>5. PICK fs \in [1 .. k -> Fds], es \in [1 .. k -> (SUBSET AllEvents) \ {{}}] :
         /\ \A i, j \in 1 .. k : fs[i] = fs[j] => i = j
         /\ \A i \in 1 .. k : es[i] \subseteq reg[fs[i]].events
         /\ events' = [i \in 1 .. k |-> Event(fs[i], es[i])]
  BY <1>3
<1>6. \A i \in 1 .. k : IsMaster(reg[fs[i]].ptr) /\ fd[reg[fs[i]].ptr] = fs[i]
  BY <1>5 DEF WatchInv, Sound, Kernel, NoReg
<1>7. DOMAIN events' = 1 .. k /\ \A i \in 1 .. k : events'[i].w = reg[fs[i]].ptr
  BY <1>5 DEF Event
<1>8. events' \in Seq(T)
  <2>1. \A i \in 1 .. k : Event(fs[i], es[i]) \in T
    <3>1. \A i \in 1 .. k : reg[fs[i]].ptr \in WatchBlocks /\ es[i] \in SUBSET AllEvents
      BY <1>5, <1>6, PlaceFacts DEF WatchInv, IsMaster
    <3> QED  BY <3>1 DEF Event
  <2> HIDE DEF T
  <2>2. events' \in [1 .. k -> T]
    BY <1>5, <2>1
  <2> QED  BY <1>4, <2>2, SeqDef
<1>9. TypeOK'
  BY <1>0, <1>2, <1>8 DEF WatchInv, Sound, TypeOK, kernvars, linkvars, walkvars
<1>10. Waiting'
  <2>1. \A i \in DOMAIN events' : events'[i].w \in ToSet(iowatches')
    BY <1>0, <1>6, <1>7 DEF IsMaster, linkvars
  <2>2. \A i, j \in DOMAIN events' : events'[i].w = events'[j].w => i = j
    BY <1>5, <1>6, <1>7
  <2> QED  BY <1>0, <2>1, <2>2 DEF Waiting, IsMaster
<1>11. SlaveCursors'
  BY <1>0 DEF SlaveCursors
<1> QED  BY <1>1, <1>9, <1>10, <1>11 DEF WatchInv, Sound

-----------------------------------------------------------------------------
(* Watches are added.                                                       *)

\* The first watch of a descriptor becomes a master.
LEMMA AddMasterInvariant ==
    ASSUME WatchInv, NEW w \in WatchBlocks, NEW f \in Fds, NEW e \in Interests,
           AddMaster(w, f, e)
    PROVE  WatchInv'
<1> USE DEF AddMaster, NewWatch, kernvars, walkvars
<1>0. Sound /\ w \notin Linked /\ ~IsMaster(w) /\ w \notin deleted /\ w # NULL /\ slaves[w] = <<>>
  BY PlaceFacts DEF WatchInv
<1>1. /\ iowatches' \in Seq(WatchBlocks) /\ ToSet(iowatches') = ToSet(iowatches) \union {w}
      /\ IsInjective(iowatches')
  BY <1>0, AppendFacts DEF Sound, TypeOK, EachWatchOnce, IsMaster
<1>2. TypeOK'
  BY <1>0, <1>1, IoWatchAssumption DEF Sound, TypeOK, Reg
<1>3. \A u : IsMaster(u)' <=> IsMaster(u) \/ u = w
  BY <1>1 DEF IsMaster
<1>4. \A m \in WatchBlocks : slaves'[m] # <<>> => IsMaster(m)'
  BY <1>0, <1>3 DEF Sound, EachWatchOnce
<1>5. \A u : u \in Linked' <=> u \in Linked \/ u = w
  BY <1>0, <1>1, <1>3, <1>4, PlaceFacts, LinkedFactsNext
<1>6. \A u : u \in Linked => u # w /\ fd'[u] = fd[u] /\ u \in WatchBlocks /\ want'[u] = want[u]
  BY <1>0, PlaceFacts DEF Sound, TypeOK, IsMaster
<1>7. fd'[w] = f /\ want'[w] = e /\ reg'[f] = Reg(w, e) /\ f \in open
      /\ \A g \in Fds : g # f => reg'[g] = reg[g]
  BY <1>0 DEF Sound, TypeOK
<1>8. EachWatchOnce'
  <2>1. ASSUME NEW v \in WatchBlocks, NEW u \in ToSet(slaves'[v])
        PROVE  fd'[u] = fd'[v] /\ ~IsMaster(u)' /\ u \notin deleted'
    <3>1. u \in Linked /\ v \in Linked
      BY <1>0, <2>1, PlaceFacts, EmptyFacts
    <3> QED  BY <1>0, <1>3, <1>6, <2>1, <3>1 DEF Sound, EachWatchOnce
  <2> QED  BY <1>0, <1>1, <1>3, <1>4, <1>5, <2>1 DEF Sound, EachWatchOnce, IsMaster
<1>9. Places'
  BY <1>0, <1>5, <1>6, <1>7 DEF Sound, TypeOK, Places
<1>10. Kernel'
  BY <1>0, <1>3, <1>5, <1>6, <1>7, PlaceFacts DEF Sound, Kernel, Reg
<1>11. Waiting'
  BY <1>0, <1>3 DEF Sound, Waiting, ClientRuns
<1>12. SlaveCursors'
  BY <1>0 DEF Sound, SlaveCursors, Current, ClientRuns
<1>13. Registered => Registered'
  <2> SUFFICES ASSUME Registered, NEW u \in Linked', fd'[u] \in open \ hup
               PROVE  LET r == reg'[fd'[u]] IN
                      /\ r # NoReg
                      /\ u = r.ptr \/ u \in ToSet(slaves'[r.ptr])
                      /\ want'[u] \subseteq r.events
    BY DEF Registered
  <2>1. CASE u = w
    BY <1>0, <1>7, <2>1 DEF Reg, NoReg
  <2>2. CASE u \in Linked
    BY <1>0, <1>6, <1>7, <2>2 DEF Registered, Sound, Places
  <2> QED  BY <1>5, <2>1, <2>2
<1> QED  BY <1>0, <1>2, <1>8, <1>9, <1>10, <1>11, <1>12, <1>13 DEF WatchInv, Sound

\* What watches want is a set of events.
LEMMA WantedFacts ==
    ASSUME TypeOK, NEW W \in SUBSET WatchBlocks
    PROVE  Wanted(W) \subseteq AllEvents
<1>1. \A w \in WatchBlocks : want[w] \subseteq AllEvents
  <2>1. \A e \in Interests \union {{}} : e \subseteq AllEvents
    BY IoWatchAssumption
  <2> QED  BY <2>1 DEF TypeOK
<1> QED  BY <1>1 DEF Wanted

\* Another watch of the descriptor joins the ring of its master.
LEMMA AddSlaveInvariant ==
    ASSUME WatchInv, NEW w \in WatchBlocks, NEW f \in Fds, NEW e \in Interests,
           AddSlave(w, f, e)
    PROVE  WatchInv'
<1> USE DEF AddSlave, NewWatch, kernvars, walkvars
<1>0. Sound /\ w \notin Linked /\ ~IsMaster(w) /\ w \notin deleted /\ w # NULL /\ slaves[w] = <<>>
  BY PlaceFacts DEF WatchInv
<1>1. PICK m \in WatchBlocks :
        /\ IsMaster(m) /\ fd[m] = f
        /\ reg' = [reg EXCEPT ![f] = Reg(m, Wanted({m} \union ToSet(slaves[m])) \union e)]
        /\ slaves' = [slaves EXCEPT ![m] = Append(@, w)]
  <2>1. \A i \in DOMAIN iowatches : iowatches[i] \in ToSet(iowatches)
    BY DEF ToSet
  <2> QED  BY <1>0, <2>1, PlaceFacts DEF IsMaster
<1> DEFINE W == Wanted({m} \union ToSet(slaves[m])) \union e
<1>2. /\ slaves'[m] \in Seq(WatchBlocks) /\ ToSet(slaves'[m]) = ToSet(slaves[m]) \union {w}
      /\ IsInjective(slaves'[m])
      /\ \A v \in WatchBlocks : v # m => slaves'[v] = slaves[v]
  <2>1. w \notin ToSet(slaves[m])
    BY <1>0, PlaceFacts
  <2>2. slaves \in [WatchBlocks -> Seq(WatchBlocks)] /\ IsInjective(slaves[m])
    BY <1>0 DEF Sound, TypeOK, EachWatchOnce
  <2>3. slaves'[m] = Append(slaves[m], w) /\ \A v \in WatchBlocks : v # m => slaves'[v] = slaves[v]
    BY <1>1, <2>2
  <2> QED  BY <2>1, <2>2, <2>3, AppendFacts
<1>3. W \in SUBSET AllEvents
  <2>1. {m} \union ToSet(slaves[m]) \in SUBSET WatchBlocks
    BY <1>0, PlaceFacts
  <2>2. Wanted({m} \union ToSet(slaves[m])) \subseteq AllEvents
    BY <1>0, <2>1, WantedFacts DEF Sound
  <2>3. e \subseteq AllEvents
    BY IoWatchAssumption
  <2> QED  BY <2>2, <2>3
<1>4. \A u \in {m} \union ToSet(slaves[m]) : want[u] \subseteq W
  BY DEF Wanted
<1> HIDE DEF W
<1>5. /\ reg'[f] = Reg(m, W)
      /\ \A g \in Fds : g # f => reg'[g] = reg[g]
      /\ fd'[w] = f /\ want'[w] = e /\ f \in open
  BY <1>0, <1>1 DEF Sound, TypeOK, W
<1>6. slaves' \in [WatchBlocks -> Seq(WatchBlocks)]
  BY <1>0, <1>1, <1>2 DEF Sound, TypeOK
<1>7. TypeOK'
  <2>1. reg' \in [Fds -> [ptr : WatchBlocks \union {NULL}, events : SUBSET AllEvents]]
    BY <1>0, <1>1, <1>3 DEF Sound, TypeOK, Reg, W
  <2> QED  BY <1>0, <1>6, <2>1, IoWatchAssumption DEF Sound, TypeOK
<1>8. \A u : IsMaster(u)' <=> IsMaster(u)
  BY DEF IsMaster
<1>9. \A v \in WatchBlocks : slaves'[v] # <<>> => IsMaster(v)'
  BY <1>0, <1>1, <1>2, <1>8 DEF Sound, EachWatchOnce
<1>10. \A u : u \in Linked' <=> u \in Linked \/ u = w
  <2>1. \A u : u \in Linked' <=> IsMaster(u)' \/ \E v \in WatchBlocks : u \in ToSet(slaves'[v])
    <3>1. iowatches' \in Seq(WatchBlocks)
      BY <1>7 DEF TypeOK
    <3> QED  BY <1>9, <3>1, LinkedFactsNext
  <2>2. \A u : u \in Linked <=> IsMaster(u) \/ \E v \in WatchBlocks : u \in ToSet(slaves[v])
    BY <1>0, PlaceFacts
  <2>3. \A u : (\E v \in WatchBlocks : u \in ToSet(slaves'[v]))
                  <=> u = w \/ \E v \in WatchBlocks : u \in ToSet(slaves[v])
    BY <1>2
  <2> QED  BY <1>8, <2>1, <2>2, <2>3
<1>11. \A u : u \in Linked => u # w /\ fd'[u] = fd[u] /\ u \in WatchBlocks /\ want'[u] = want[u]
  BY <1>0, PlaceFacts DEF Sound, TypeOK, IsMaster
<1>12. EachWatchOnce'
  <2>1. ASSUME NEW v \in WatchBlocks, NEW u \in ToSet(slaves'[v])
        PROVE  /\ fd'[u] = fd'[v] /\ ~IsMaster(u)' /\ u \notin deleted'
               /\ \A x \in WatchBlocks : u \in ToSet(slaves'[x]) => x = v
    <3>1. CASE u = w
      <4>1. \A x \in WatchBlocks : w \in ToSet(slaves'[x]) => x = m
        BY <1>0, <1>2, PlaceFacts
      <4>2. m \in Linked
        BY <1>0, <1>1, PlaceFacts
      <4> QED  BY <1>0, <1>1, <1>5, <1>8, <1>11, <2>1, <3>1, <4>1, <4>2
    <3>2. CASE u # w
      <4>1. \A x \in WatchBlocks : u \in ToSet(slaves'[x]) <=> u \in ToSet(slaves[x])
        BY <1>2, <3>2
      <4>2. u \in Linked /\ v \in Linked
        BY <1>0, <2>1, <4>1, PlaceFacts, EmptyFacts
      <4> QED  BY <1>0, <1>8, <1>11, <2>1, <4>1, <4>2 DEF Sound, EachWatchOnce
    <3> QED  BY <3>1, <3>2
  <2>2. \A v \in WatchBlocks : IsInjective(slaves'[v])
    BY <1>0, <1>2 DEF Sound, EachWatchOnce
  <2>3. IsInjective(iowatches') /\ ToSet(iowatches') \cap deleted' = {}
    BY <1>0 DEF Sound, EachWatchOnce
  <2>4. Linked' \union deleted' \subseteq allocated'
    BY <1>0, <1>10 DEF Sound, EachWatchOnce
  <2> QED  BY <1>9, <2>1, <2>2, <2>3, <2>4 DEF EachWatchOnce, IsMaster
<1>13. Places'
  BY SMTT(40), <1>0, <1>5, <1>10, <1>11 DEF Sound, TypeOK, Places
<1>14. Kernel'
  <2>1. \A u : IsMaster(u) => u \in Linked
    BY <1>0, PlaceFacts
  <2> QED  BY <1>0, <1>1, <1>5, <1>8, <1>11, <2>1 DEF Sound, Kernel, Reg
<1>15. Waiting'
  BY <1>0, <1>8 DEF Sound, Waiting, ClientRuns
<1>16. SlaveCursors'
  <2>1. Current' = Current /\ (pc = "slavecb" => Current \in WatchBlocks)
    <3>1. pc = "slavecb" => events # <<>>
      BY <1>0 DEF Sound, Waiting
    <3>2. ASSUME events # <<>>  PROVE Current \in WatchBlocks
      <4>1. events \in Seq([w : WatchBlocks, events : SUBSET AllEvents])
        BY <1>0 DEF Sound, TypeOK
      <4>2. 1 \in DOMAIN events
        BY <3>2, <4>1, EmptySeq, LenProperties
      <4> QED  BY <1>0, <4>2, PlaceFacts DEF Sound, Waiting, Current, IsMaster
    <3> QED  BY <3>1, <3>2 DEF Current
  <2>2. pc = "slavecb" => ToSet(slaves[Current]) \subseteq ToSet(slaves'[Current])
    BY <1>2, <2>1
  <2> QED  BY <1>0, <2>1, <2>2 DEF Sound, SlaveCursors, ClientRuns
<1>17. Registered => Registered'
  <2> SUFFICES ASSUME Registered, NEW u \in Linked', fd'[u] \in open \ hup
               PROVE  LET r == reg'[fd'[u]] IN
                      /\ r # NoReg
                      /\ u = r.ptr \/ u \in ToSet(slaves'[r.ptr])
                      /\ want'[u] \subseteq r.events
    BY DEF Registered
  <2>1. Reg(m, W) # NoReg /\ Reg(m, W).ptr = m /\ Reg(m, W).events = W /\ e \subseteq W
    BY IoWatchAssumption DEF Reg, NoReg, W
  <2>2. CASE u = w
    BY <1>2, <1>5, <2>1, <2>2
  <2>3. CASE u \in Linked /\ fd[u] = f
    <3>1. m \in Linked /\ f \in open \ hup
      BY <1>0, <1>1, <1>11, <2>3, PlaceFacts
    <3>2. m = reg[f].ptr
      BY <1>0, <1>1, <3>1, RegistrationFacts
    <3>3. u = m \/ u \in ToSet(slaves[m])
      BY <1>0, <2>3, <3>1, <3>2, RegistrationFacts
    <3> QED  BY ZenonT(40), <1>2, <1>4, <1>5, <1>11, <2>1, <2>3, <3>3
  <2>4. CASE u \in Linked /\ fd[u] # f
    <3>1. fd[u] \in Fds /\ fd[u] \in open \ hup
      BY <1>0, <1>11, <2>4 DEF Sound, Places
    <3>2. reg'[fd[u]] = reg[fd[u]]
      BY <1>5, <2>4, <3>1
    <3>3. reg[fd[u]].ptr \in WatchBlocks
      BY <1>0, <2>4, <3>1, RegistrationFacts
    <3>4. ToSet(slaves[reg[fd[u]].ptr]) \subseteq ToSet(slaves'[reg[fd[u]].ptr])
      BY <1>2, <3>3
    <3> QED  BY <1>11, <2>4, <3>1, <3>2, <3>4 DEF Registered
  <2> QED  BY <1>10, <2>2, <2>3, <2>4
<1> QED  BY <1>0, <1>7, <1>12, <1>13, <1>14, <1>15, <1>16, <1>17 DEF WatchInv, Sound

-----------------------------------------------------------------------------
(* Watches are unlinked, and epoll is told.                                 *)

(* What unlinking w establishes.                                            *)
Unlinked(w, r) ==
    /\ reg' \in [Fds -> [ptr : WatchBlocks \union {NULL}, events : SUBSET AllEvents]]
    /\ fd' \in [WatchBlocks -> Fds \union {NULL}]
    /\ want' \in [WatchBlocks -> Interests \union {{}}]
    /\ iowatches' \in Seq(WatchBlocks)
    /\ slaves' \in [WatchBlocks -> Seq(WatchBlocks)]
    /\ deleted' \subseteq WatchBlocks
    /\ niowatch' \in Int
    /\ EachWatchOnce'
    /\ \A u : u \in Linked' <=> u \in Linked /\ u # w
    /\ \A u : IsMaster(u) /\ u # w => IsMaster(u)'
    /\ Kernel'
    /\ /\ Registered
       /\ \A f \in Fds : f \in open \ hup' => f \in open \ hup /\ r[f] = reg[f]
       => Registered'

\* A master without slaves is unregistered.
LEMMA DeleteAloneFacts ==
    ASSUME Sound, NEW w \in Linked,
           NEW r \in [Fds -> [ptr : WatchBlocks \union {NULL}, events : SUBSET AllEvents]],
           DeleteAlone(w, r),
           \A f \in Fds : r[f] = reg[f] \/ r[f] = NoReg,
           fd' = [fd EXCEPT ![w] = NULL], niowatch' = niowatch - 1,
           UNCHANGED <<open, allocated>>
    PROVE  Unlinked(w, r)
<1> USE DEF DeleteAlone
<1>0. w \in WatchBlocks /\ fd[w] \in Fds /\ ToSet(slaves[w]) = {}
  BY PlaceFacts, EmptyFacts DEF IsMaster, Sound, Places
<1>1. /\ iowatches' \in Seq(WatchBlocks) /\ IsInjective(iowatches')
      /\ \A u : IsMaster(u)' <=> IsMaster(u) /\ u # w
  BY WithoutFacts DEF Sound, TypeOK, EachWatchOnce, IsMaster
<1>2. \A f \in Fds : reg'[f] = IF f = fd[w] THEN NoReg ELSE r[f]
  BY <1>0 DEF Unregister
<1>3. fd'[w] = NULL /\ \A u : u \in WatchBlocks /\ u # w => fd'[u] = fd[u]
  BY <1>0 DEF Sound, TypeOK
<1>4. /\ reg' \in [Fds -> [ptr : WatchBlocks \union {NULL}, events : SUBSET AllEvents]]
      /\ fd' \in [WatchBlocks -> Fds \union {NULL}]
      /\ want' \in [WatchBlocks -> Interests \union {{}}]
      /\ slaves' \in [WatchBlocks -> Seq(WatchBlocks)]
      /\ deleted' \subseteq WatchBlocks
      /\ niowatch' \in Int
  BY <1>0 DEF Sound, TypeOK, Unregister, NoReg
<1>5. \A v \in WatchBlocks : slaves'[v] # <<>> => IsMaster(v)'
  BY <1>1 DEF Sound, EachWatchOnce
<1>6. \A u : u \in Linked' <=> u \in Linked /\ u # w
  <2>1. \A u : u \in Linked' <=> IsMaster(u)' \/ \E v \in WatchBlocks : u \in ToSet(slaves'[v])
    BY <1>1, <1>5, LinkedFactsNext
  <2>2. \A u : u \in Linked <=> IsMaster(u) \/ \E v \in WatchBlocks : u \in ToSet(slaves[v])
    BY PlaceFacts
  <2>3. \A v \in WatchBlocks : w \notin ToSet(slaves[v])
    BY DEF Sound, EachWatchOnce
  <2> QED  BY <1>1, <2>1, <2>2, <2>3
<1>7. EachWatchOnce'
  <2>1. ASSUME NEW v \in WatchBlocks, NEW u \in ToSet(slaves'[v])
        PROVE  fd'[u] = fd'[v] /\ ~IsMaster(u)' /\ u \notin deleted'
    <3>1. v # w /\ u # w /\ u \in WatchBlocks
      BY <1>0, <2>1, PlaceFacts DEF Sound, EachWatchOnce
    <3> QED  BY <1>1, <1>3, <2>1, <3>1 DEF Sound, EachWatchOnce
  <2>2. Linked' \union deleted' \subseteq allocated' /\ ToSet(iowatches') \cap deleted' = {}
    BY <1>1, <1>6 DEF Sound, EachWatchOnce, IsMaster
  <2> QED  BY <1>1, <1>5, <2>1, <2>2 DEF Sound, EachWatchOnce, IsMaster
<1>8. Kernel'
  <2>1. \A u : IsMaster(u) => u \in WatchBlocks
    BY PlaceFacts DEF IsMaster
  <2> QED  BY <1>1, <1>2, <1>3, <2>1 DEF Sound, Kernel
<1>9. ASSUME Registered,
             \A f \in Fds : f \in open \ hup' => f \in open \ hup /\ r[f] = reg[f]
      PROVE  Registered'
  <2> SUFFICES ASSUME NEW u \in Linked', fd'[u] \in open \ hup'
               PROVE  LET q == reg'[fd'[u]] IN
                      /\ q # NoReg
                      /\ u = q.ptr \/ u \in ToSet(slaves'[q.ptr])
                      /\ want'[u] \subseteq q.events
    BY DEF Registered
  <2>1. u \in Linked /\ u # w /\ fd'[u] = fd[u] /\ fd[u] \in Fds /\ fd[u] \in open \ hup
    BY <1>3, <1>6, <1>9, PlaceFacts DEF Sound, Places, IsMaster
  <2>2. LET q == reg[fd[u]] IN
        /\ q # NoReg /\ q.ptr \in WatchBlocks
        /\ u = q.ptr \/ u \in ToSet(slaves[q.ptr])
        /\ want[u] \subseteq q.events
    BY <1>9, <2>1, RegistrationFacts
  <2>3. fd[u] # fd[w]
    <3>1. ASSUME fd[u] = fd[w]  PROVE w = reg[fd[w]].ptr
      BY <2>1, <3>1, <1>9, RegistrationFacts
    <3> QED  BY <1>0, <2>1, <2>2, <3>1
  <2> QED  BY <1>2, <1>9, <2>1, <2>2, <2>3
<1> QED  BY <1>1, <1>4, <1>6, <1>7, <1>8, <1>9 DEF Unlinked

\* The first slave becomes the master of the others.
LEMMA DeletePromoteFacts ==
    ASSUME Sound, NEW w \in Linked,
           NEW r \in [Fds -> [ptr : WatchBlocks \union {NULL}, events : SUBSET AllEvents]],
           DeletePromote(w, r),
           \A f \in Fds : r[f] = reg[f] \/ r[f] = NoReg,
           fd' = [fd EXCEPT ![w] = NULL], niowatch' = niowatch - 1,
           UNCHANGED <<open, allocated>>
    PROVE  Unlinked(w, r)
<1> DEFINE m == Head(slaves[w])
           W == Wanted(ToSet(slaves[w]))
<1>0. /\ w \in WatchBlocks /\ fd[w] \in Fds /\ IsMaster(w) /\ w \in allocated
      /\ slaves[w] \in Seq(WatchBlocks) /\ slaves[w] # <<>> /\ IsInjective(slaves[w])
      /\ iowatches \in Seq(WatchBlocks) /\ IsInjective(iowatches)
      /\ ToSet(slaves[w]) \subseteq WatchBlocks
  BY PlaceFacts DEF IsMaster, Sound, Places, TypeOK, EachWatchOnce, DeletePromote
<1>1. /\ m \in ToSet(slaves[w]) /\ m \in WatchBlocks
      /\ Tail(slaves[w]) \in Seq(WatchBlocks)
      /\ ToSet(Tail(slaves[w])) = ToSet(slaves[w]) \ {m}
      /\ IsInjective(Tail(slaves[w]))
  BY <1>0, TailFacts
<1>2. /\ iowatches' = Append(Without(iowatches, w), m)
      /\ slaves' = [slaves EXCEPT ![w] = <<>>, ![m] = Tail(slaves[w])]
      /\ reg' = Modify(r, fd[w], Reg(m, W))
      /\ deleted' = deleted \union {w} /\ want' = want
  BY DEF DeletePromote
<1> HIDE DEF m
<1>3. m # w /\ ~IsMaster(m) /\ fd[m] = fd[w] /\ m \notin deleted /\ slaves[m] = <<>>
  BY <1>0, <1>1, PlaceFacts DEF Sound, EachWatchOnce
<1>4. /\ iowatches' \in Seq(WatchBlocks) /\ IsInjective(iowatches')
      /\ \A u : IsMaster(u)' <=> (IsMaster(u) /\ u # w) \/ u = m
  <2>1. /\ Without(iowatches, w) \in Seq(WatchBlocks) /\ IsInjective(Without(iowatches, w))
        /\ ToSet(Without(iowatches, w)) = ToSet(iowatches) \ {w}
    BY <1>0, WithoutFacts DEF IsMaster
  <2>2. m \notin ToSet(Without(iowatches, w))
    BY <1>3, <2>1 DEF IsMaster
  <2> QED  BY <1>1, <1>2, <2>1, <2>2, AppendFacts DEF IsMaster
<1>5. W \in SUBSET AllEvents /\ \A u \in ToSet(slaves[w]) : want[u] \subseteq W
  <2>1. W \subseteq AllEvents
    BY <1>0, WantedFacts DEF Sound
  <2> QED  BY <2>1 DEF Wanted
<1> HIDE DEF W
<1>6. Reg(m, W) # NoReg /\ Reg(m, W).ptr = m /\ Reg(m, W).events = W
      /\ Reg(m, W) \in [ptr : WatchBlocks \union {NULL}, events : SUBSET AllEvents]
  BY <1>1, <1>5, IoWatchAssumption DEF Reg, NoReg
<1>7. /\ \A f \in Fds : f # fd[w] => reg'[f] = r[f]
      /\ reg'[fd[w]] = IF r[fd[w]] = NoReg THEN NoReg ELSE Reg(m, W)
  BY <1>0, <1>2 DEF Modify
<1>8. fd'[w] = NULL /\ \A u : u \in WatchBlocks /\ u # w => fd'[u] = fd[u]
  BY <1>0 DEF Sound, TypeOK
<1>9. /\ slaves'[w] = <<>> /\ slaves'[m] = Tail(slaves[w])
      /\ \A v \in WatchBlocks : v # w /\ v # m => slaves'[v] = slaves[v]
      /\ slaves' \in [WatchBlocks -> Seq(WatchBlocks)]
  <2>1. slaves \in [WatchBlocks -> Seq(WatchBlocks)] /\ <<>> \in Seq(WatchBlocks)
    BY EmptySeq DEF Sound, TypeOK
  <2> QED  BY <1>0, <1>1, <1>2, <1>3, <2>1
<1>10. /\ reg' \in [Fds -> [ptr : WatchBlocks \union {NULL}, events : SUBSET AllEvents]]
       /\ fd' \in [WatchBlocks -> Fds \union {NULL}]
       /\ want' \in [WatchBlocks -> Interests \union {{}}]
       /\ deleted' \subseteq WatchBlocks
       /\ niowatch' \in Int
  <2>1. reg' \in [Fds -> [ptr : WatchBlocks \union {NULL}, events : SUBSET AllEvents]]
    <3> DEFINE T == [ptr : WatchBlocks \union {NULL}, events : SUBSET AllEvents]
    <3>1. r \in [Fds -> T] /\ Reg(m, W) \in T
      BY <1>6
    <3> HIDE DEF T
    <3>2. reg' \in [Fds -> T]
      BY <1>2, <3>1 DEF Modify
    <3> QED  BY <3>2 DEF T
  <2> QED  BY <1>0, <1>2, <2>1 DEF Sound, TypeOK
<1>11. \A v, u : v \in WatchBlocks =>
          (u \in ToSet(slaves'[v]) <=> \/ v # w /\ v # m /\ u \in ToSet(slaves[v])
                                       \/ v = m /\ u # m /\ u \in ToSet(slaves[w]))
  BY <1>1, <1>3, <1>9, EmptyFacts
<1>12. \A v \in WatchBlocks : slaves'[v] # <<>> => IsMaster(v)'
  BY <1>4, <1>9 DEF Sound, EachWatchOnce
<1>13. \A u : u \in Linked' <=> u \in Linked /\ u # w
  <2>1. \A u : u \in Linked' <=> IsMaster(u)' \/ \E v \in WatchBlocks : u \in ToSet(slaves'[v])
    BY <1>4, <1>12, LinkedFactsNext
  <2>2. \A u : u \in Linked <=> IsMaster(u) \/ \E v \in WatchBlocks : u \in ToSet(slaves[v])
    BY PlaceFacts
  <2>3. \A v \in WatchBlocks : w \notin ToSet(slaves[v])
    BY <1>0 DEF Sound, EachWatchOnce
  <2>4. ToSet(slaves[m]) = {}
    BY <1>3, EmptyFacts
  <2> QED  BY ZenonT(40), <1>0, <1>1, <1>3, <1>4, <1>11, <2>1, <2>2, <2>3, <2>4
<1>14. EachWatchOnce'
  <2>1. ASSUME NEW v \in WatchBlocks, NEW u \in ToSet(slaves'[v])
        PROVE  /\ fd'[u] = fd'[v] /\ ~IsMaster(u)' /\ u \notin deleted'
               /\ \A x \in WatchBlocks : u \in ToSet(slaves'[x]) => x = v
    <3>1. PICK z \in WatchBlocks : u \in ToSet(slaves[z]) /\ ((z = v /\ v # w) \/ (z = w /\ v = m /\ u # m))
      <4>1. (v # w /\ v # m /\ u \in ToSet(slaves[v])) \/ (v = m /\ u # m /\ u \in ToSet(slaves[w]))
        BY <1>11, <2>1
      <4> QED  BY <1>0, <4>1
    <3>2. /\ u \in WatchBlocks /\ ~IsMaster(u) /\ u # w /\ u \notin deleted /\ fd[u] = fd[z]
          /\ \A x \in WatchBlocks : u \in ToSet(slaves[x]) => x = z
      BY <1>0, <3>1, PlaceFacts DEF Sound, EachWatchOnce
    <3>3. u # m
      BY <1>0, <1>1, <3>1, <3>2
    <3>4. fd'[u] = fd'[v]
      BY <1>3, <1>8, <2>1, <3>1, <3>2
    <3>5. \A x \in WatchBlocks : u \in ToSet(slaves'[x]) => x = v
      BY <1>0, <1>11, <3>1, <3>2
    <3> QED  BY <1>2, <1>4, <3>2, <3>3, <3>4, <3>5
  <2>2. Linked' \union deleted' \subseteq allocated'
    BY <1>0, <1>2, <1>13 DEF Sound, EachWatchOnce
  <2>3. ToSet(iowatches') \cap deleted' = {}
    BY <1>2, <1>3, <1>4 DEF Sound, EachWatchOnce, IsMaster
  <2>4. \A v \in WatchBlocks : IsInjective(slaves'[v])
    BY <1>1, <1>9, EmptyFacts DEF Sound, EachWatchOnce
  <2> QED  BY <1>4, <1>12, <2>1, <2>2, <2>3, <2>4 DEF EachWatchOnce, IsMaster
<1>15. Kernel'
  <2>1. \A u : IsMaster(u) => u \in WatchBlocks
    BY PlaceFacts DEF IsMaster
  <2> SUFFICES ASSUME NEW f \in Fds, reg'[f] # NoReg
               PROVE  f \in open /\ reg'[f].ptr \in ToSet(iowatches') /\ fd'[reg'[f].ptr] = f
    BY DEF Kernel, IsMaster
  <2>2. r[f] = reg[f] /\ reg[f] # NoReg
    BY <1>7, <2>1
  <2>3. f \in open /\ IsMaster(reg[f].ptr) /\ fd[reg[f].ptr] = f
    BY <2>2 DEF Sound, Kernel
  <2> QED  BY <1>1, <1>3, <1>4, <1>6, <1>7, <1>8, <2>1, <2>2, <2>3 DEF IsMaster
<1>16. ASSUME Registered,
              \A f \in Fds : f \in open \ hup' => f \in open \ hup /\ r[f] = reg[f]
       PROVE  Registered'
  <2> SUFFICES ASSUME NEW u \in Linked', fd'[u] \in open \ hup'
               PROVE  LET q == reg'[fd'[u]] IN
                      /\ q # NoReg
                      /\ u = q.ptr \/ u \in ToSet(slaves'[q.ptr])
                      /\ want'[u] \subseteq q.events
    BY DEF Registered
  <2>1. u \in Linked /\ u # w /\ fd'[u] = fd[u] /\ fd[u] \in Fds /\ fd[u] \in open \ hup
    BY <1>8, <1>13, <1>16, PlaceFacts DEF Sound, Places, IsMaster
  <2>2. /\ reg[fd[u]] # NoReg /\ reg[fd[u]].ptr \in WatchBlocks /\ IsMaster(reg[fd[u]].ptr)
        /\ u = reg[fd[u]].ptr \/ u \in ToSet(slaves[reg[fd[u]].ptr])
        /\ want[u] \subseteq reg[fd[u]].events
    BY <1>16, <2>1, RegistrationFacts
  <2>3. r[fd[u]] = reg[fd[u]]
    BY <1>16, <2>1
  <2>4. CASE fd[u] = fd[w]
    <3>1. w = reg[fd[w]].ptr
      BY <1>0, <1>16, <2>1, <2>4, RegistrationFacts
    <3>2. u \in ToSet(slaves[w])
      BY <2>1, <2>2, <2>4, <3>1
    <3>3. reg'[fd[u]] = Reg(m, W)
      BY <1>7, <2>2, <2>3, <2>4
    <3>4. u = m \/ u \in ToSet(slaves'[m])
      BY <1>1, <1>11, <3>2
    <3> QED  BY <1>2, <1>5, <1>6, <2>1, <3>2, <3>3, <3>4
  <2>5. CASE fd[u] # fd[w]
    <3>1. reg'[fd[u]] = reg[fd[u]] /\ reg[fd[u]].ptr # w
      BY <1>7, <2>1, <2>2, <2>3, <2>5 DEF Sound, Kernel
    <3>2. u \in ToSet(slaves[reg[fd[u]].ptr]) => u \in ToSet(slaves'[reg[fd[u]].ptr])
      BY <1>3, <1>11, <2>2, <3>1
    <3> QED  BY <1>2, <2>1, <2>2, <3>1, <3>2
  <2> QED  BY <2>4, <2>5
<1>17. \A u : IsMaster(u) /\ u # w => IsMaster(u)'
  BY <1>4
<1> QED  BY <1>4, <1>9, <1>10, <1>13, <1>14, <1>15, <1>16, <1>17 DEF Unlinked

\* A slave leaves its ring, and its master is registered for what is left.
LEMMA DeleteSlaveFacts ==
    ASSUME Sound, NEW w \in Linked,
           NEW r \in [Fds -> [ptr : WatchBlocks \union {NULL}, events : SUBSET AllEvents]],
           DeleteSlave(w, r),
           \A f \in Fds : r[f] = reg[f] \/ r[f] = NoReg,
           fd' = [fd EXCEPT ![w] = NULL], niowatch' = niowatch - 1,
           UNCHANGED <<open, allocated>>
    PROVE  Unlinked(w, r)
<1> DEFINE m == MasterOf(w)
           left == ({m} \union ToSet(slaves[m])) \ {w}
           W == Wanted(left)
<1>1. m \in ToSet(iowatches) /\ w \in ToSet(slaves[m])
  <2>1. \E v \in ToSet(iowatches) : w \in ToSet(slaves[v])
    <3>1. ~IsMaster(w)
      BY DEF DeleteSlave
    <3> QED  BY <3>1 DEF Linked, IsMaster
  <2> QED  BY <2>1 DEF MasterOf
<1>2. /\ iowatches' = iowatches
      /\ slaves' = [slaves EXCEPT ![m] = Without(@, w)]
      /\ reg' = Modify(r, fd[w], Reg(m, W))
      /\ deleted' = deleted \union {w} /\ want' = [want EXCEPT ![w] = {}]
      /\ ~IsMaster(w)
  BY DEF DeleteSlave
<1> HIDE DEF m
<1>3. /\ m \in WatchBlocks /\ w \in WatchBlocks /\ m # w /\ fd[w] \in Fds /\ w \in allocated
      /\ fd[m] = fd[w] /\ IsMaster(m) /\ m \in Linked
      /\ slaves \in [WatchBlocks -> Seq(WatchBlocks)] /\ IsInjective(slaves[m])
      /\ iowatches \in Seq(WatchBlocks) /\ IsInjective(iowatches)
      /\ \A x \in WatchBlocks : w \in ToSet(slaves[x]) => x = m
  BY <1>1, <1>2, PlaceFacts DEF IsMaster, Sound, Places, TypeOK, EachWatchOnce
<1>4. W \in SUBSET AllEvents /\ \A u \in left : want[u] \subseteq W
  <2>1. left \in SUBSET WatchBlocks
    BY <1>3, PlaceFacts
  <2> HIDE DEF left
  <2>2. W \subseteq AllEvents
    BY <2>1, WantedFacts DEF Sound
  <2> QED  BY <2>2 DEF Wanted
<1> HIDE DEF W
<1>5. Reg(m, W) # NoReg /\ Reg(m, W).ptr = m /\ Reg(m, W).events = W
      /\ Reg(m, W) \in [ptr : WatchBlocks \union {NULL}, events : SUBSET AllEvents]
  BY <1>3, <1>4, IoWatchAssumption DEF Reg, NoReg
<1>6. /\ \A f \in Fds : f # fd[w] => reg'[f] = r[f]
      /\ reg'[fd[w]] = IF r[fd[w]] = NoReg THEN NoReg ELSE Reg(m, W)
  BY <1>2, <1>3 DEF Modify
<1>7. fd'[w] = NULL /\ want'[w] = {}
      /\ \A u : u \in WatchBlocks /\ u # w => fd'[u] = fd[u] /\ want'[u] = want[u]
  BY <1>2, <1>3 DEF Sound, TypeOK
<1>8. /\ slaves'[m] \in Seq(WatchBlocks) /\ IsInjective(slaves'[m])
      /\ ToSet(slaves'[m]) = ToSet(slaves[m]) \ {w}
      /\ \A v \in WatchBlocks : v # m => slaves'[v] = slaves[v]
  <2>1. slaves'[m] = Without(slaves[m], w) /\ \A v \in WatchBlocks : v # m => slaves'[v] = slaves[v]
    BY <1>2, <1>3
  <2> QED  BY <1>1, <1>3, <2>1, WithoutFacts
<1>9. slaves' \in [WatchBlocks -> Seq(WatchBlocks)]
  BY <1>2, <1>3, <1>8
<1>10. /\ reg' \in [Fds -> [ptr : WatchBlocks \union {NULL}, events : SUBSET AllEvents]]
       /\ fd' \in [WatchBlocks -> Fds \union {NULL}]
       /\ want' \in [WatchBlocks -> Interests \union {{}}]
       /\ deleted' \subseteq WatchBlocks
       /\ niowatch' \in Int
  <2>1. reg' \in [Fds -> [ptr : WatchBlocks \union {NULL}, events : SUBSET AllEvents]]
    <3> DEFINE T == [ptr : WatchBlocks \union {NULL}, events : SUBSET AllEvents]
    <3>1. r \in [Fds -> T] /\ Reg(m, W) \in T
      BY <1>5
    <3> HIDE DEF T
    <3>2. reg' \in [Fds -> T]
      BY <1>2, <3>1 DEF Modify
    <3> QED  BY <3>2 DEF T
  <2> QED  BY <1>2, <1>3, <2>1 DEF Sound, TypeOK
<1>11. \A v, u : v \in WatchBlocks =>
          (u \in ToSet(slaves'[v]) <=> u \in ToSet(slaves[v]) /\ u # w)
  BY <1>3, <1>8
<1>12. \A u : IsMaster(u)' <=> IsMaster(u)
  BY <1>2 DEF IsMaster
<1>13. \A v \in WatchBlocks : slaves'[v] # <<>> => IsMaster(v)'
  BY <1>3, <1>8, <1>12 DEF Sound, EachWatchOnce
<1>14. \A u : u \in Linked' <=> u \in Linked /\ u # w
  <2>1. \A u : u \in Linked' <=> IsMaster(u)' \/ \E v \in WatchBlocks : u \in ToSet(slaves'[v])
    BY <1>2, <1>3, <1>13, LinkedFactsNext
  <2>2. \A u : u \in Linked <=> IsMaster(u) \/ \E v \in WatchBlocks : u \in ToSet(slaves[v])
    BY PlaceFacts
  <2> QED  BY <1>2, <1>11, <1>12, <2>1, <2>2
<1>15. EachWatchOnce'
  <2>1. ASSUME NEW v \in WatchBlocks, NEW u \in ToSet(slaves'[v])
        PROVE  /\ fd'[u] = fd'[v] /\ ~IsMaster(u)' /\ u \notin deleted'
               /\ \A x \in WatchBlocks : u \in ToSet(slaves'[x]) => x = v
    <3>1. u \in ToSet(slaves[v]) /\ u # w
      BY <1>11, <2>1
    <3>2. /\ u \in WatchBlocks /\ ~IsMaster(u) /\ u \notin deleted /\ fd[u] = fd[v] /\ v # w
          /\ \A x \in WatchBlocks : u \in ToSet(slaves[x]) => x = v
      BY <1>2, <3>1, PlaceFacts, EmptyFacts DEF Sound, EachWatchOnce
    <3> QED  BY <1>2, <1>7, <1>11, <1>12, <3>1, <3>2
  <2>2. Linked' \union deleted' \subseteq allocated'
    BY <1>2, <1>3, <1>14 DEF Sound, EachWatchOnce
  <2>3. ToSet(iowatches') \cap deleted' = {}
    BY <1>2 DEF Sound, EachWatchOnce, IsMaster
  <2>4. \A v \in WatchBlocks : IsInjective(slaves'[v])
    BY <1>8 DEF Sound, EachWatchOnce
  <2> QED  BY <1>2, <1>3, <1>13, <2>1, <2>2, <2>3, <2>4 DEF EachWatchOnce, IsMaster
<1>16. Kernel'
  <2>1. \A u : IsMaster(u) => u \in WatchBlocks
    BY PlaceFacts DEF IsMaster
  <2> SUFFICES ASSUME NEW f \in Fds, reg'[f] # NoReg
               PROVE  f \in open /\ reg'[f].ptr \in ToSet(iowatches') /\ fd'[reg'[f].ptr] = f
    BY DEF Kernel, IsMaster
  <2>2. r[f] = reg[f] /\ reg[f] # NoReg
    BY <1>6, <2>1
  <2>3. f \in open /\ IsMaster(reg[f].ptr) /\ fd[reg[f].ptr] = f
    BY <2>2 DEF Sound, Kernel
  <2>4. CASE f = fd[w]
    BY <1>2, <1>3, <1>5, <1>6, <1>7, <2>2, <2>3, <2>4 DEF IsMaster
  <2>5. CASE f # fd[w]
    <3>1. reg'[f] = reg[f] /\ reg[f].ptr # w /\ reg[f].ptr \in WatchBlocks
      BY <1>2, <1>6, <2>1, <2>2, <2>3, <2>5
    <3> QED  BY <1>2, <1>7, <2>3, <3>1 DEF IsMaster
  <2> QED  BY <2>4, <2>5
<1>17. ASSUME Registered,
              \A f \in Fds : f \in open \ hup' => f \in open \ hup /\ r[f] = reg[f]
       PROVE  Registered'
  <2> SUFFICES ASSUME NEW u \in Linked', fd'[u] \in open \ hup'
               PROVE  LET q == reg'[fd'[u]] IN
                      /\ q # NoReg
                      /\ u = q.ptr \/ u \in ToSet(slaves'[q.ptr])
                      /\ want'[u] \subseteq q.events
    BY DEF Registered
  <2>1. u \in Linked /\ u # w /\ u \in WatchBlocks /\ fd'[u] = fd[u] /\ want'[u] = want[u]
        /\ fd[u] \in Fds /\ fd[u] \in open \ hup
    BY <1>7, <1>14, <1>17, PlaceFacts DEF Sound, Places, IsMaster
  <2>2. /\ reg[fd[u]] # NoReg /\ reg[fd[u]].ptr \in WatchBlocks /\ IsMaster(reg[fd[u]].ptr)
        /\ u = reg[fd[u]].ptr \/ u \in ToSet(slaves[reg[fd[u]].ptr])
        /\ want[u] \subseteq reg[fd[u]].events
    BY <1>17, <2>1, RegistrationFacts
  <2>3. r[fd[u]] = reg[fd[u]]
    BY <1>17, <2>1
  <2>4. CASE fd[u] = fd[w]
    <3>1. m = reg[fd[w]].ptr
      BY <1>3, <1>17, <2>1, <2>4, RegistrationFacts
    <3>2. u = m \/ u \in ToSet(slaves[m])
      BY <2>1, <2>2, <2>4, <3>1
    <3>3. reg'[fd[u]] = Reg(m, W)
      BY <1>6, <2>2, <2>3, <2>4
    <3> QED  BY <1>3, <1>4, <1>5, <1>11, <2>1, <3>2, <3>3
  <2>5. CASE fd[u] # fd[w]
    <3>1. reg'[fd[u]] = reg[fd[u]]
      BY <1>6, <2>1, <2>3, <2>5
    <3> QED  BY <1>11, <2>1, <2>2, <3>1
  <2> QED  BY <2>4, <2>5
<1> QED  BY <1>2, <1>3, <1>9, <1>10, <1>12, <1>14, <1>15, <1>16, <1>17 DEF Unlinked

\* A linked watch whose callback is gone is unlinked.
LEMMA DeleteFacts ==
    ASSUME Sound, NEW w \in Linked,
           NEW r \in [Fds -> [ptr : WatchBlocks \union {NULL}, events : SUBSET AllEvents]],
           DeleteIoWatch(w, r),
           \A f \in Fds : r[f] = reg[f] \/ r[f] = NoReg,
           UNCHANGED <<open, allocated>>
    PROVE  Unlinked(w, r)
<1>1. fd' = [fd EXCEPT ![w] = NULL] /\ niowatch' = niowatch - 1
  BY DEF DeleteIoWatch
<1>2. CASE DeleteAlone(w, r)
  BY <1>1, <1>2, DeleteAloneFacts
<1>3. CASE DeletePromote(w, r)
  BY <1>1, <1>3, DeletePromoteFacts
<1>4. CASE DeleteSlave(w, r)
  BY <1>1, <1>4, DeleteSlaveFacts
<1> QED  BY <1>2, <1>3, <1>4 DEF DeleteIoWatch

\* Where watches are after one was unlinked.
LEMMA UnlinkedPlaces ==
    ASSUME Sound, NEW w \in Linked, NEW r, Unlinked(w, r), DeleteIoWatch(w, r),
           ~cb[w], UNCHANGED <<fresh, open, cb, allocated>>
    PROVE  Places'
<1>1. \A u : u \in Linked => u \in WatchBlocks
  BY PlaceFacts DEF IsMaster
<1>2. \A u : u \in Linked' <=> u \in Linked /\ u # w
  BY DEF Unlinked
<1>3. \A u : u \in WatchBlocks /\ u # w => fd'[u] = fd[u]
  BY DEF Sound, TypeOK, DeleteIoWatch
<1> QED  BY <1>1, <1>2, <1>3 DEF Sound, TypeOK, Places

\* The event that is dispatched is of a master.
LEMMA CurrentFacts ==
    ASSUME Sound, events # <<>>
    PROVE  /\ Current \in WatchBlocks /\ IsMaster(Current) /\ Current \in Linked
           /\ slaves[Current] \in Seq(WatchBlocks) /\ IsInjective(slaves[Current])
           /\ ToSet(slaves[Current]) \subseteq Linked
           /\ NULL \notin WatchBlocks
<1>1. 1 \in DOMAIN events
  <2> DEFINE T == [w : WatchBlocks, events : SUBSET AllEvents]
  <2>1. events \in Seq(T)
    BY DEF Sound, TypeOK
  <2> HIDE DEF T
  <2> QED  BY <2>1, EmptySeq, LenProperties
<1>2. IsMaster(Current)
  BY <1>1 DEF Sound, Waiting, Current
<1>3. Current \in WatchBlocks /\ Current \in Linked
  BY <1>2, PlaceFacts DEF IsMaster
<1>4. slaves[Current] \in Seq(WatchBlocks) /\ IsInjective(slaves[Current])
  BY <1>3 DEF Sound, TypeOK, EachWatchOnce
<1> QED  BY <1>2, <1>3, <1>4, PlaceFacts, IoWatchAssumption

\* dispatch_slaves deletes the slave it is at, if need be, and goes on.
LEMMA NextSlaveStepInvariant ==
    ASSUME WatchInv, NextSlaveStep  PROVE WatchInv'
<1> USE DEF NextSlaveStep, kernvars, walkvars
<1>0. Sound /\ events # <<>> /\ s # NULL /\ s # n /\ s \in ToSet(slaves[Current])
      /\ n \in ToSet(slaves[Current]) \union {NULL}
  BY DEF WatchInv, Sound, Waiting, SlaveCursors
<1>1. Current' = Current /\ pc' = "slaves" /\ s' = n
  BY DEF Current
<1>2. evs' \subseteq AllEvents
  BY <1>0 DEF Sound, TypeOK, Mask
<1>3. ASSUME /\ slaves' \in [WatchBlocks -> Seq(WatchBlocks)] /\ EachWatchOnce'
             /\ n \in ToSet(slaves'[Current]) \union {NULL}
      PROVE  SlaveCursors' /\ s' \in WatchBlocks \union {NULL} /\ n' \in WatchBlocks \union {NULL}
  <2>1. /\ Current \in WatchBlocks /\ NULL \notin WatchBlocks
        /\ slaves'[Current] \in Seq(WatchBlocks) /\ IsInjective(slaves'[Current])
    BY <1>0, <1>3, CurrentFacts DEF EachWatchOnce
  <2>2. ToSet(slaves'[Current]) \subseteq WatchBlocks
    BY <2>1, MemberFacts
  <2>3. /\ n' \in ToSet(slaves'[Current]) \union {NULL}
        /\ n # NULL => n' # n
    BY <1>3, <2>1, NextSlaveFacts
  <2> QED  BY <1>1, <1>3, <2>2, <2>3 DEF SlaveCursors
<1>4. CASE cb[s]
  <2>1. EachWatchOnce' /\ Places' /\ Kernel' /\ (Registered => Registered')
    BY <1>4, LinksStay DEF WatchInv
  <2>2. Waiting'
    BY <1>0, <1>1, <1>4 DEF Sound, Waiting, IsMaster, linkvars
  <2>3. SlaveCursors' /\ s' \in WatchBlocks \union {NULL} /\ n' \in WatchBlocks \union {NULL}
    BY <1>0, <1>3, <1>4, <2>1 DEF Sound, TypeOK, linkvars
  <2>4. TypeOK'
    BY <1>0, <1>2, <1>4, <2>3 DEF Sound, TypeOK, linkvars
  <2> QED  BY <2>1, <2>2, <2>3, <2>4 DEF WatchInv, Sound
<1>5. CASE ~cb[s]
  <2>1. s \in Linked /\ DeleteIoWatch(s, reg)
    BY <1>0, <1>5, CurrentFacts
  <2>2. Unlinked(s, reg)
    BY <1>0, <2>1, DeleteFacts DEF Sound, TypeOK
  <2>3. Places'
    BY <1>0, <1>5, <2>1, <2>2, UnlinkedPlaces
  <2>4. Waiting'
    <3>1. \A i \in DOMAIN events : events[i].w # s
      BY <1>0, CurrentFacts DEF Sound, Waiting, EachWatchOnce
    <3>2. \A u : IsMaster(u) /\ u # s => IsMaster(u)'
      BY <2>2 DEF Unlinked
    <3> QED  BY <1>0, <1>1, <3>1, <3>2 DEF Sound, Waiting, IsMaster
  <2>5. n \in ToSet(slaves'[Current]) \union {NULL}
    <3>1. ASSUME n # NULL  PROVE n \in ToSet(slaves'[Current])
      <4>1. ~IsMaster(s) /\ MasterOf(s) = Current
        BY <1>0, CurrentFacts, PlaceFacts DEF Sound, EachWatchOnce, MasterOf, IsMaster
      <4>2. slaves' = [slaves EXCEPT ![Current] = Without(@, s)]
        BY <2>1, <4>1 DEF DeleteIoWatch, DeleteAlone, DeletePromote, DeleteSlave
      <4>3. slaves'[Current] = Without(slaves[Current], s)
        BY <1>0, <4>2, CurrentFacts DEF Sound, TypeOK
      <4>4. ToSet(slaves'[Current]) = ToSet(slaves[Current]) \ {s}
        BY <1>0, <4>3, CurrentFacts, WithoutFacts
      <4> QED  BY <1>0, <3>1, <4>4
    <3> QED  BY <3>1
  <2>6. SlaveCursors' /\ s' \in WatchBlocks \union {NULL} /\ n' \in WatchBlocks \union {NULL}
    BY <1>3, <2>2, <2>5 DEF Unlinked
  <2>7. TypeOK'
    BY <1>0, <1>2, <2>2, <2>6 DEF Sound, TypeOK, Unlinked
  <2>8. Registered => Registered'
    BY <2>2 DEF Unlinked
  <2> QED  BY <2>2, <2>3, <2>4, <2>6, <2>7, <2>8 DEF WatchInv, Sound, Unlinked
<1> QED  BY <1>4, <1>5

\* The events that are left name masters still, once the first is done.
LEMMA RestFacts ==
    ASSUME Sound, events # <<>>,
           events' = <<>> \/ events' = Tail(events),
           \A u : IsMaster(u) /\ u # Current => IsMaster(u)',
           pc' = IF events' = <<>> THEN "purge" ELSE "event"
    PROVE  Waiting' /\ events' \in Seq([w : WatchBlocks, events : SUBSET AllEvents])
<1> DEFINE T == [w : WatchBlocks, events : SUBSET AllEvents]
<1>1. events \in Seq(T)
  BY DEF Sound, TypeOK
<1>2. CASE events' = <<>>
  BY <1>2, EmptySeq DEF Waiting
<1>3. CASE events' = Tail(events)
  <2>1. events' \in Seq(T) /\ Len(events') = Len(events) - 1 /\ Len(events) \in Nat
        /\ DOMAIN events = 1 .. Len(events)
        /\ \A i \in 1 .. Len(events) - 1 : events'[i] = events[i + 1]
    <3> HIDE DEF T
    <3> QED  BY <1>1, <1>3, HeadTailProperties, LenProperties
  <2>2. DOMAIN events' = 1 .. Len(events) - 1
    <3> HIDE DEF T
    <3> QED  BY <2>1, LenProperties
  <2>3. \A i \in DOMAIN events' : i + 1 \in DOMAIN events /\ i + 1 # 1 /\ 1 \in DOMAIN events
    BY <2>1, <2>2
  <2>4. \A i \in DOMAIN events' : events'[i].w = events[i + 1].w
    BY <2>1, <2>2
  <2>5. \A i \in DOMAIN events' : IsMaster(events[i + 1].w) /\ events[i + 1].w # Current
    BY <2>3 DEF Sound, Waiting, Current
  <2>6. \A i, j \in DOMAIN events' : events'[i].w = events'[j].w => i = j
    <3> SUFFICES ASSUME NEW i \in DOMAIN events', NEW j \in DOMAIN events', events'[i].w = events'[j].w
                 PROVE i = j
      OBVIOUS
    <3>1. i + 1 = j + 1
      BY <2>3, <2>4 DEF Sound, Waiting
    <3> QED  BY <2>2, <3>1
  <2>7. \A i \in DOMAIN events' : events'[i].w \in ToSet(iowatches')
    BY <2>4, <2>5 DEF IsMaster
  <2> QED  BY <2>1, <2>6, <2>7 DEF Waiting, IsMaster
<1> QED  BY <1>2, <1>3

\* The registration of a descriptor that hung up is taken away, and a master
\* that was deleted is unlinked.
LEMMA EndEventInvariant ==
    ASSUME WatchInv, EndEvent  PROVE WatchInv'
<1> DEFINE w == Current
           h == Hup \in events[1].events
           r == IF h THEN Unregister(reg, fd[w]) ELSE reg
<1>0. Sound /\ events # <<>> /\ w \in WatchBlocks /\ w \in Linked /\ IsMaster(w)
  BY CurrentFacts DEF WatchInv, Sound, Waiting, EndEvent
<1>1. /\ hup' = IF h /\ reg[fd[w]] # NoReg /\ reg[fd[w]].ptr = w THEN hup \union {fd[w]} ELSE hup
      /\ IF cb[w] THEN reg' = r /\ UNCHANGED <<fd, want, iowatches, slaves, deleted, niowatch>>
                  ELSE DeleteIoWatch(w, r)
      /\ events' = <<>> \/ events' = Tail(events)
      /\ pc' = IF events' = <<>> THEN "purge" ELSE "event"
      /\ UNCHANGED <<fresh, open, cb, allocated, nevent, evs, s, n, quit>>
  BY DEF EndEvent, walkvars
<1>2. fd[w] \in Fds \ fresh
  BY <1>0 DEF Sound, Places
<1> HIDE DEF w, h
<1>3. /\ r \in [Fds -> [ptr : WatchBlocks \union {NULL}, events : SUBSET AllEvents]]
      /\ \A f \in Fds : r[f] = IF h /\ f = fd[w] THEN NoReg ELSE reg[f]
  BY <1>0, <1>2 DEF Sound, TypeOK, Unregister, NoReg
<1> HIDE DEF r
<1>4. hup \subseteq hup' /\ hup' \subseteq open
  BY <1>0, <1>1, <1>2 DEF Sound, TypeOK, Kernel
<1>5. Registered => \A f \in Fds : f \in open \ hup' => f \in open \ hup /\ r[f] = reg[f]
  <2> SUFFICES ASSUME Registered, NEW f \in Fds, f \in open \ hup'
               PROVE  r[f] = reg[f]
    BY <1>4
  <2>1. CASE h /\ f = fd[w]
    BY <1>0, <1>1, <1>4, <2>1, RegistrationFacts
  <2> QED  BY <1>3, <2>1
<1>6. CASE cb[w]
  <2>1. reg' = r /\ UNCHANGED <<fd, want, iowatches, slaves, deleted, niowatch, cb, allocated>>
    BY <1>1, <1>6
  <2>2. EachWatchOnce'
    BY <1>0, <2>1 DEF Sound, EachWatchOnce, IsMaster, Linked
  <2>3. Places'
    BY <1>0, <1>1, <2>1 DEF Sound, Places, Linked
  <2>4. Kernel'
    BY <1>0, <1>1, <1>3, <2>1 DEF Sound, Kernel, IsMaster
  <2>5. Registered => Registered'
    <3>1. \A u \in Linked : fd[u] \in Fds
      BY <1>0 DEF Sound, Places
    <3> QED  BY <1>1, <1>5, <2>1, <3>1 DEF Registered, Linked
  <2>6. Waiting' /\ events' \in Seq([w : WatchBlocks, events : SUBSET AllEvents])
    BY <1>0, <1>1, <2>1, RestFacts DEF IsMaster
  <2>7. TypeOK'
    BY <1>0, <1>1, <1>3, <1>4, <2>1, <2>6 DEF Sound, TypeOK
  <2>8. SlaveCursors'
    BY <1>1 DEF SlaveCursors
  <2> QED  BY <2>2, <2>3, <2>4, <2>5, <2>6, <2>7, <2>8 DEF WatchInv, Sound
<1>7. CASE ~cb[w]
  <2>1. DeleteIoWatch(w, r)
    BY <1>1, <1>7
  <2>2. Unlinked(w, r)
    <3>1. \A f \in Fds : r[f] = reg[f] \/ r[f] = NoReg
      BY <1>3
    <3> QED  BY <1>0, <1>1, <1>3, <2>1, <3>1, DeleteFacts
  <2>3. Places'
    BY <1>0, <1>1, <1>7, <2>1, <2>2, UnlinkedPlaces
  <2>4. Registered => Registered'
    BY <1>5, <2>2 DEF Unlinked
  <2>5. Waiting' /\ events' \in Seq([w : WatchBlocks, events : SUBSET AllEvents])
    BY <1>0, <1>1, <2>2, RestFacts DEF Unlinked, w
  <2>6. TypeOK'
    BY <1>0, <1>1, <1>4, <2>2, <2>5 DEF Sound, TypeOK, Unlinked
  <2>7. SlaveCursors'
    BY <1>1 DEF SlaveCursors
  <2> QED  BY <2>2, <2>3, <2>4, <2>5, <2>6, <2>7 DEF WatchInv, Sound, Unlinked
<1> QED  BY <1>6, <1>7

-----------------------------------------------------------------------------
(* Watches are freed.                                                       *)

\* The watches on ml->deleted are freed: none of them is linked.
LEMMA PurgeDeletedInvariant ==
    ASSUME WatchInv, PurgeDeleted  PROVE WatchInv'
<1> USE DEF PurgeDeleted, Free, kernvars, walkvars
<1>0. Sound
  BY DEF WatchInv
<1>1. TypeOK'
  BY <1>0 DEF Sound, TypeOK
<1>2. \A u \in Linked : u \in WatchBlocks /\ u \notin deleted
  BY <1>0, PlaceFacts DEF Sound, EachWatchOnce, IsMaster
<1>3. Linked' = Linked /\ \A u : IsMaster(u)' <=> IsMaster(u)
  BY DEF Linked, IsMaster
<1>4. \A u \in Linked : fd'[u] = fd[u] /\ want'[u] = want[u]
  BY <1>2
<1>5. EachWatchOnce'
  <2>1. ASSUME NEW v \in WatchBlocks, NEW u \in ToSet(slaves[v])
        PROVE  fd'[u] = fd'[v]
    <3>1. u \in Linked /\ v \in Linked
      BY <1>0, <2>1, PlaceFacts, EmptyFacts
    <3> QED  BY <1>0, <1>4, <3>1 DEF Sound, EachWatchOnce
  <2>2. Linked' \union deleted' \subseteq allocated'
    BY <1>0, <1>2, <1>3 DEF Sound, EachWatchOnce
  <2> QED  BY <1>0, <1>3, <2>1, <2>2 DEF Sound, EachWatchOnce
<1>6. Places'
  <2>1. \A u \in allocated' : cb'[u] => cb[u] /\ u \in allocated
    BY <1>0 DEF Sound, TypeOK
  <2> QED  BY <1>0, <1>3, <1>4, <2>1 DEF Sound, Places
<1>7. Kernel'
  <2>1. \A u : IsMaster(u) => u \in Linked
    BY <1>0, PlaceFacts
  <2> QED  BY <1>0, <1>3, <1>4, <2>1 DEF Sound, Kernel
<1>8. Waiting' /\ SlaveCursors'
  BY <1>0, <1>3 DEF Sound, Waiting, SlaveCursors
<1>9. Registered => Registered'
  BY <1>3, <1>4 DEF Registered
<1> QED  BY <1>1, <1>5, <1>6, <1>7, <1>8, <1>9 DEF WatchInv, Sound

\* All watches that are linked or deleted are freed with the loop.
LEMMA DestroyInvariant ==
    ASSUME WatchInv, Destroy  PROVE WatchInv'
<1> USE DEF Destroy, Free, kernvars, walkvars
<1>0. Sound
  BY DEF WatchInv
<1>1. <<>> \in Seq(WatchBlocks) /\ ToSet(<<>>) = {} /\ IsInjective(<<>>)
  BY EmptySeq, EmptyFacts
<1>2. TypeOK'
  BY <1>0, <1>1 DEF Sound, TypeOK, NoReg
<1>3. Linked' = {} /\ \A u : ~IsMaster(u)'
  BY <1>1 DEF Linked, IsMaster
<1>4. EachWatchOnce'
  BY <1>1, <1>3 DEF EachWatchOnce, IsMaster
<1>5. Places'
  <2>1. \A u \in allocated' : u \in WatchBlocks /\ u \in allocated /\ u \notin Linked
    BY <1>0 DEF Sound, TypeOK
  <2>2. \A u \in allocated' : ~cb'[u]
    BY <1>0, <2>1 DEF Sound, Places
  <2> QED  BY <1>3, <2>2 DEF Places
<1>6. Kernel' /\ Registered'
  BY <1>3 DEF Kernel, Registered
<1>7. events = <<>>
  BY <1>0 DEF Sound, Waiting
<1>8. Waiting' /\ SlaveCursors'
  BY <1>7 DEF Waiting, SlaveCursors
<1> QED  BY <1>2, <1>4, <1>5, <1>6, <1>8 DEF WatchInv, Sound

-----------------------------------------------------------------------------
(* The invariant and what follows.                                          *)

\* A loop that was just created is sound.
LEMMA WatchInitInv == Init => WatchInv
<1> SUFFICES ASSUME Init  PROVE WatchInv
  OBVIOUS
<1> USE DEF Init
<1>1. /\ <<>> \in Seq(WatchBlocks) /\ ToSet(<<>>) = {} /\ IsInjective(<<>>)
      /\ <<>> \in Seq([w : WatchBlocks, events : SUBSET AllEvents])
  BY EmptySeq, EmptyFacts
<1>2. TypeOK
  <2>1. /\ reg \in [Fds -> [ptr : WatchBlocks \union {NULL}, events : SUBSET AllEvents]]
        /\ fd \in [WatchBlocks -> Fds \union {NULL}]
        /\ want \in [WatchBlocks -> Interests \union {{}}]
        /\ cb \in [WatchBlocks -> BOOLEAN]
    BY DEF NoReg
  <2>2. iowatches \in Seq(WatchBlocks) /\ slaves \in [WatchBlocks -> Seq(WatchBlocks)]
        /\ events \in Seq([w : WatchBlocks, events : SUBSET AllEvents])
    BY <1>1
  <2>3. /\ fresh \subseteq Fds /\ open \subseteq Fds \ fresh /\ hup \subseteq open
        /\ allocated \subseteq WatchBlocks /\ deleted \subseteq WatchBlocks
        /\ evs \subseteq AllEvents /\ s = NULL /\ n = NULL
        /\ niowatch \in Int /\ nevent \in Nat /\ pc = "idle"
    OBVIOUS
  <2>4. quit \in BOOLEAN
    OBVIOUS
  <2> HIDE DEF Init
  <2> QED  BY <2>1, <2>2, <2>3, <2>4 DEF TypeOK
<1>3. Linked = {} /\ \A u : ~IsMaster(u)
  BY <1>1 DEF Linked, IsMaster
<1>4. EachWatchOnce
  BY <1>1, <1>3 DEF EachWatchOnce
<1>5. Places /\ Kernel /\ Registered /\ Waiting /\ SlaveCursors
  BY <1>3 DEF Places, Kernel, Registered, Waiting, SlaveCursors
<1> QED  BY <1>2, <1>4, <1>5 DEF WatchInv, Sound

\* Every step preserves the invariant.
LEMMA WatchNextInv == WatchInv /\ [Next]_vars => WatchInv'
<1> SUFFICES ASSUME WatchInv, [Next]_vars  PROVE WatchInv'
  OBVIOUS
<1>1. CASE Client
  BY <1>1, OpenInvariant, CloseInvariant, AddMasterInvariant, AddSlaveInvariant,
     DelIoWatchInvariant, QuietInvariant DEF Client
<1>2. CASE Poll
  BY <1>2, PollInvariant
<1>3. CASE Dispatch
  BY <1>3, StartDispatchInvariant, StartSlavesInvariant, QuietInvariant,
     NextSlaveStepInvariant, EndEventInvariant, PurgeDeletedInvariant DEF Dispatch
<1>4. CASE Destroy
  BY <1>4, DestroyInvariant
<1>5. CASE UNCHANGED vars
  <2> USE DEF vars, kernvars, linkvars, walkvars
  <2>1. TypeOK' /\ Waiting' /\ SlaveCursors'
    BY <1>5 DEF WatchInv, Sound, TypeOK, Waiting, SlaveCursors, IsMaster, Current
  <2>2. EachWatchOnce' /\ Places' /\ Kernel' /\ (Registered => Registered')
    BY <1>5, LinksStay DEF WatchInv
  <2> QED  BY <2>1, <2>2 DEF WatchInv, Sound
<1> QED  BY <1>1, <1>2, <1>3, <1>4, <1>5 DEF Next

\* The invariant holds in every reachable state.
LEMMA WatchInvAlways == Spec => []WatchInv
BY WatchInitInv, WatchNextInv, PTL DEF Spec

\* A sound state has no dangling pointer and no cursor out of its ring.
LEMMA SoundImplies ==
    WatchInv => TypeOK /\ EachWatchOnce /\ NoDanglingPointer /\ WalkStaysInRing
BY DEF WatchInv, Sound, Kernel, Waiting, SlaveCursors, NoDanglingPointer, WalkStaysInRing

\* Registered watches are what epoll knows of the live ones.
LEMMA RegisteredImplies ==
    ASSUME Sound, Registered  PROVE LiveWatchIsRegistered
<1> SUFFICES ASSUME NEW w \in allocated, cb[w], fd[w] \notin hup
             PROVE  LET r == reg[fd[w]]
                    IN  /\ r.ptr # NULL
                        /\ w = r.ptr \/ w \in ToSet(slaves[r.ptr])
                        /\ want[w] \subseteq r.events
  BY DEF LiveWatchIsRegistered
<1>1. w \in Linked /\ fd[w] \in open \ hup
  BY DEF Sound, Places
<1> QED  BY <1>1, RegistrationFacts, IoWatchAssumption

\* Whatever descriptor numbers are given to other files, no watch is in two
\* places, epoll and the events it returned point at masters, and
\* dispatch_slaves stays in the ring it walks.
THEOREM ListsSound ==
    Spec => [](TypeOK /\ EachWatchOnce /\ NoDanglingPointer /\ WalkStaysInRing)
BY WatchInvAlways, SoundImplies, PTL

\* When no number of a closed descriptor is opened again, every live watch is
\* registered, besides, for what it waits for.  The hypothesis is needed: a
\* deleted master that is not unlinked yet keeps the number, and unlinking it
\* takes the registration away from the watch of the new file.
THEOREM WatchesAreSound ==
    ASSUME FdReuse = FALSE  PROVE Spec => []WatchesSound
<1>1. WatchInv => WatchesSound
  BY SoundImplies, RegisteredImplies DEF WatchInv, WatchesSound
<1> QED  BY <1>1, WatchInvAlways, PTL

------------------------------------------------------------------------------
(* SuperloopPumps, for a clock of any length.  What is registered with the  *)
(* superloop comes and goes together: without this a timer that goes off    *)
(* could enable an idle callback that is gone.                              *)

Types == /\ now \in 0 .. MaxTime /\ due \in 0 .. Never /\ armed \in 0 .. Never
         /\ super_ops \in BOOLEAN /\ iow \in BOOLEAN /\ timer \in BOOLEAN /\ work \in BOOLEAN
         /\ enabled \in BOOLEAN /\ deferred \in BOOLEAN /\ io \in BOOLEAN /\ quitting \in BOOLEAN
         /\ crashed \in BOOLEAN /\ old \in BOOLEAN /\ outside \in BOOLEAN

Together == timer = work /\ iow = work

SuperInv == Types /\ Together /\ SuperloopPumps

\* The foreign timer is never later than what the loop has to do.
LEMMA TimeoutFacts ==
    ASSUME MaxTime \in Nat, now \in 0 .. MaxTime, NEW d \in 0 .. Never, NEW list \in BOOLEAN
    PROVE  /\ Timeout(d, list) \in 0 .. Never
           /\ d >= now => Timeout(d, list) <= d
           /\ list => Timeout(d, list) <= now
BY DEF Timeout, Never

\* Times, and the time that never comes.
LEMMA NeverFacts ==
    ASSUME MaxTime \in Nat
    PROVE  Never \in Nat /\ Never \in 0 .. Never /\ 0 \in 0 .. MaxTime /\ 1 .. MaxTime \subseteq 0 .. Never
BY DEF Never

\* No superloop is set yet.
LEMMA SuperInitInv == MaxTime \in Nat /\ SuperInit => SuperInv
BY NeverFacts DEF SuperInit, SuperInv, Types, Together, SuperloopPumps

\* An iteration leaves the superloop with all that it needs, or with nothing.
LEMMA WorkCbInv ==
    ASSUME MaxTime \in Nat, SuperInv, WorkCb
    PROVE  SuperInv'
<1> USE DEF SuperInv
<1>1. /\ super_ops' = super_ops /\ now' = now /\ crashed' = crashed /\ old' = old
      /\ work = TRUE /\ enabled' = FALSE /\ outside' = FALSE /\ deferred' \in BOOLEAN
      /\ io' \in BOOLEAN /\ quitting' \in BOOLEAN
  BY DEF WorkCb, Types
<1>2. now \in Int /\ due' \in 0 .. Never /\ due' > now
  BY DEF WorkCb, Types, Never
<1>3. CASE quitting'
  <2>1. iow' = FALSE /\ timer' = FALSE /\ work' = FALSE /\ armed' = Never
    BY <1>3 DEF WorkCb
  <2>2. Types'
    BY <1>1, <1>2, <1>3, <2>1, NeverFacts DEF Types
  <2> QED  BY <1>1, <1>3, <2>1, <2>2 DEF Together, SuperloopPumps
<1>4. CASE ~quitting'
  <2>1. armed' = Timeout(due', deferred') /\ UNCHANGED <<iow, timer, work>>
    BY <1>4 DEF WorkCb
  <2>2. armed' \in 0 .. Never /\ armed' <= due' /\ (deferred' => armed' <= now)
    BY <1>1, <1>2, <2>1, TimeoutFacts DEF Types
  <2>3. Types'
    BY <1>1, <1>2, <2>1, <2>2 DEF Types
  <2> QED  BY <1>1, <2>1, <2>2, <2>3 DEF Together, SuperloopPumps
<1> QED  BY <1>3, <1>4

\* Every step of the superloop and of who uses the loop.
LEMMA SuperNextInv ==
    ASSUME MaxTime \in Nat, SuperInv, [SuperNext]_superVars
    PROVE  SuperInv'
<1> USE DEF SuperInv, Types, Together, SuperloopPumps
<1>1. CASE SetSuperloop
  <2>0. /\ super_ops = FALSE /\ outside' = FALSE /\ old' \in BOOLEAN
        /\ UNCHANGED <<now, due, deferred, io, quitting, crashed>>
    BY <1>1 DEF SetSuperloop, inside
  <2>1. CASE /\ super_ops' = TRUE /\ iow' = TRUE /\ timer' = TRUE /\ work' = TRUE /\ enabled' = TRUE
             /\ armed' = Timeout(due, deferred)
    <3>1. armed' \in 0 .. Never
      BY <2>1, TimeoutFacts
    <3> QED  BY <2>0, <2>1, <3>1
  <2>2. CASE UNCHANGED <<super_ops, iow, timer, work, enabled, armed>>
    BY <2>0, <2>2
  <2> QED  BY <1>1, <2>1, <2>2 DEF SetSuperloop
<1>2. CASE ClearSuperloop
  BY <1>2, NeverFacts DEF ClearSuperloop, inside
<1>3. CASE OldCb
  BY <1>3 DEF OldCb, registered, inside
<1>4. CASE IoCb
  BY <1>4 DEF IoCb, registered, inside
<1>5. CASE TimerCb
  BY <1>5, NeverFacts DEF TimerCb, registered, inside
<1>6. CASE WorkCb
  BY <1>6, WorkCbInv
<1>7. CASE EnableDeferred
  BY <1>7 DEF EnableDeferred, registered
<1>8. CASE QuitLoop
  BY <1>8 DEF QuitLoop, registered
<1>9. CASE Tick
  BY <1>9 DEF Tick, registered, inside
<1>10. CASE BecomesReadable
  BY <1>10 DEF BecomesReadable, registered
<1>11. ASSUME NEW t \in 1 .. MaxTime, AddTimer(t) PROVE SuperInv'
  BY <1>11, NeverFacts DEF AddTimer, registered
<1>12. CASE UNCHANGED superVars
  BY <1>12 DEF superVars
<1> QED
  BY <1>1, <1>2, <1>3, <1>4, <1>5, <1>6, <1>7, <1>8, <1>9, <1>10, <1>11, <1>12 DEF SuperNext

\* Whatever comes first, an event, a timer or a deferred callback, and
\* whenever the superloop is set, cleared and set again: as long as nothing
\* more is asked of the loop from outside of its iterations, something that is
\* still registered will run the next one in time.
THEOREM SuperloopIsPumped ==
    ASSUME MaxTime \in Nat
    PROVE  SuperSpec => []SuperloopPumps
<1>1. SuperInit => SuperInv
  BY SuperInitInv
<1>2. SuperInv /\ [SuperNext]_superVars => SuperInv'
  BY SuperNextInv
<1>3. SuperInv => SuperloopPumps
  BY DEF SuperInv
<1> QED  BY <1>1, <1>2, <1>3, PTL DEF SuperSpec

------------------------------------------------------------------------------
(* Handlers of signals. *)

(* The handlers that have not been called yet.                              *)
Uncalled == {h \in owed : calls[h] = 0}

(* Handlers are linked, marked and unlinked in this order.                  *)
HandlerLists ==
    /\ sighandlers \in Seq(Handlers) /\ IsInjective(sighandlers)
    /\ ToSet(sighandlers) = added \ freed
    /\ freed \subseteq removed /\ removed \subseteq added /\ added \subseteq Handlers

(* What is blocked is what is handled, but in the middle of recalc_sigmask. *)
Masks ==
    /\ sigmask \subseteq fdmask /\ pending \subseteq blocked /\ pending \subseteq Signals
    /\ lost # {} \/ unblocked => removed # {}
    /\ ~unblocked => blocked = sigmask /\ sigmask = SignalsOf(Live)
    /\ unblocked  => blocked = {} /\ SignalsOf(Live) \subseteq sigmask

(* The walk of dispatch_signals is at a linked handler, the next one is the *)
(* one behind it, and what has not been called yet is not before it; when   *)
(* there is no next one, nothing behind it was there when the signal came.  *)
Cursors(q, c, x, U) ==
    /\ c = Nobody => x = Nobody /\ U = {}
    /\ c # Nobody =>
          \E i \in DOMAIN q :
             /\ q[i] = c
             /\ IF x = Nobody THEN U \subseteq {c}
                ELSE /\ i + 1 \in DOMAIN q /\ q[i + 1] = x
                     /\ \A h \in U : \E j \in DOMAIN q : i <= j /\ q[j] = h

Walk ==
    /\ sig \in [signum : Signals \union {"none"}, cur : Handlers \union {Nobody}, next : Handlers \union {Nobody}]
    /\ calls \in [Handlers -> {0, 1}]
    /\ owed \subseteq Live /\ \A h \in owed : Signum[h] = sig.signum
    /\ Cursors(sighandlers, sig.cur, sig.next, Uncalled)

SigInv == HandlerLists /\ Masks /\ Walk

\* No handler is there yet.
LEMMA SigInitInv == SigInit => SigInv
<1> SUFFICES ASSUME SigInit PROVE SigInv
  OBVIOUS
<1>1. sighandlers = <<>> /\ ToSet(sighandlers) = {}
  BY DEF SigInit, ToSet
<1>2. Live = {} /\ SignalsOf(Live) = {}
  BY <1>1 DEF Live, SignalsOf
<1>3. HandlerLists
  BY <1>1 DEF SigInit, HandlerLists, IsInjective
<1>4. Masks
  BY <1>2 DEF SigInit, Masks
<1>5. Walk
  BY DEF SigInit, Walk, Idle, Uncalled, Cursors
<1> QED  BY <1>3, <1>4, <1>5 DEF SigInv

\* A step that leaves the lists and the dispatching alone leaves them right.
LEMMA WalkStays ==
    ASSUME Walk, UNCHANGED <<sighandlers, removed, sig, calls, owed>>
    PROVE  Walk'
BY DEF Walk, Uncalled, Live

\* mrp_add_sighandler: behind the one the walk has looked up.
LEMMA AddSighandlerInv ==
    ASSUME SigInv, NEW h \in Handlers, AddSighandler(h)
    PROVE  SigInv'
<1>1. /\ sighandlers' = Append(sighandlers, h) /\ added' = added \union {h} /\ h \notin added
      /\ UNCHANGED <<removed, freed, sig, calls, owed, lost, unblocked, pending>> /\ ~unblocked
      /\ sigmask' = sigmask \union {Signum[h]} /\ fdmask' = sigmask' /\ blocked' = blocked \union sigmask'
  BY DEF AddSighandler, walk
<1>2. /\ sighandlers \in Seq(Handlers) /\ IsInjective(sighandlers) /\ h \notin ToSet(sighandlers)
      /\ ToSet(sighandlers) = added \ freed /\ h \notin removed /\ h \notin freed
  BY <1>1 DEF SigInv, HandlerLists
<1>3. /\ sighandlers' \in Seq(Handlers) /\ IsInjective(sighandlers')
      /\ ToSet(sighandlers') = ToSet(sighandlers) \union {h}
      /\ Len(sighandlers') = Len(sighandlers) + 1
      /\ \A i \in 1 .. Len(sighandlers) : sighandlers'[i] = sighandlers[i]
  BY <1>1, <1>2, AppendFacts
<1>4. Live' = Live \union {h} /\ SignalsOf(Live') = SignalsOf(Live) \union {Signum[h]}
  BY <1>1, <1>2, <1>3 DEF Live, SignalsOf
<1>5. HandlerLists'
  BY <1>1, <1>2, <1>3 DEF SigInv, HandlerLists
<1>6. Masks'
  BY <1>1, <1>4 DEF SigInv, Masks
<1>7. Walk'
  <2>1. DOMAIN sighandlers = 1 .. Len(sighandlers) /\ DOMAIN sighandlers' = 1 .. Len(sighandlers) + 1
        /\ Len(sighandlers) \in Nat
    BY <1>2, <1>3, LenProperties
  <2>2. \A i \in DOMAIN sighandlers : i \in DOMAIN sighandlers' /\ sighandlers'[i] = sighandlers[i]
    BY <1>3, <2>1
  <2>3. Uncalled' = Uncalled
    BY <1>1 DEF Uncalled
  <2> QED  BY <1>1, <1>4, <2>2, <2>3 DEF SigInv, Walk, Cursors
<1> QED  BY <1>5, <1>6, <1>7 DEF SigInv

\* mrp_del_sighandler: what was to be called for the signal is not any more.
LEMMA DelSighandlerInv ==
    ASSUME SigInv, NEW h \in Handlers, DelSighandler(h)
    PROVE  SigInv'
<1>1. /\ h \in Live /\ removed' = removed \union {h} /\ owed' = owed \ {h} /\ ~unblocked /\ unblocked'
      /\ blocked' = blocked \ sigmask /\ pending' = pending \ sigmask
      /\ UNCHANGED <<sighandlers, added, freed, sigmask, fdmask, sig, calls>>
  BY DEF DelSighandler
<1>2. Live' = Live \ {h} /\ SignalsOf(Live') \subseteq SignalsOf(Live)
  BY <1>1 DEF Live, SignalsOf
<1>3. HandlerLists'
  BY <1>1 DEF SigInv, HandlerLists, Live
<1>4. Masks'
  BY <1>1, <1>2 DEF SigInv, Masks
<1>5. Uncalled' \subseteq Uncalled
  BY <1>1 DEF Uncalled
<1>6. Walk'
  BY <1>1, <1>2, <1>5 DEF SigInv, Walk, Cursors
<1> QED  BY <1>3, <1>4, <1>6 DEF SigInv

\* The walk starts at the first handler.
LEMMA ReadSignalInv ==
    ASSUME SigInv, ReadSignal
    PROVE  SigInv'
<1>1. PICK g \in pending \intersect fdmask :
         /\ pending' = pending \ {g}
         /\ sig' = [signum |-> g, cur |-> IF sighandlers = <<>> THEN Nobody ELSE sighandlers[1],
                    next |-> IF Len(sighandlers) > 1 THEN sighandlers[2] ELSE Nobody]
         /\ owed' = {h \in Live : Signum[h] = g}
  BY DEF ReadSignal
<1>2. calls' = [h \in Handlers |-> 0] /\ UNCHANGED <<sighandlers, added, removed, freed, sigmask, fdmask, blocked, lost, unblocked>>
  BY DEF ReadSignal, lists, masks
<1>3. /\ sighandlers \in Seq(Handlers) /\ Len(sighandlers) \in Nat /\ DOMAIN sighandlers = 1 .. Len(sighandlers)
      /\ \A i \in DOMAIN sighandlers : sighandlers[i] \in Handlers
  BY LenProperties, ElementOfSeq DEF SigInv, HandlerLists
<1>4. Live' = Live /\ HandlerLists' /\ Masks'
  BY <1>1, <1>2 DEF SigInv, HandlerLists, Masks, Live
<1>5. Walk'
  <2>1. owed' \subseteq Live' /\ \A h \in owed' : Signum[h] = g
    BY <1>1, <1>4
  <2>2. CASE sighandlers = <<>>
    <3>1. Live = {}
      BY <2>2, <1>3, EmptySeq DEF Live, ToSet
    <3>2. sig' = [signum |-> g, cur |-> Nobody, next |-> Nobody]
      BY <1>1, <2>2, EmptySeq
    <3>3. Uncalled' = {}
      BY <2>1, <1>4, <3>1 DEF Uncalled
    <3> QED  BY <1>1, <1>2, <2>1, <3>2, <3>3 DEF Walk, SigInv, Masks, Cursors
  <2>3. CASE sighandlers # <<>>
    <3>1. 1 \in DOMAIN sighandlers /\ sighandlers[1] \in Handlers /\ Len(sighandlers) # 0
      BY <1>3, <2>3, EmptySeq
    <3>2. /\ sig' = [signum |-> g, cur |-> sighandlers[1],
                     next |-> IF Len(sighandlers) > 1 THEN sighandlers[2] ELSE Nobody]
          /\ sighandlers[1] # Nobody
      BY <1>1, <2>3, <3>1, SigAssumption DEF Nobody
    <3>3. \A h \in Uncalled' : \E j \in DOMAIN sighandlers : 1 <= j /\ sighandlers[j] = h
      <4>1. \A h \in Uncalled' : \E j \in DOMAIN sighandlers : sighandlers[j] = h
        BY <1>4, <2>1 DEF Uncalled, Live, ToSet
      <4> QED  BY <4>1, <1>3
    <3>4. CASE Len(sighandlers) > 1
      <4>1. 2 \in DOMAIN sighandlers /\ sighandlers[2] \in Handlers
        BY <1>3, <3>4
      <4>2. sighandlers[2] # Nobody /\ sig'.cur = sighandlers[1] /\ sig'.next = sighandlers[2] /\ sig'.signum = g
        BY <3>2, <3>4, <4>1, SigAssumption DEF Nobody
      <4>3. Cursors(sighandlers, sighandlers[1], sighandlers[2], Uncalled')
        <5>1. PICK i \in DOMAIN sighandlers : i = 1 /\ i + 1 = 2
          BY <3>1
        <5>2. /\ i + 1 \in DOMAIN sighandlers /\ sighandlers[i + 1] = sighandlers[2]
              /\ \A h \in Uncalled' : \E j \in DOMAIN sighandlers : i <= j /\ sighandlers[j] = h
          BY <3>3, <4>1, <5>1
        <5>3. sighandlers[i] = sighandlers[1]
          BY <5>1
        <5> QED  BY <3>2, <4>2, <5>2, <5>3 DEF Cursors
      <4>4. sig' = [signum |-> g, cur |-> sighandlers[1], next |-> sighandlers[2]]
        BY <3>2, <3>4
      <4> QED  BY <1>1, <1>2, <2>1, <3>1, <4>1, <4>3, <4>4 DEF Walk, SigInv, Masks
    <3>5. CASE ~(Len(sighandlers) > 1)
      <4>1. DOMAIN sighandlers = {1}
        BY <1>3, <3>1, <3>5
      <4>2. Uncalled' \subseteq {sighandlers[1]}
        BY <3>3, <4>1
      <4>3. sig' = [signum |-> g, cur |-> sighandlers[1], next |-> Nobody]
        BY <3>2, <3>5
      <4> QED  BY <1>1, <1>2, <2>1, <3>1, <3>2, <4>1, <4>2, <4>3 DEF Walk, SigInv, Masks, Cursors
    <3> QED  BY <3>4, <3>5
  <2> QED  BY <2>2, <2>3
<1> QED  BY <1>4, <1>5 DEF SigInv

\* A handler has had its turn.
LEMMA CallHandlerInv ==
    ASSUME SigInv, CallHandler
    PROVE  SigInv'
<1>1. /\ calls' = [calls EXCEPT ![sig.cur] = 1] /\ sig.cur \in Live
      /\ UNCHANGED <<sighandlers, added, removed, freed, sigmask, fdmask, blocked, pending, sig, owed, lost, unblocked>>
  BY DEF CallHandler, lists, masks
<1>2. Live' = Live /\ HandlerLists' /\ Masks'
  BY <1>1 DEF SigInv, HandlerLists, Masks, Live
<1>3. calls' \in [Handlers -> {0, 1}] /\ Uncalled' \subseteq Uncalled
  <2>1. calls \in [Handlers -> {0, 1}]
    BY DEF SigInv, Walk
  <2>2. calls' \in [Handlers -> {0, 1}] /\ \A h \in Handlers : calls'[h] = 0 => calls[h] = 0
    BY <1>1, <2>1
  <2>3. owed \subseteq Handlers
    BY DEF SigInv, Walk, HandlerLists, Live
  <2> QED  BY <1>1, <2>2, <2>3 DEF Uncalled
<1>4. Walk'
  BY <1>1, <1>2, <1>3 DEF SigInv, Walk, Cursors
<1> QED  BY <1>2, <1>4 DEF SigInv

\* The walk moves on; the handler it leaves was called, or is not to be.
LEMMA ProceedInv ==
    ASSUME SigInv, Proceed
    PROVE  SigInv'
<1> DEFINE c == sig.cur
           q == sighandlers
           p == Place(c)
<1>1. /\ sig.cur # Nobody /\ (sig.cur \in removed \/ Signum[sig.cur] # sig.signum \/ calls[sig.cur] > 0)
      /\ sighandlers' = IF sig.cur \in removed THEN RemoveAt(sighandlers, Place(sig.cur)) ELSE sighandlers
      /\ freed' = freed \union ({sig.cur} \intersect removed)
      /\ sig' = [sig EXCEPT !.cur = sig.next, !.next = IF sig.next = Nobody THEN Nobody ELSE Follower(sig.next)]
      /\ UNCHANGED <<added, removed, sigmask, fdmask, blocked, pending, calls, owed, lost, unblocked>>
  BY DEF Proceed, masks
<1>2. /\ q \in Seq(Handlers) /\ IsInjective(q) /\ Len(q) \in Nat /\ DOMAIN q = 1 .. Len(q)
      /\ \A j \in DOMAIN q : q[j] \in Handlers
  BY LenProperties, ElementOfSeq DEF SigInv, HandlerLists
<1>3. PICK i \in DOMAIN q :
        /\ q[i] = c
        /\ IF sig.next = Nobody THEN Uncalled \subseteq {c}
           ELSE /\ i + 1 \in DOMAIN q /\ q[i + 1] = sig.next
                /\ \A h \in Uncalled : \E j \in DOMAIN q : i <= j /\ q[j] = h
  BY <1>1 DEF SigInv, Walk, Cursors
<1>4. \A j \in DOMAIN q : Place(q[j]) = j
  <2> SUFFICES ASSUME NEW j \in DOMAIN q PROVE Place(q[j]) = j
    OBVIOUS
  <2>1. Place(q[j]) \in DOMAIN q /\ q[Place(q[j])] = q[j]
    BY DEF Place
  <2> QED  BY <2>1, <1>2 DEF IsInjective
<1>5. c \notin Uncalled
  BY <1>1 DEF SigInv, Walk, Uncalled, Live
<1>6. /\ sighandlers' \in Seq(Handlers) /\ IsInjective(sighandlers')
      /\ ToSet(sighandlers') = ToSet(q) \ ({c} \intersect removed)
  <2>1. CASE c \in removed
    <3>1. sighandlers' = RemoveAt(q, i) /\ i \in 1 .. Len(q)
      BY <1>1, <1>2, <1>3, <1>4, <2>1
    <3> HIDE DEF q
    <3>2. /\ RemoveAt(q, i) \in Seq(Handlers) /\ IsInjective(RemoveAt(q, i))
          /\ ToSet(RemoveAt(q, i)) = ToSet(q) \ {q[i]}
      BY <1>2, <3>1, RemoveAtFacts
    <3> QED  BY <1>3, <2>1, <3>1, <3>2
  <2>2. CASE c \notin removed
    BY <1>1, <1>2, <2>2
  <2> QED  BY <2>1, <2>2
<1>7. HandlerLists' /\ Live' = Live /\ Masks'
  <2>1. ToSet(sighandlers') = added' \ freed'
    BY <1>1, <1>6 DEF SigInv, HandlerLists
  <2>2. HandlerLists'
    BY <1>1, <1>6, <2>1 DEF SigInv, HandlerLists
  <2>3. Live' = Live
    BY <1>1, <1>6 DEF Live
  <2> QED  BY <1>1, <2>2, <2>3 DEF SigInv, Masks
<1>8. Walk'
  <2>1. Uncalled' = Uncalled
    BY <1>1 DEF Uncalled
  <2>4. ASSUME NEW d \in Handlers, NEW x \in Handlers \union {Nobody},
               sig' = [signum |-> sig.signum, cur |-> d, next |-> x], Cursors(sighandlers', d, x, Uncalled)
        PROVE  Walk'
    <3>1. /\ sig.signum \in Signals \union {"none"} /\ calls' \in [Handlers -> {0, 1}]
          /\ owed' \subseteq Live' /\ \A h \in owed' : Signum[h] = sig.signum
      BY <1>1, <1>7 DEF SigInv, Walk
    <3>2. sig'.signum = sig.signum /\ sig'.cur = d /\ sig'.next = x
      BY <2>4
    <3>3. sig' \in [signum : Signals \union {"none"}, cur : Handlers \union {Nobody}, next : Handlers \union {Nobody}]
      BY <2>4, <3>1
    <3> QED  BY <2>1, <2>4, <3>1, <3>2, <3>3 DEF Walk
  <2>2. CASE sig.next = Nobody
    <3>1. sig' = [sig EXCEPT !.cur = Nobody, !.next = Nobody]
      BY <1>1, <2>2
    <3>2. Uncalled = {}
      BY <1>3, <1>5, <2>2
    <3> QED  BY <1>1, <1>7, <2>1, <3>1, <3>2 DEF SigInv, Walk, Cursors
  <2>3. CASE sig.next # Nobody
    <3> DEFINE k == i + 1
    <3>1. k \in DOMAIN q /\ q[k] = sig.next /\ Place(sig.next) = k
      BY <1>3, <1>4, <2>3
    <3>2. \A h \in Uncalled : \E j \in DOMAIN q : k <= j /\ q[j] = h
      <4> SUFFICES ASSUME NEW h \in Uncalled PROVE \E j \in DOMAIN q : k <= j /\ q[j] = h
        OBVIOUS
      <4>1. PICK j \in DOMAIN q : i <= j /\ q[j] = h
        BY <1>3, <2>3
      <4>2. j # i
        BY <1>3, <1>5, <4>1
      <4>3. k <= j
        BY <1>2, <4>1, <4>2
      <4> QED  BY <4>1, <4>3
    <3>3. Follower(sig.next) = IF k < Len(q) THEN q[k + 1] ELSE Nobody
      BY <3>1 DEF Follower
    <3>4. sig' = [signum |-> sig.signum, cur |-> q[k], next |-> IF k < Len(q) THEN q[k + 1] ELSE Nobody]
      BY <1>1, <2>3, <3>1, <3>3 DEF SigInv, Walk
    <3>5. q[k] \in Handlers /\ q[k] # Nobody
      BY <1>2, <3>1, SigAssumption DEF Nobody
    <3>6. CASE c \in removed
      <4>1. sighandlers' = RemoveAt(q, i) /\ i \in 1 .. Len(q)
        BY <1>1, <1>2, <1>3, <1>4, <3>6
      <4> HIDE DEF q
      <4>2. /\ Len(sighandlers') = Len(q) - 1
            /\ \A j \in 1 .. Len(q) - 1 : sighandlers'[j] = IF j < i THEN q[j] ELSE q[j + 1]
        BY <1>2, <4>1, RemoveAtFacts
      <4>3. DOMAIN sighandlers' = 1 .. Len(q) - 1
        BY <4>2, <1>6, LenProperties
      <4>4. i \in DOMAIN sighandlers' /\ sighandlers'[i] = q[k]
        BY <1>2, <3>1, <4>1, <4>2, <4>3
      <4>5. \A h \in Uncalled : \E j \in DOMAIN sighandlers' : i <= j /\ sighandlers'[j] = h
        <5> SUFFICES ASSUME NEW h \in Uncalled PROVE \E j \in DOMAIN sighandlers' : i <= j /\ sighandlers'[j] = h
          OBVIOUS
        <5>1. PICK j \in DOMAIN q : k <= j /\ q[j] = h
          BY <3>2
        <5>2. j - 1 \in 1 .. Len(q) - 1 /\ ~(j - 1 < i) /\ i <= j - 1 /\ (j - 1) + 1 = j
          BY <1>2, <4>1, <5>1
        <5> QED  BY <4>2, <4>3, <5>1, <5>2
      <4>6. CASE k < Len(q)
        <5>1. k + 1 \in DOMAIN q /\ q[k + 1] \in Handlers /\ q[k + 1] # Nobody
          BY <1>2, <3>1, <4>6, SigAssumption DEF Nobody
        <5>2. i + 1 \in DOMAIN sighandlers' /\ sighandlers'[i + 1] = q[k + 1]
          BY <1>2, <3>1, <4>1, <4>2, <4>3, <4>6
        <5>3. Cursors(sighandlers', q[k], q[k + 1], Uncalled)
          BY <3>5, <4>4, <4>5, <5>1, <5>2 DEF Cursors
        <5>4. sig' = [signum |-> sig.signum, cur |-> q[k], next |-> q[k + 1]]
          BY <3>4, <4>6
        <5> QED  BY <2>4, <3>5, <5>1, <5>3, <5>4
      <4>7. CASE ~(k < Len(q))
        <5>1. sig' = [signum |-> sig.signum, cur |-> q[k], next |-> Nobody]
          BY <3>4, <4>7
        <5>2. Uncalled \subseteq {q[k]}
          <6> SUFFICES ASSUME NEW h \in Uncalled PROVE h = q[k]
            OBVIOUS
          <6>1. PICK j \in DOMAIN q : k <= j /\ q[j] = h
            BY <3>2
          <6>2. j = k
            BY <1>2, <3>1, <4>7, <6>1
          <6> QED  BY <6>1, <6>2
        <5>3. Cursors(sighandlers', q[k], Nobody, Uncalled)
          BY <3>5, <4>4, <5>2 DEF Cursors
        <5> QED  BY <2>4, <3>5, <5>1, <5>3
      <4> QED  BY <4>6, <4>7
    <3>7. CASE c \notin removed
      <4>1. sighandlers' = q
        BY <1>1, <3>7
      <4>2. CASE k < Len(q)
        <5>1. k + 1 \in DOMAIN q /\ q[k + 1] \in Handlers /\ q[k + 1] # Nobody
          BY <1>2, <3>1, <4>2, SigAssumption DEF Nobody
        <5>3. Cursors(q, q[k], q[k + 1], Uncalled)
          BY <3>1, <3>2, <3>5, <5>1 DEF Cursors
        <5>4. sig' = [signum |-> sig.signum, cur |-> q[k], next |-> q[k + 1]]
          BY <3>4, <4>2
        <5> QED  BY <2>4, <3>5, <4>1, <5>1, <5>3, <5>4
      <4>3. CASE ~(k < Len(q))
        <5>1. sig' = [signum |-> sig.signum, cur |-> q[k], next |-> Nobody]
          BY <3>4, <4>3
        <5>2. Uncalled \subseteq {q[k]}
          <6> SUFFICES ASSUME NEW h \in Uncalled PROVE h = q[k]
            OBVIOUS
          <6>1. PICK j \in DOMAIN q : k <= j /\ q[j] = h
            BY <3>2
          <6>2. j = k
            BY <1>2, <3>1, <4>3, <6>1
          <6> QED  BY <6>1, <6>2
        <5>3. Cursors(q, q[k], Nobody, Uncalled)
          BY <3>1, <3>5, <5>2 DEF Cursors
        <5> QED  BY <2>4, <3>5, <4>1, <5>1, <5>3
      <4> QED  BY <4>2, <4>3
    <3> QED  BY <3>6, <3>7
  <2> QED  BY <2>2, <2>3
<1> QED  BY <1>7, <1>8 DEF SigInv

\* Every step of handlers, signals and the walk.
LEMMA SigNextInv == SigInv /\ [SigNext]_sigVars => SigInv'
<1> SUFFICES ASSUME SigInv, [SigNext]_sigVars PROVE SigInv'
  OBVIOUS
<1>1. ASSUME Reblock PROVE SigInv'
  <2>1. /\ unblocked /\ unblocked' = FALSE /\ sigmask' = SignalsOf(Live) /\ blocked' = blocked \union sigmask'
        /\ UNCHANGED <<sighandlers, added, removed, freed, fdmask, pending, sig, calls, owed, lost>>
    BY <1>1 DEF Reblock, Recalculated, lists, walk
  <2>2. Live' = Live
    BY <2>1 DEF Live
  <2>3. Masks' /\ HandlerLists'
    BY <2>1, <2>2 DEF SigInv, Masks, HandlerLists
  <2> QED  BY <2>1, <2>3, WalkStays DEF SigInv
<1>2. ASSUME NEW g \in Signals, Raise(g) PROVE SigInv'
  <2>1. UNCHANGED <<sighandlers, added, removed, freed, sigmask, fdmask, blocked, sig, calls, owed, unblocked>>
    BY <1>2 DEF Raise, lists, masks, walk
  <2>2. Live' = Live /\ HandlerLists'
    BY <2>1 DEF Live, SigInv, HandlerLists
  <2>3. Masks'
    <3>1. CASE g \in blocked
      BY <1>2, <2>1, <2>2, <3>1 DEF SigInv, Masks, Raise
    <3>2. CASE g \notin blocked
      BY <1>2, <2>1, <2>2, <3>2 DEF SigInv, Masks, Raise
    <3> QED  BY <3>1, <3>2
  <2> QED  BY <2>1, <2>2, <2>3, WalkStays DEF SigInv
<1>3. ASSUME Dispatched PROVE SigInv'
  <2>1. /\ sig' = Idle /\ owed' = {} /\ calls' = [h \in Handlers |-> 0]
        /\ UNCHANGED <<sighandlers, added, removed, freed, sigmask, fdmask, blocked, pending, lost, unblocked>>
    BY <1>3 DEF Dispatched, lists, masks
  <2>2. Live' = Live /\ HandlerLists' /\ Masks'
    BY <2>1 DEF Live, SigInv, HandlerLists, Masks
  <2>3. Walk'
    BY <2>1 DEF Walk, Idle, Uncalled, Cursors
  <2> QED  BY <2>2, <2>3 DEF SigInv
<1>4. ASSUME UNCHANGED sigVars PROVE SigInv'
  BY <1>4, WalkStays DEF sigVars, SigInv, HandlerLists, Masks, Live
<1> QED
  BY <1>1, <1>2, <1>3, <1>4, AddSighandlerInv, DelSighandlerInv, ReadSignalInv, CallHandlerInv, ProceedInv DEF SigNext

\* Signals with a handler are blocked and read, and every handler that is
\* there when a signal is read, and stays, is called for it, whatever its
\* callbacks add and delete (dispatch_signals, recalc_sigmask).
THEOREM SignalsHandled == SigSpec => []SignalsAreHandled
<1>1. SigInv => SignalsAreHandled
  <2> SUFFICES ASSUME SigInv PROVE SignalsAreHandled
    OBVIOUS
  <2>1. sig.cur = Nobody => \A h \in owed : calls[h] = 1
    BY DEF SigInv, Walk, Uncalled, HandlerLists, Live, Cursors
  <2>2. sig.cur # Nobody => sig.cur \in ToSet(sighandlers)
    BY DEF SigInv, Walk, ToSet, Cursors
  <2>3. sig.next # Nobody => sig.next \in ToSet(sighandlers)
    BY DEF SigInv, Walk, ToSet, Cursors
  <2> QED  BY <2>1, <2>2, <2>3 DEF SigInv, Masks, HandlerLists, SignalsAreHandled
<1> QED  BY <1>1, SigInitInv, SigNextInv, PTL DEF SigSpec

------------------------------------------------------------------------------
(* Subloops, for any subloops, descriptors and timeouts: what check sees is *)
(* what is ready, and epoll points into the descriptors that are polled.    *)
(*                                                                          *)
(* The inductive invariant adds that what a check has left is cleared before*)
(* the next: the walks that prepare and dispatch leave nobody out, as their *)
(* next subloop is on the list, or was deleted and is where they are lost.  *)

Phases == {"others", "prepare", "poll", "callbacks", "dispatch", "strayed", "crashed"}

LoopsTyped ==
    /\ state \in [Loops -> {"new", "on", "deleted", "freed"}]
    /\ subloops \in Seq(Loops) /\ IsInjective(subloops)
    /\ ToSet(subloops) = {l \in Loops : state[l] = "on"}
    /\ pollfds \in [Loops -> Seq(Pollable)] /\ revents \in [Loops -> Seq(BOOLEAN)]
    /\ \A l \in Loops : Len(revents[l]) = Len(pollfds[l])
    /\ epoll \in [Loops -> [Pollable -> Nat]] /\ poll \subseteq Loops
    /\ wanted \in [Loops -> [fds : Seq(Pollable), timeout : Int]]
    /\ least \in Int /\ asked \subseteq Int /\ woken \subseteq Pollable /\ ready \subseteq Pollable
    /\ at \in [phase : Phases, cb : {"none", "prepare", "query", "check", "dispatch"},
               cur : Loops \cup {End}, next : Loops \cup {End}]

(* A descriptor that was not opened behind the loop's back is registered    *)
(* where it is first polled.                                                *)
EpollAgrees ==
    \A l \in Loops :
        /\ state[l] = "new" => pollfds[l] = <<>>
        /\ \A f \in Pollable :
              /\ epoll[l][f] \in {0, FirstPlace(pollfds[l], f)}
              /\ state[l] = "on" /\ <<l, f>> \notin reopened => epoll[l][f] = FirstPlace(pollfds[l], f)

Walking == at.phase \in {"prepare", "dispatch"}

(* Where a walk is.                                                         *)
LoopCursors ==
    /\ Walking /\ at.cur # End /\ at.cb \in {"none", "query", "check"} => state[at.cur] = "on"
    /\ Walking /\ at.cur = End => at.next = End /\ at.cb = "none"
    /\ at.next # End => state[at.next] # "new"
    /\ at.cb = "check" => at.phase = "dispatch"
    /\ at.cb \in {"prepare", "query"} => at.phase = "prepare"

Quiet(l) == \A i \in DOMAIN revents[l] : ~revents[l][i]

(* The subloops a walk has passed were queried, and those it is to come to  *)
(* were not checked.                                                        *)
QuietAhead ==
    /\ at.phase = "prepare" =>
         \A j \in DOMAIN subloops :
            (at.next = End \/ \E i \in DOMAIN subloops : subloops[i] = at.next /\ j < i)
            => subloops[j] = at.cur \/ Quiet(subloops[j])
    /\ at.phase \in {"poll", "callbacks"} => \A j \in DOMAIN subloops : Quiet(subloops[j])
    /\ at.phase = "dispatch" =>
         /\ at.cb = "none" /\ at.cur # End => Quiet(at.cur)
         /\ \A i, j \in DOMAIN subloops : subloops[i] = at.next /\ i <= j =>
              Quiet(subloops[j]) /\ (at.cb = "none" => subloops[j] # at.cur)

(* What was ready is polled for while subloops are dispatched, and what no  *)
(* longer is, was opened anew.                                              *)
WokenArePolled ==
    /\ at.phase \in {"others", "prepare", "poll"} => woken = {}
    /\ \A l \in Loops, f \in woken :
          /\ state[l] = "on" /\ epoll[l][f] # 0 => l \in poll
          /\ f \notin ready => epoll[l][f] = 0

CheckSeesReady ==
    at.cb = "check" =>
        \A i \in DOMAIN pollfds[at.cur] :
            LET f == pollfds[at.cur][i] IN
            /\ revents[at.cur][i] => f \in ready
            /\ f \in woken \cap ready /\ <<at.cur, f>> \notin reopened
               /\ (\A j \in 1 .. i - 1 : pollfds[at.cur][j] # f) => revents[at.cur][i]

LeastAsked == /\ \A t \in asked : least <= t
              /\ least = INT_MAX \/ least \in asked

SubloopsInv == /\ LoopsTyped /\ EpollAgrees /\ LoopCursors /\ QuietAhead /\ WokenArePolled
               /\ CheckSeesReady /\ LeastAsked

------------------------------------------------------------------------------
\* The first place of a descriptor in a list of them.
LEMMA FirstPlaceFacts ==
    ASSUME NEW T, NEW fds \in Seq(T), NEW f
    PROVE  /\ FirstPlace(fds, f) \in Nat
           /\ FirstPlace(fds, f) # 0 => FirstPlace(fds, f) \in DOMAIN fds /\ fds[FirstPlace(fds, f)] = f
           /\ \A i \in DOMAIN fds : fds[i] = f /\ (\A j \in 1 .. i - 1 : fds[j] # f) => FirstPlace(fds, f) = i
<1> DEFINE P == {i \in DOMAIN fds : fds[i] = f}
<1>1. Len(fds) \in Nat /\ DOMAIN fds = 1 .. Len(fds)
  BY LenProperties
<1>2. f \in ToSet(fds) <=> P # {}
  BY DEF ToSet
<1>3. CASE P = {}
  BY <1>1, <1>2, <1>3 DEF FirstPlace
<1>4. CASE P # {}
  <2>1. P \subseteq Nat
    BY <1>1
  <2>2. Min(P) \in P /\ \A y \in P : Min(P) <= y
    BY <1>4, <2>1, NatMinimum DEF Min
  <2>3. FirstPlace(fds, f) = Min(P)
    BY <1>2, <1>4 DEF FirstPlace
  <2>4. ASSUME NEW i \in DOMAIN fds, fds[i] = f, \A j \in 1 .. i - 1 : fds[j] # f
        PROVE  Min(P) = i
    <3>1. i \in P /\ i \in Nat /\ Min(P) \in Nat /\ Min(P) >= 1 /\ Min(P) <= i /\ fds[Min(P)] = f
      BY <1>1, <2>2, <2>4
    <3>2. ~(Min(P) \in 1 .. i - 1)
      BY <3>1, <2>4
    <3> QED  BY <3>1, <3>2
  <2> QED  BY <1>1, <2>2, <2>3, <2>4
<1> QED  BY <1>3, <1>4

LEMMA NothingFirst == \A f : FirstPlace(<<>>, f) = 0
BY DEF FirstPlace, ToSet

\* Where a subloop is on the list, and what follows it.
LEMMA LoopPlaceFacts ==
    ASSUME LoopsTyped, NEW l \in Loops, state[l] = "on"
    PROVE  /\ LoopPlace(l) \in DOMAIN subloops /\ subloops[LoopPlace(l)] = l
           /\ \A i \in DOMAIN subloops : subloops[i] = l => i = LoopPlace(l)
           /\ IF LoopPlace(l) = Len(subloops) THEN After(l) = End
              ELSE LoopPlace(l) + 1 \in DOMAIN subloops /\ After(l) = subloops[LoopPlace(l) + 1]
<1>1. Len(subloops) \in Nat /\ DOMAIN subloops = 1 .. Len(subloops) /\ IsInjective(subloops) /\ l \in ToSet(subloops)
  BY LenProperties DEF LoopsTyped
<1>2. \E i \in DOMAIN subloops : subloops[i] = l
  BY <1>1 DEF ToSet
<1>3. LoopPlace(l) \in DOMAIN subloops /\ subloops[LoopPlace(l)] = l
  BY <1>2 DEF LoopPlace
<1>4. \A i \in DOMAIN subloops : subloops[i] = l => i = LoopPlace(l)
  BY <1>1, <1>3 DEF IsInjective
<1> QED  BY <1>1, <1>3, <1>4 DEF After

\* The places of the list are taken by the subloops that are on.
LEMMA LoopListFacts ==
    ASSUME LoopsTyped
    PROVE  /\ Len(subloops) \in Nat /\ DOMAIN subloops = 1 .. Len(subloops)
           /\ \A i \in DOMAIN subloops : subloops[i] \in Loops /\ state[subloops[i]] = "on"
           /\ \A l \in Loops : DOMAIN pollfds[l] = 1 .. Len(pollfds[l]) /\ Len(pollfds[l]) \in Nat
                               /\ DOMAIN revents[l] = DOMAIN pollfds[l]
BY LenProperties DEF LoopsTyped, ToSet

\* Moving on keeps a walk on the list, unless the next subloop was deleted.
LEMMA AdvancedFacts ==
    ASSUME LoopsTyped, LoopCursors
    PROVE  /\ Advanced \in [phase : Phases, cb : {"none", "prepare", "query", "check", "dispatch"},
                            cur : Loops \cup {End}, next : Loops \cup {End}]
           /\ Advanced.cb = "none"
           /\ at.next = End => Advanced.cur = End /\ Advanced.next = End /\ Advanced.phase = at.phase
           /\ at.next # End /\ state[at.next] # "on" => Advanced = Lost("strayed")
           /\ at.next # End /\ state[at.next] = "on" =>
                Advanced.cur = at.next /\ Advanced.next = After(at.next) /\ Advanced.phase = at.phase
<1>1. at.next \in Loops /\ state[at.next] = "on" => After(at.next) \in Loops \cup {End}
  BY LoopPlaceFacts, LoopListFacts
<1> QED  BY <1>1 DEF Advanced, Lost, LoopsTyped, Phases

\* Before it starts nothing is registered.
LEMMA SubloopsInitInv == SubloopsInit => SubloopsInv
<1> SUFFICES ASSUME SubloopsInit PROVE SubloopsInv
  OBVIOUS
<1>1. LoopsTyped
  <2>1. <<>> \in Seq(Loops) /\ <<>> \in Seq(Pollable) /\ <<>> \in Seq(BOOLEAN) /\ Len(<<>>) = 0
    BY DEF LoopsTyped
  <2>2. ToSet(subloops) = {} /\ IsInjective(subloops)
    BY DEF SubloopsInit, ToSet, IsInjective
  <2> QED  BY <2>1, <2>2, SubloopsAssumption DEF SubloopsInit, LoopsTyped, At, Phases
<1>2. EpollAgrees
  <2>1. \A f \in Pollable : FirstPlace(<<>>, f) = 0
    BY DEF FirstPlace, ToSet
  <2> QED  BY <2>1 DEF SubloopsInit, EpollAgrees
<1> QED  BY <1>1, <1>2 DEF SubloopsInit, SubloopsInv, LoopCursors, QuietAhead, WokenArePolled, CheckSeesReady, LeastAsked,
                            Walking, At

\* mrp_add_subloop: the new subloop is the last, and has nothing to clear.
LEMMA AddSubloopInv ==
    ASSUME SubloopsInv, NEW l \in Loops, NEW fds \in FdLists, NEW timeout \in Timeouts, AddSubloop(l, fds, timeout)
    PROVE  SubloopsInv'
<1> USE DEF AddSubloop, SubloopsInv
<1>1. /\ Len(subloops) \in Nat /\ DOMAIN subloops = 1 .. Len(subloops)
      /\ \A i \in DOMAIN subloops : subloops[i] \in Loops /\ state[subloops[i]] = "on"
  BY LoopListFacts
<1>2. /\ subloops' \in Seq(Loops) /\ ToSet(subloops') = ToSet(subloops) \union {l}
      /\ Len(subloops') = Len(subloops) + 1
      /\ \A i \in 1 .. Len(subloops) : subloops'[i] = subloops[i]
      /\ subloops'[Len(subloops) + 1] = l
      /\ IsInjective(subloops')
  <2>1. l \notin ToSet(subloops)
    BY DEF LoopsTyped
  <2> QED  BY <2>1, AppendFacts DEF LoopsTyped
<1>3. DOMAIN subloops' = 1 .. (Len(subloops) + 1)
  BY <1>2, LenProperties
<1>4. LoopsTyped'
  <2>1. fds \in Seq(Pollable) /\ timeout \in Int
    BY SubloopsAssumption
  <2>2. wanted' \in [Loops -> [fds : Seq(Pollable), timeout : Int]]
    BY <2>1 DEF LoopsTyped
  <2>3. /\ state' \in [Loops -> {"new", "on", "deleted", "freed"}]
        /\ {k \in Loops : state'[k] = "on"} = {k \in Loops : state[k] = "on"} \union {l}
    BY DEF LoopsTyped
  <2> QED  BY <1>2, <2>2, <2>3 DEF LoopsTyped, fdVars, timeVars, history
<1>5. EpollAgrees'
  <2>1. pollfds[l] = <<>> /\ \A f \in Pollable : FirstPlace(<<>>, f) = 0
    BY NothingFirst DEF EpollAgrees
  <2> QED  BY <2>1 DEF EpollAgrees, fdVars, history, LoopsTyped
<1>6. LoopCursors'
  BY DEF LoopCursors, Walking, LoopsTyped
<1>7. QuietAhead'
  <2>1. Quiet(l)
    BY LoopListFacts, LenProperties DEF EpollAgrees, Quiet
  <2>2. \A k : Quiet(k)' <=> Quiet(k)
    BY DEF Quiet, fdVars
  <2>3. at' = at /\ at.next # l
    BY SubloopsAssumption DEF LoopCursors
  <2>4. at.phase # "prepare" \/ at.cb # "none"
    BY DEF CallbackRuns
  <2>5. ~(at.phase = "dispatch" /\ at.cb = "none")
    BY DEF CallbackRuns
  <2> HIDE DEF AddSubloop
  <2>6. ASSUME at.phase = "prepare", NEW j \in DOMAIN subloops',
               at.next = End \/ \E i \in DOMAIN subloops' : subloops'[i] = at.next /\ j < i
        PROVE  subloops'[j] = at.cur \/ Quiet(subloops'[j])
    BY <1>1, <1>2, <1>3, <2>1, <2>3, <2>6 DEF QuietAhead
  <2>7. ASSUME at.phase = "dispatch", NEW i \in DOMAIN subloops', NEW j \in DOMAIN subloops', subloops'[i] = at.next, i <= j
        PROVE  Quiet(subloops'[j])
    BY <1>1, <1>2, <1>3, <2>1, <2>3, <2>7 DEF QuietAhead
  <2>8. ASSUME at.phase \in {"poll", "callbacks"}, NEW j \in DOMAIN subloops'
        PROVE  Quiet(subloops'[j])
    BY <1>1, <1>2, <1>3, <2>1, <2>8 DEF QuietAhead
  <2> QED  BY <2>2, <2>3, <2>5, <2>6, <2>7, <2>8 DEF QuietAhead
<1>8. WokenArePolled'
  <2>1. \A f \in Pollable : epoll[l][f] = 0
    BY NothingFirst DEF EpollAgrees
  <2>2. woken \subseteq Pollable
    BY DEF LoopsTyped
  <2> QED  BY <2>1 DEF WokenArePolled, fdVars, history, LoopsTyped
<1>9. CheckSeesReady' /\ LeastAsked'
  BY DEF CheckSeesReady, LeastAsked, fdVars, timeVars, history
<1> QED  BY <1>4, <1>5, <1>6, <1>7, <1>8, <1>9

\* mrp_del_subloop: what is left stays in its order.
LEMMA DelSubloopInv ==
    ASSUME SubloopsInv, NEW l \in Loops, DelSubloop(l)
    PROVE  SubloopsInv'
<1> USE DEF DelSubloop, SubloopsInv
<1> DEFINE p == LoopPlace(l)
           Was(i) == IF i < p THEN i ELSE i + 1
<1>1. /\ Len(subloops) \in Nat /\ DOMAIN subloops = 1 .. Len(subloops)
      /\ \A i \in DOMAIN subloops : subloops[i] \in Loops /\ state[subloops[i]] = "on"
  BY LoopListFacts
<1>2. p \in 1 .. Len(subloops) /\ subloops[p] = l
  BY <1>1, LoopPlaceFacts
<1>3. /\ subloops' \in Seq(Loops) /\ ToSet(subloops') = ToSet(subloops) \ {l}
      /\ Len(subloops') = Len(subloops) - 1 /\ IsInjective(subloops')
      /\ \A i \in 1 .. Len(subloops) - 1 : subloops'[i] = subloops[Was(i)]
  <2>1. subloops \in Seq(Loops) /\ IsInjective(subloops) /\ subloops' = RemoveAt(subloops, p)
    BY DEF LoopsTyped
  <2> HIDE DEF p, DelSubloop, SubloopsInv
  <2>2. /\ RemoveAt(subloops, p) \in Seq(Loops) /\ ToSet(RemoveAt(subloops, p)) = ToSet(subloops) \ {l}
        /\ Len(RemoveAt(subloops, p)) = Len(subloops) - 1 /\ IsInjective(RemoveAt(subloops, p))
        /\ \A i \in 1 .. Len(subloops) - 1 : RemoveAt(subloops, p)[i] = IF i < p THEN subloops[i] ELSE subloops[i + 1]
    BY <1>2, <2>1, RemoveAtFacts
  <2> QED  BY <2>1, <2>2
<1>4. DOMAIN subloops' = 1 .. (Len(subloops) - 1)
  BY <1>1, <1>3, LenProperties
<1>5. LoopsTyped'
  <2>1. /\ state' \in [Loops -> {"new", "on", "deleted", "freed"}]
        /\ {k \in Loops : state'[k] = "on"} = {k \in Loops : state[k] = "on"} \ {l}
    BY DEF LoopsTyped
  <2>2. epoll' \in [Loops -> [Pollable -> Nat]]
    BY DEF LoopsTyped
  <2> QED  BY <1>3, <2>1, <2>2 DEF LoopsTyped, timeVars, history
<1>6. EpollAgrees'
  BY DEF EpollAgrees, history, LoopsTyped
<1>7. LoopCursors'
  BY DEF LoopCursors, Walking, LoopsTyped, CallbackRuns
<1>8. QuietAhead'
  <2>1. \A k : Quiet(k)' <=> Quiet(k)
    BY DEF Quiet
  <2>2. at' = at /\ ~(at.cb = "none" /\ at.phase = "dispatch")
    BY DEF CallbackRuns
  <2>3. \A i \in 1 .. Len(subloops) - 1 : Was(i) \in 1 .. Len(subloops)
    BY <1>1
  <2>4. \A i, j \in 1 .. Len(subloops) - 1 : (j < i => Was(j) < Was(i)) /\ (i <= j => Was(i) <= Was(j))
    BY <1>1, <1>2
  <2> HIDE DEF Was
  <2>5. /\ \A i \in 1 .. Len(subloops) - 1 : i \in Nat
        /\ DOMAIN subloops' = 1 .. Len(subloops) - 1
        /\ \A i \in DOMAIN subloops' : Was(i) \in DOMAIN subloops /\ subloops'[i] = subloops[Was(i)]
        /\ \A i, j \in DOMAIN subloops' : (j < i => Was(j) < Was(i)) /\ (i <= j => Was(i) <= Was(j))
    BY <1>1, <1>3, <1>4, <2>3, <2>4
  <2> HIDE DEF DelSubloop
  <2>6. ASSUME at.phase = "prepare", NEW j \in DOMAIN subloops',
               at.next = End \/ \E i \in DOMAIN subloops' : subloops'[i] = at.next /\ j < i
        PROVE  subloops'[j] = at.cur \/ Quiet(subloops'[j])
    BY <2>5, <2>6 DEF QuietAhead
  <2>7. ASSUME at.phase = "dispatch", NEW i \in DOMAIN subloops', NEW j \in DOMAIN subloops', subloops'[i] = at.next, i <= j
        PROVE  Quiet(subloops'[j])
    BY <2>5, <2>7 DEF QuietAhead
  <2>8. ASSUME at.phase \in {"poll", "callbacks"}, NEW j \in DOMAIN subloops'
        PROVE  Quiet(subloops'[j])
    BY <2>5, <2>8 DEF QuietAhead
  <2> QED  BY <2>1, <2>2, <2>6, <2>7, <2>8 DEF QuietAhead
<1>9. WokenArePolled' /\ CheckSeesReady' /\ LeastAsked'
  BY  DEF WokenArePolled, CheckSeesReady, LeastAsked, timeVars, history, LoopsTyped, CallbackRuns, LoopCursors
<1> QED  BY <1>5, <1>6, <1>7, <1>8, <1>9

\* A query that answers otherwise next time.
LEMMA WantsInv ==
    ASSUME SubloopsInv, NEW l \in Loops, NEW fds \in FdLists, NEW timeout \in Timeouts, Wants(l, fds, timeout)
    PROVE  SubloopsInv'
<1> USE DEF Wants, SubloopsInv
<1>1. LoopsTyped'
  <2>1. fds \in Seq(Pollable) /\ timeout \in Int
    BY SubloopsAssumption
  <2>2. wanted' \in [Loops -> [fds : Seq(Pollable), timeout : Int]]
    BY <2>1 DEF LoopsTyped
  <2> QED  BY <2>2 DEF LoopsTyped, loopVars, fdVars, timeVars, history
<1>2. EpollAgrees' /\ LoopCursors' /\ WokenArePolled' /\ CheckSeesReady' /\ LeastAsked'
  BY DEF EpollAgrees, LoopCursors, Walking, WokenArePolled, CheckSeesReady, LeastAsked,
         loopVars, fdVars, timeVars, history
<1>3. QuietAhead'
  BY DEF QuietAhead, Quiet, loopVars, fdVars
<1> QED  BY <1>1, <1>2, <1>3

\* A descriptor is closed and opened again behind the loop's back.
LEMMA ReopenInv ==
    ASSUME SubloopsInv, NEW f \in Pollable, Reopen(f)
    PROVE  SubloopsInv'
<1> USE DEF Reopen, SubloopsInv
<1>1. LoopsTyped'
  <2>1. epoll' \in [Loops -> [Pollable -> Nat]]
    BY DEF LoopsTyped
  <2> QED  BY <2>1 DEF LoopsTyped, loopVars, timeVars
<1>2. EpollAgrees'
  <2>1. \A k \in Loops, g \in Pollable : epoll'[k][g] = IF g = f THEN 0 ELSE epoll[k][g]
    BY DEF LoopsTyped
  <2>2. \A k \in Loops : epoll[k][f] # 0 => <<k, f>> \in reopened'
    OBVIOUS
  <2>3. \A k \in Loops, g \in Pollable : <<k, g>> \in reopened => <<k, g>> \in reopened'
    OBVIOUS
  <2>4. state' = state /\ pollfds' = pollfds
    BY DEF loopVars
  <2> HIDE DEF Reopen
  <2> QED  BY <2>1, <2>2, <2>3, <2>4 DEF EpollAgrees
<1>3. LoopCursors' /\ LeastAsked'
  BY DEF LoopCursors, Walking, LeastAsked, loopVars, timeVars
<1>4. WokenArePolled' /\ CheckSeesReady'
  <2>1. \A k \in Loops, g \in Pollable : epoll'[k][g] # 0 => epoll[k][g] # 0
    BY DEF LoopsTyped
  <2>2. at.cb # "check"
    BY DEF CallbackRuns, LoopCursors
  <2> QED  BY <2>1, <2>2 DEF WokenArePolled, CheckSeesReady, loopVars, LoopsTyped
<1>5. QuietAhead'
  BY DEF QuietAhead, Quiet, loopVars
<1> QED  BY <1>1, <1>2, <1>3, <1>4, <1>5

\* Descriptors become ready and are read.
LEMMA ReadyInv ==
    ASSUME SubloopsInv, NEW f \in Pollable, BecomesReady(f) \/ Drained(f)
    PROVE  SubloopsInv'
<1> USE DEF BecomesReady, Drained, SubloopsInv
<1>1. LoopsTyped'
  BY DEF LoopsTyped, loopVars, fdVars, timeVars, history
<1>5. EpollAgrees' /\ LoopCursors' /\ LeastAsked'
  BY DEF EpollAgrees, LoopCursors, Walking, LeastAsked, loopVars, fdVars, timeVars, history
<1>2. WokenArePolled'
  BY DEF WokenArePolled, loopVars, fdVars, history
<1>3. CheckSeesReady'
  <2>1. CASE Drained(f)
    BY <2>1 DEF CheckSeesReady, CallbackRuns, LoopCursors
  <2>2. CASE BecomesReady(f)
    <3>1. at.cb = "check" => at.phase = "dispatch" /\ at.cur \in Loops
      BY DEF LoopCursors, Walking, LoopsTyped
    <3>2. ASSUME at.cb = "check", NEW i \in DOMAIN pollfds[at.cur], pollfds[at.cur][i] = f, f \in woken,
                 <<at.cur, f>> \notin reopened, \A j \in 1 .. i - 1 : pollfds[at.cur][j] # f
          PROVE  FALSE
      <4>1. at.cur \in Loops /\ state[at.cur] = "on" /\ epoll[at.cur][f] = 0
        BY <2>2, <3>1, <3>2 DEF LoopCursors, Walking, WokenArePolled, LoopsTyped
      <4>2. FirstPlace(pollfds[at.cur], f) = 0
        BY <3>2, <4>1 DEF EpollAgrees
      <4>3. pollfds[at.cur] \in Seq(Pollable) /\ i # 0
        BY <4>1, <3>2, LoopListFacts DEF LoopsTyped
      <4> QED  BY <3>2, <4>2, <4>3, FirstPlaceFacts
    <3>3. UNCHANGED <<at, pollfds, revents, woken, reopened>> /\ ready' = ready \cup {f}
      BY <2>2 DEF fdVars, history
    <3> HIDE DEF BecomesReady, Drained
    <3> QED  BY <3>2, <3>3 DEF CheckSeesReady
  <2> QED  BY <2>1, <2>2
<1>4. QuietAhead'
  BY DEF QuietAhead, Quiet, loopVars, fdVars
<1> QED  BY <1>1, <1>2, <1>3, <1>4, <1>5

\* Where a walk starts.
LEMMA AtFacts ==
    ASSUME LoopsTyped, NEW phase \in Phases
    PROVE  LET a == At(phase, "none", subloops) IN
           /\ a \in [phase : Phases, cb : {"none", "prepare", "query", "check", "dispatch"},
                     cur : Loops \cup {End}, next : Loops \cup {End}]
           /\ a.phase = phase /\ a.cb = "none"
           /\ a.cur # End => state[a.cur] = "on"
           /\ a.next # End => state[a.next] = "on"
           /\ a.cur = End => a.next = End
           /\ a.next = End => \A j \in DOMAIN subloops : subloops[j] = a.cur
           /\ \A i, j \in DOMAIN subloops : subloops[i] = a.next /\ j < i => subloops[j] = a.cur
           /\ \A i, j \in DOMAIN subloops : subloops[i] = a.next /\ i <= j => subloops[j] # a.cur
<1>1. /\ Len(subloops) \in Nat /\ DOMAIN subloops = 1 .. Len(subloops) /\ (subloops = <<>> <=> Len(subloops) = 0)
      /\ \A i \in DOMAIN subloops : subloops[i] \in Loops /\ state[subloops[i]] = "on"
  BY LoopListFacts, EmptySeq DEF LoopsTyped
<1>2. \A i, j \in DOMAIN subloops : subloops[i] = subloops[j] => i = j
  BY DEF LoopsTyped, IsInjective
<1>3. End \notin Loops
  BY SubloopsAssumption
<1>4. CASE subloops = <<>>
  BY <1>1, <1>3, <1>4 DEF At
<1>5. CASE subloops # <<>> /\ ~(Len(subloops) > 1)
  BY <1>1, <1>2, <1>3, <1>5 DEF At
<1>6. CASE Len(subloops) > 1
  <2>1. 1 \in DOMAIN subloops /\ 2 \in DOMAIN subloops /\ subloops # <<>>
    BY <1>1, <1>6
  <2>2. \A i, j \in DOMAIN subloops : i = 2 => (j < i => j = 1) /\ (i <= j => j # 1)
    BY <1>1
  <2> QED  BY <1>1, <1>2, <1>3, <1>6, <2>1, <2>2 DEF At
<1> QED  BY <1>4, <1>5, <1>6

\* prepare_subloops starts at the head of the list.
LEMMA StartPrepareInv == ASSUME SubloopsInv, StartPrepare PROVE SubloopsInv'
<1> USE DEF StartPrepare, SubloopsInv
<1> DEFINE a == At("prepare", "none", subloops)
<1>1. at' = a /\ UNCHANGED <<loopVars, fdVars, wanted, ready, timeVars, history>>
  OBVIOUS
<1>2. /\ a \in [phase : Phases, cb : {"none", "prepare", "query", "check", "dispatch"},
                cur : Loops \cup {End}, next : Loops \cup {End}]
      /\ a.phase = "prepare" /\ a.cb = "none"
      /\ a.cur # End => state[a.cur] = "on"
      /\ a.next # End => state[a.next] = "on"
      /\ a.cur = End => a.next = End
      /\ a.next = End => \A j \in DOMAIN subloops : subloops[j] = a.cur
      /\ \A i, j \in DOMAIN subloops : subloops[i] = a.next /\ j < i => subloops[j] = a.cur
  <2>1. "prepare" \in Phases
    BY DEF Phases
  <2> QED  BY <2>1, AtFacts
<1> HIDE DEF a, StartPrepare
<1>3. LoopsTyped'
  BY <1>1, <1>2 DEF LoopsTyped, loopVars, fdVars, timeVars, history
<1>4. EpollAgrees' /\ LeastAsked'
  BY <1>1 DEF EpollAgrees, LeastAsked, loopVars, fdVars, timeVars, history
<1>5. LoopCursors' /\ CheckSeesReady'
  BY <1>1, <1>2 DEF LoopCursors, CheckSeesReady, Walking, loopVars
<1>6. WokenArePolled'
  BY <1>1, <1>2 DEF WokenArePolled, loopVars, fdVars, history, StartPrepare
<1>7. QuietAhead'
  BY <1>1, <1>2 DEF QuietAhead, Quiet, loopVars, fdVars
<1> QED  BY <1>3, <1>4, <1>5, <1>6, <1>7

\* dispatch_subloops does too, and all were queried.
LEMMA StartSubloopsInv == ASSUME SubloopsInv, StartSubloops PROVE SubloopsInv'
<1> USE DEF StartSubloops, SubloopsInv
<1> DEFINE a == At("dispatch", "none", subloops)
<1>1. at' = a /\ at.phase = "callbacks" /\ UNCHANGED <<loopVars, fdVars, wanted, ready, timeVars, history>>
  OBVIOUS
<1>2. /\ a \in [phase : Phases, cb : {"none", "prepare", "query", "check", "dispatch"},
                cur : Loops \cup {End}, next : Loops \cup {End}]
      /\ a.phase = "dispatch" /\ a.cb = "none"
      /\ a.cur # End => state[a.cur] = "on"
      /\ a.next # End => state[a.next] = "on"
      /\ a.cur = End => a.next = End
      /\ \A i, j \in DOMAIN subloops : subloops[i] = a.next /\ i <= j => subloops[j] # a.cur
  <2>1. "dispatch" \in Phases
    BY DEF Phases
  <2> QED  BY <2>1, AtFacts
<1> HIDE DEF a, StartSubloops
<1>3. LoopsTyped'
  BY <1>1, <1>2 DEF LoopsTyped, loopVars, fdVars, timeVars, history
<1>4. EpollAgrees' /\ LeastAsked'
  BY <1>1 DEF EpollAgrees, LeastAsked, loopVars, fdVars, timeVars, history
<1>5. LoopCursors' /\ CheckSeesReady'
  BY <1>1, <1>2 DEF LoopCursors, CheckSeesReady, Walking, loopVars
<1>6. WokenArePolled'
  BY <1>1, <1>2 DEF WokenArePolled, loopVars, fdVars, history
<1>7. QuietAhead'
  <2>1. a.cur # End => \E j \in DOMAIN subloops : subloops[j] = a.cur
    BY <1>2 DEF LoopsTyped, ToSet
  <2> QED  BY <1>1, <1>2, <2>1 DEF QuietAhead, Quiet, loopVars, fdVars
<1> QED  BY <1>3, <1>4, <1>5, <1>6, <1>7

\* A step that changes at only, and neither where the walk is nor its phase.
LEMMA CallbackInv ==
    ASSUME SubloopsInv, UNCHANGED <<loopVars, fdVars, wanted, ready, timeVars, history>>,
           NEW kind \in {"prepare", "query", "dispatch"}, at' = [at EXCEPT !.cb = kind], at.cur # End,
           kind = "dispatch" => at.phase = "dispatch",
           kind \in {"prepare", "query"} => at.phase = "prepare",
           kind = "query" => state[at.cur] = "on"
    PROVE  SubloopsInv'
<1> USE DEF SubloopsInv
<1>1. /\ at'.phase = at.phase /\ at'.cur = at.cur /\ at'.next = at.next /\ at'.cb = kind
      /\ at' \in [phase : Phases, cb : {"none", "prepare", "query", "check", "dispatch"},
                  cur : Loops \cup {End}, next : Loops \cup {End}]
  BY DEF LoopsTyped
<1>3. LoopsTyped'
  BY <1>1 DEF LoopsTyped, loopVars, fdVars, timeVars, history
<1>4. EpollAgrees' /\ LeastAsked' /\ LoopCursors' /\ CheckSeesReady'
  BY <1>1 DEF EpollAgrees, LeastAsked, LoopCursors, CheckSeesReady, Walking, loopVars, fdVars, timeVars, history
<1>6. WokenArePolled'
  BY <1>1 DEF WokenArePolled, loopVars, fdVars, history
<1>7. QuietAhead'
  BY <1>1 DEF QuietAhead, Quiet, loopVars, fdVars
<1> QED  BY <1>3, <1>4, <1>6, <1>7

\* The walk is lost, and nothing follows.
LEMMA LostInv ==
    ASSUME SubloopsInv, UNCHANGED <<loopVars, fdVars, wanted, ready, timeVars, history>>,
           NEW how \in {"strayed", "crashed"}, at' = Lost(how)
    PROVE  SubloopsInv'
<1> USE DEF SubloopsInv
<1>1. /\ at'.phase = how /\ at'.cur = End /\ at'.next = End /\ at'.cb = "none"
      /\ at' \in [phase : Phases, cb : {"none", "prepare", "query", "check", "dispatch"},
                  cur : Loops \cup {End}, next : Loops \cup {End}]
  BY DEF Lost, Phases
<1>3. LoopsTyped'
  BY <1>1 DEF LoopsTyped, loopVars, fdVars, timeVars, history
<1>4. EpollAgrees' /\ LeastAsked' /\ LoopCursors' /\ CheckSeesReady'
  BY <1>1 DEF EpollAgrees, LeastAsked, LoopCursors, CheckSeesReady, Walking, loopVars, fdVars, timeVars, history
<1>6. WokenArePolled'
  BY <1>1 DEF WokenArePolled, loopVars, fdVars, history
<1>7. QuietAhead'
  BY <1>1 DEF QuietAhead
<1> QED  BY <1>3, <1>4, <1>6, <1>7

\* dispatch_subloops goes on to the next subloop, which was not checked yet.
LEMMA AdvanceInv ==
    ASSUME SubloopsInv, at.phase = "dispatch", at' = Advanced,
           UNCHANGED <<loopVars, fdVars, wanted, ready, timeVars, history>>
    PROVE  SubloopsInv'
<1> USE DEF SubloopsInv
<1>1. /\ Advanced \in [phase : Phases, cb : {"none", "prepare", "query", "check", "dispatch"},
                       cur : Loops \cup {End}, next : Loops \cup {End}]
      /\ Advanced.cb = "none"
      /\ at.next = End => Advanced.cur = End /\ Advanced.next = End /\ Advanced.phase = at.phase
      /\ at.next # End /\ state[at.next] # "on" => Advanced = Lost("strayed")
      /\ at.next # End /\ state[at.next] = "on" =>
           Advanced.cur = at.next /\ Advanced.next = After(at.next) /\ Advanced.phase = at.phase
  BY AdvancedFacts
<1>2. CASE at.next # End /\ state[at.next] # "on"
  BY <1>1, <1>2, LostInv
<1>3. CASE at.next = End
  <2>1. End \notin Loops
    BY SubloopsAssumption
  <2>2. LoopsTyped'
    BY <1>1 DEF LoopsTyped, loopVars, fdVars, timeVars, history
  <2>3. EpollAgrees' /\ LeastAsked' /\ LoopCursors' /\ CheckSeesReady' /\ WokenArePolled'
    BY <1>1, <1>3 DEF EpollAgrees, LeastAsked, LoopCursors, CheckSeesReady, WokenArePolled, Walking, loopVars, fdVars, timeVars,
                      history
  <2>4. QuietAhead'
    BY <1>1, <1>3, <2>1, LoopListFacts DEF QuietAhead, loopVars
  <2> QED  BY <2>2, <2>3, <2>4
<1>4. CASE at.next # End /\ state[at.next] = "on"
  <2> DEFINE l == at.next
             p == LoopPlace(l)
  <2>1. l \in Loops /\ state[l] = "on"
    BY <1>4 DEF LoopsTyped
  <2>2. /\ p \in DOMAIN subloops /\ subloops[p] = l
        /\ \A i \in DOMAIN subloops : subloops[i] = l => i = p
        /\ IF p = Len(subloops) THEN After(l) = End
           ELSE p + 1 \in DOMAIN subloops /\ After(l) = subloops[p + 1]
    BY <2>1, LoopPlaceFacts
  <2>3. /\ Len(subloops) \in Nat /\ DOMAIN subloops = 1 .. Len(subloops) /\ End \notin Loops
        /\ \A i \in DOMAIN subloops : subloops[i] \in Loops /\ state[subloops[i]] = "on"
        /\ \A i, j \in DOMAIN subloops : subloops[i] = subloops[j] => i = j
    BY LoopListFacts, SubloopsAssumption DEF LoopsTyped, IsInjective
  <2>4. at'.cur = l /\ at'.next = After(l) /\ at'.phase = "dispatch" /\ at'.cb = "none"
    BY <1>1, <1>4
  <2>5. LoopsTyped'
    BY <1>1 DEF LoopsTyped, loopVars, fdVars, timeVars, history
  <2>6. EpollAgrees' /\ LeastAsked' /\ CheckSeesReady' /\ WokenArePolled'
    BY <2>4 DEF EpollAgrees, LeastAsked, CheckSeesReady, WokenArePolled, loopVars, fdVars, timeVars, history
  <2> HIDE DEF l, p
  <2>7. LoopCursors'
    BY <2>1, <2>2, <2>3, <2>4 DEF LoopCursors, Walking, loopVars
  <2>8. \A j \in DOMAIN subloops : p <= j => Quiet(subloops[j])
    BY <2>2 DEF QuietAhead, l
  <2>9. \A i, j \in DOMAIN subloops : subloops[i] = After(l) /\ i <= j => p <= j /\ subloops[j] # l
    BY <2>2, <2>3
  <2>10. Quiet(l)
    BY <2>2, <2>3, <2>8
  <2>11. subloops' = subloops /\ \A k : Quiet(k)' <=> Quiet(k)
    BY DEF loopVars, fdVars, Quiet
  <2>12. QuietAhead'
    BY <2>4, <2>8, <2>9, <2>10, <2>11 DEF QuietAhead
  <2> QED  BY <2>5, <2>6, <2>7, <2>12
<1> QED  BY <1>2, <1>3, <1>4

\* Every subloop was asked.
LEMMA PreparedInv == ASSUME SubloopsInv, Prepared PROVE SubloopsInv'
<1> USE DEF Prepared, SubloopsInv
<1>1. /\ at'.phase = "poll" /\ at'.cur = at.cur /\ at'.next = at.next /\ at'.cb = at.cb
      /\ at' \in [phase : Phases, cb : {"none", "prepare", "query", "check", "dispatch"},
                  cur : Loops \cup {End}, next : Loops \cup {End}]
  BY DEF LoopsTyped, Phases
<1>2. at.phase = "prepare" /\ at.cur = End /\ at.next = End /\ at.cb = "none"
  BY DEF LoopCursors, Walking
<1>3. LoopsTyped'
  BY <1>1 DEF LoopsTyped, loopVars, fdVars, timeVars, history
<1>4. EpollAgrees' /\ LeastAsked' /\ LoopCursors' /\ CheckSeesReady' /\ WokenArePolled'
  BY <1>1, <1>2 DEF EpollAgrees, LeastAsked, LoopCursors, CheckSeesReady, WokenArePolled, Walking, loopVars, fdVars, timeVars,
                    history
<1>5. QuietAhead'
  <2>1. \A j \in DOMAIN subloops : Quiet(subloops[j])
    BY <1>2, LoopListFacts, SubloopsAssumption DEF QuietAhead
  <2> QED  BY <1>1, <2>1 DEF QuietAhead, Quiet, loopVars, fdVars
<1> QED  BY <1>3, <1>4, <1>5

\* mrp_mainloop_poll and subloop_event_cb: what is ready is to be polled for.
LEMMA WakeUpInv == ASSUME SubloopsInv, WakeUp PROVE SubloopsInv'
<1> USE DEF WakeUp, SubloopsInv
<1>1. /\ at'.phase = "callbacks" /\ at'.cur = at.cur /\ at'.next = at.next /\ at'.cb = "dispatch"
      /\ at' \in [phase : Phases, cb : {"none", "prepare", "query", "check", "dispatch"},
                  cur : Loops \cup {End}, next : Loops \cup {End}]
  BY DEF LoopsTyped, Phases
<1>2. LoopsTyped'
  BY SMTT(40), <1>1, SubloopsAssumption DEF LoopsTyped, loopVars
<1>3. EpollAgrees' /\ LeastAsked' /\ LoopCursors' /\ CheckSeesReady'
  BY <1>1 DEF EpollAgrees, LeastAsked, LoopCursors, CheckSeesReady, Walking, loopVars
<1>4. WokenArePolled'
  BY <1>1 DEF WokenArePolled, loopVars
<1>5. QuietAhead'
  BY <1>1 DEF QuietAhead, Quiet, loopVars
<1> QED  BY <1>2, <1>3, <1>4, <1>5

\* purge_deleted
LEMMA PurgeInv == ASSUME SubloopsInv, Purge PROVE SubloopsInv'
<1> USE DEF Purge, SubloopsInv
<1>1. /\ at'.phase = "others" /\ at'.cur = End /\ at'.next = End /\ at'.cb = "none"
      /\ at' \in [phase : Phases, cb : {"none", "prepare", "query", "check", "dispatch"},
                  cur : Loops \cup {End}, next : Loops \cup {End}]
  BY DEF At, Phases
<1>2. /\ state' \in [Loops -> {"new", "on", "deleted", "freed"}]
      /\ \A l \in Loops : state'[l] = "on" <=> state[l] = "on"
      /\ \A l \in Loops : state'[l] = "new" <=> state[l] = "new"
  BY DEF LoopsTyped
<1>3. LoopsTyped'
  BY <1>1, <1>2 DEF LoopsTyped, fdVars, timeVars
<1>4. EpollAgrees' /\ LeastAsked' /\ LoopCursors' /\ CheckSeesReady' /\ WokenArePolled'
  BY <1>1, <1>2 DEF EpollAgrees, LeastAsked, LoopCursors, CheckSeesReady, WokenArePolled, Walking, fdVars, timeVars
<1>5. QuietAhead'
  BY <1>1 DEF QuietAhead
<1> QED  BY <1>3, <1>4, <1>5

\* prepare_subloop takes over what the subloop asks for, and the walk goes on.
LEMMA QueryInv == ASSUME SubloopsInv, Query PROVE SubloopsInv'
<1> USE DEF SubloopsInv
<1>0. at.cur \in Loops /\ wanted[at.cur].fds \in Seq(Pollable)
  BY DEF Query, LoopCursors, Walking, LoopsTyped
<1> PICK l \in Loops : l = at.cur
  BY <1>0
<1> PICK new \in Seq(Pollable) : new = wanted[l].fds
  BY <1>0
<1>1. /\ Advanced \in [phase : Phases, cb : {"none", "prepare", "query", "check", "dispatch"},
                       cur : Loops \cup {End}, next : Loops \cup {End}]
      /\ Advanced.cb = "none"
      /\ at.next = End => Advanced.cur = End /\ Advanced.next = End /\ Advanced.phase = at.phase
      /\ at.next # End /\ state[at.next] # "on" => Advanced = Lost("strayed")
      /\ at.next # End /\ state[at.next] = "on" =>
           Advanced.cur = at.next /\ Advanced.next = After(at.next) /\ Advanced.phase = at.phase
  BY AdvancedFacts
<1>2. at.phase = "prepare" /\ l \in Loops /\ state[l] = "on" /\ at' = Advanced /\ UNCHANGED <<loopVars, woken, ready, wanted>>
  BY DEF Query, LoopCursors, Walking, LoopsTyped
<1>3. new \in Seq(Pollable) /\ wanted[l].timeout \in Int
  BY <1>2 DEF LoopsTyped
<1>4. LoopsTyped'
  <2>1. pollfds' \in [Loops -> Seq(Pollable)] /\ pollfds'[l] = new
        /\ \A k \in Loops \ {l} : pollfds'[k] = pollfds[k]
    BY <1>2, <1>3 DEF Query, LoopsTyped
  <2>2. [i \in DOMAIN new |-> FALSE] \in Seq(BOOLEAN) /\ Len([i \in DOMAIN new |-> FALSE]) = Len(new)
    <3>1. Len(new) \in Nat /\ DOMAIN new = 1 .. Len(new)
      BY <1>3, LenProperties
    <3> QED  BY <3>1, IsASeq, LenProperties
  <2>3. revents' \in [Loops -> Seq(BOOLEAN)] /\ revents'[l] = [i \in DOMAIN new |-> FALSE]
        /\ \A k \in Loops \ {l} : revents'[k] = revents[k]
    BY <1>2, <2>2 DEF Query, LoopsTyped
  <2>4. \A k \in Loops : Len(revents'[k]) = Len(pollfds'[k])
    BY <2>1, <2>2, <2>3 DEF LoopsTyped
  <2>5. EpollSet(new, epoll[l]) \in [Pollable -> Nat]
    BY <1>3, FirstPlaceFacts DEF EpollSet
  <2>6. epoll' \in [Loops -> [Pollable -> Nat]]
    BY <2>5 DEF Query, LoopsTyped
  <2>7. poll' \subseteq Loops /\ least' \in Int /\ asked' \subseteq Int
    BY <1>3 DEF Query, LoopsTyped
  <2> QED  BY <1>1, <1>2, <2>1, <2>3, <2>4, <2>6, <2>7 DEF LoopsTyped, loopVars
<1>5. EpollAgrees'
  <2>1. /\ \A k \in Loops \ {l} : pollfds'[k] = pollfds[k]
        /\ \A k \in Loops \ {l}, f \in Pollable :
              epoll'[k][f] = epoll[k][f] /\ (<<k, f>> \in reopened => <<k, f>> \in reopened')
    BY <1>2 DEF Query, LoopsTyped
  <2>2. pollfds'[l] = new
    BY <1>2 DEF Query, LoopsTyped
  <2>3. CASE new = pollfds[l]
    <3>1. epoll' = epoll /\ reopened' = reopened
      BY <2>3 DEF Query
    <3>2. pollfds' = pollfds /\ state' = state
      BY <1>2, <2>3 DEF Query, LoopsTyped, loopVars
    <3> QED  BY <3>1, <3>2 DEF EpollAgrees
  <2>4. CASE new # pollfds[l]
    <3>1. \A f \in Pollable : epoll'[l][f] = FirstPlace(new, f)
      BY <1>2, <2>4 DEF Query, LoopsTyped, EpollSet
    <3>2. state' = state /\ state[l] = "on"
      BY <1>2 DEF loopVars
    <3>3. ASSUME NEW k \in Loops
          PROVE  /\ state'[k] = "new" => pollfds'[k] = <<>>
                 /\ \A f \in Pollable :
                      /\ epoll'[k][f] \in {0, FirstPlace(pollfds'[k], f)}
                      /\ state'[k] = "on" /\ <<k, f>> \notin reopened' => epoll'[k][f] = FirstPlace(pollfds'[k], f)
      <4>1. CASE k = l
        BY <2>2, <3>1, <3>2, <4>1
      <4>2. CASE k # l
        BY <2>1, <3>2, <4>2 DEF EpollAgrees
      <4> QED  BY <4>1, <4>2
    <3> QED  BY <3>3 DEF EpollAgrees
  <2> QED  BY <2>3, <2>4
<1>6. LeastAsked'
  <2>1. \A t \in asked : t \in Int /\ least \in Int
    BY DEF LoopsTyped
  <2>2. /\ least' = IF wanted[l].timeout < least THEN wanted[l].timeout ELSE least
        /\ asked' = asked \cup {wanted[l].timeout}
    BY DEF Query
  <2> QED  BY <1>3, <2>1, <2>2 DEF LeastAsked, LoopsTyped
<1>7. /\ \A k \in Loops \ {l} : Quiet(k)' <=> Quiet(k)
      /\ Quiet(l)'
  <2>1. /\ \A k \in Loops \ {l} : revents'[k] = revents[k]
        /\ revents'[l] = [i \in DOMAIN new |-> FALSE]
    BY <1>2 DEF Query, LoopsTyped
  <2> QED  BY <2>1 DEF Quiet
<1>8. CheckSeesReady' /\ WokenArePolled'
  <2>1. woken = {} /\ at'.cb # "check"
    BY <1>1, <1>2 DEF WokenArePolled
  <2> QED  BY <1>2, <2>1 DEF CheckSeesReady, WokenArePolled
<1>9. /\ Len(subloops) \in Nat /\ DOMAIN subloops = 1 .. Len(subloops) /\ End \notin Loops
      /\ \A i \in DOMAIN subloops : subloops[i] \in Loops /\ state[subloops[i]] = "on"
      /\ \A i, j \in DOMAIN subloops : subloops[i] = subloops[j] => i = j
  BY LoopListFacts, SubloopsAssumption DEF LoopsTyped, IsInjective
<1>10. subloops' = subloops /\ state' = state
  BY <1>2 DEF loopVars
<1>11. CASE at.next # End /\ state[at.next] # "on"
  <2>1. at'.phase = "strayed" /\ at'.cur = End /\ at'.next = End /\ at'.cb = "none"
    BY <1>1, <1>2, <1>11 DEF Lost
  <2>2. LoopCursors' /\ QuietAhead'
    BY <2>1 DEF LoopCursors, QuietAhead, Walking
  <2> QED  BY <1>4, <1>5, <1>6, <1>8, <2>2
<1>12. CASE at.next = End
  <2>1. at'.phase = "prepare" /\ at'.cur = End /\ at'.next = End /\ at'.cb = "none"
    BY <1>1, <1>2, <1>12
  <2>2. ASSUME NEW j \in DOMAIN subloops
        PROVE  Quiet(subloops[j])'
    <3>1. subloops[j] = l \/ Quiet(subloops[j])
      BY <1>2, <1>12 DEF QuietAhead
    <3> QED  BY <1>7, <1>9, <1>10, <3>1
  <2>3. LoopCursors' /\ QuietAhead'
    BY <1>10, <2>1, <2>2 DEF LoopCursors, QuietAhead, Walking
  <2> QED  BY <1>4, <1>5, <1>6, <1>8, <2>3
<1>13. CASE at.next # End /\ state[at.next] = "on"
  <2> DEFINE m == at.next
             p == LoopPlace(m)
  <2>1. m \in Loops /\ state[m] = "on"
    BY <1>13 DEF LoopsTyped
  <2>2. /\ p \in DOMAIN subloops /\ subloops[p] = m
        /\ IF p = Len(subloops) THEN After(m) = End
           ELSE p + 1 \in DOMAIN subloops /\ After(m) = subloops[p + 1]
    BY <2>1, LoopPlaceFacts
  <2>3. at'.cur = m /\ at'.next = After(m) /\ at'.phase = "prepare" /\ at'.cb = "none"
    BY <1>1, <1>2, <1>13
  <2>4. ASSUME NEW j \in DOMAIN subloops, j < p
        PROVE  Quiet(subloops[j])'
    <3>1. subloops[j] = l \/ Quiet(subloops[j])
      BY <1>2, <2>2, <2>4 DEF QuietAhead
    <3> QED  BY <1>7, <1>9, <1>10, <3>1
  <2> HIDE DEF m, p
  <2>5. LoopCursors'
    BY <1>9, <1>10, <2>1, <2>2, <2>3 DEF LoopCursors, Walking
  <2>6. \A j \in DOMAIN subloops :
           (After(m) = End \/ \E i \in DOMAIN subloops : subloops[i] = After(m) /\ j < i) => j <= p
    BY <1>9, <2>2
  <2>7. QuietAhead'
    BY <1>9, <1>10, <2>2, <2>3, <2>4, <2>6 DEF QuietAhead
  <2> QED  BY <1>4, <1>5, <1>6, <1>8, <2>5, <2>7
<1> QED  BY <1>11, <1>12, <1>13

\* poll_subloop: check sees what is ready.
LEMMA PollSubloopInv == ASSUME SubloopsInv, PollSubloop PROVE SubloopsInv'
<1> USE DEF SubloopsInv
<1>0. at.cur \in Loops /\ pollfds[at.cur] \in Seq(Pollable)
  BY DEF PollSubloop, LoopCursors, Walking, LoopsTyped
<1> PICK l \in Loops : l = at.cur
  BY <1>0
<1> PICK fds \in Seq(Pollable) : fds = pollfds[l]
  BY <1>0
<1> DEFINE seen(i) == revents[l][i] \/ (l \in poll /\ fds[i] \in ready /\ epoll[l][fds[i]] = i)
<1>1. /\ at'.phase = "dispatch" /\ at'.cur = l /\ at'.next = at.next /\ at'.cb = "check" /\ at.phase = "dispatch"
      /\ at' \in [phase : Phases, cb : {"none", "prepare", "query", "check", "dispatch"},
                  cur : Loops \cup {End}, next : Loops \cup {End}]
  BY DEF PollSubloop, LoopsTyped
<1>2. l \in Loops /\ state[l] = "on" /\ Quiet(l)
  BY DEF PollSubloop, LoopCursors, Walking, QuietAhead, LoopsTyped
<1>3. UNCHANGED <<loopVars, pollfds, epoll, poll, wanted, ready, timeVars, history>>
  BY DEF PollSubloop
<1>4. DOMAIN fds = 1 .. Len(fds) /\ Len(fds) \in Nat /\ DOMAIN revents[l] = DOMAIN fds /\ fds \in Seq(Pollable)
      /\ revents[l] \in Seq(BOOLEAN)
  BY <1>2, LoopListFacts DEF LoopsTyped
<1>5. revents' = [revents EXCEPT ![l] = [i \in DOMAIN fds |-> seen(i)]]
  BY <1>2, <1>4 DEF PollSubloop, LoopsTyped
<1>6. /\ revents'[l] = [i \in DOMAIN fds |-> seen(i)]
      /\ \A k \in Loops \ {l} : revents'[k] = revents[k]
      /\ DOMAIN revents' = Loops
  BY <1>2, <1>5 DEF LoopsTyped
<1>7. LoopsTyped'
  <2>1. \A i \in DOMAIN fds : revents[l][i] \in BOOLEAN
    BY <1>4, ElementOfSeq
  <2>2. \A i \in DOMAIN fds : seen(i) \in BOOLEAN
    BY <2>1
  <2> HIDE DEF seen
  <2>3. [i \in DOMAIN fds |-> seen(i)] \in Seq(BOOLEAN) /\ Len([i \in DOMAIN fds |-> seen(i)]) = Len(fds)
    BY <1>4, <2>2, IsASeq, LenProperties
  <2>4. revents' \in [Loops -> Seq(BOOLEAN)]
    BY <1>2, <1>5, <2>3 DEF LoopsTyped
  <2>5. \A k \in Loops : Len(revents'[k]) = Len(pollfds[k])
    BY <1>6, <2>3 DEF LoopsTyped
  <2> QED  BY <1>1, <1>3, <2>4, <2>5 DEF LoopsTyped, loopVars, timeVars, history
<1>8. EpollAgrees' /\ LeastAsked' /\ LoopCursors' /\ WokenArePolled'
  <2>1. LoopCursors'
    <3>1. l # End
      BY SubloopsAssumption
    <3> QED  BY <1>1, <1>2, <1>3, <3>1 DEF LoopCursors, Walking, loopVars
  <2>2. EpollAgrees' /\ LeastAsked'
    BY <1>3 DEF EpollAgrees, LeastAsked, loopVars, timeVars, history
  <2> QED  BY <1>1, <1>3, <2>1, <2>2 DEF WokenArePolled, loopVars, history
<1>9. CheckSeesReady'
  <2>1. \A i \in DOMAIN fds : revents'[l][i] = (l \in poll /\ fds[i] \in ready /\ epoll[l][fds[i]] = i)
    BY <1>2, <1>4, <1>6 DEF Quiet
  <2>2. ASSUME NEW i \in DOMAIN fds, fds[i] \in woken \cap ready, <<l, fds[i]>> \notin reopened,
               \A j \in 1 .. i - 1 : fds[j] # fds[i]
        PROVE  l \in poll /\ epoll[l][fds[i]] = i
    <3>1. fds[i] \in Pollable /\ i # 0
      BY <1>4, ElementOfSeq
    <3>2. FirstPlace(fds, fds[i]) = i
      BY <1>4, <2>2, FirstPlaceFacts
    <3>3. epoll[l][fds[i]] = i
      BY <1>2, <2>2, <3>1, <3>2 DEF EpollAgrees
    <3> QED  BY <1>2, <2>2, <3>1, <3>3 DEF WokenArePolled
  <2>3. at'.cur = l /\ pollfds'[l] = fds /\ ready' = ready /\ woken' = woken /\ reopened' = reopened
    BY <1>1, <1>3 DEF history
  <2>4. ASSUME NEW i \in DOMAIN fds
        PROVE  /\ revents'[l][i] => fds[i] \in ready
               /\ fds[i] \in woken \cap ready /\ <<l, fds[i]>> \notin reopened
                  /\ (\A j \in 1 .. i - 1 : fds[j] # fds[i]) => revents'[l][i]
    BY <2>1, <2>2
  <2> HIDE DEF seen, SubloopsInv
  <2> QED  BY <2>3, <2>4 DEF CheckSeesReady
<1>10. QuietAhead'
  <2>1. subloops' = subloops
    BY <1>3 DEF loopVars
  <2>2. \A i, j \in DOMAIN subloops : subloops[i] = at.next /\ i <= j => subloops[j] # l
    BY DEF QuietAhead, PollSubloop
  <2> QED  BY <1>1, <1>6, <2>1, <2>2, LoopListFacts DEF QuietAhead, Quiet
<1> QED  BY <1>7, <1>8, <1>9, <1>10

\* Every step keeps the invariant.
LEMMA SubloopsNextInv == SubloopsInv /\ [SubloopsNext]_subloopVars => SubloopsInv'
<1> SUFFICES ASSUME SubloopsInv, [SubloopsNext]_subloopVars PROVE SubloopsInv'
  OBVIOUS
<1>1. CASE \E l \in Loops : \/ DelSubloop(l)
                            \/ \E fds \in FdLists, timeout \in Timeouts : AddSubloop(l, fds, timeout) \/ Wants(l, fds, timeout)
  BY <1>1, DelSubloopInv, AddSubloopInv, WantsInv
<1>2. CASE \E f \in Pollable : Reopen(f) \/ BecomesReady(f) \/ Drained(f)
  BY <1>2, ReopenInv, ReadyInv
<1>3. CASE CallPrepare
  <2>1. at.phase = "prepare" /\ at.cur # End /\ UNCHANGED <<loopVars, fdVars, wanted, ready, timeVars, history>>
    BY <1>3 DEF CallPrepare
  <2>2. state[at.cur] = "on"
    BY <1>3 DEF CallPrepare, SubloopsInv, LoopCursors, Walking
  <2>3. \E kind \in {"prepare", "query"} : at' = [at EXCEPT !.cb = kind]
    BY <1>3 DEF CallPrepare
  <2> QED  BY <2>1, <2>2, <2>3, CallbackInv
<1>4. CASE PrepareReturns
  <2>1. /\ at.phase = "prepare" /\ at.cur # End
        /\ UNCHANGED <<loopVars, fdVars, wanted, ready, timeVars, history>>
    BY <1>4 DEF PrepareReturns, SubloopsInv, LoopCursors, Walking
  <2>2. CASE state[at.cur] = "on"
    <3>1. at' = [at EXCEPT !.cb = "query"]
      BY <1>4, <2>2 DEF PrepareReturns
    <3> QED  BY <2>1, <2>2, <3>1, CallbackInv
  <2>3. CASE state[at.cur] # "on"
    <3>1. at' = Lost("crashed")
      BY <1>4, <2>3 DEF PrepareReturns
    <3> QED  BY <2>1, <3>1, LostInv
  <2> QED  BY <2>2, <2>3
<1>5. CASE Check
  <2>1. /\ at.phase = "dispatch" /\ at.cur # End
        /\ UNCHANGED <<loopVars, fdVars, wanted, ready, timeVars, history>>
    BY <1>5 DEF Check, SubloopsInv, LoopCursors, Walking
  <2>2. at' = [at EXCEPT !.cb = "dispatch"] \/ at' = Advanced
    BY <1>5 DEF Check
  <2> QED  BY <2>1, <2>2, CallbackInv, AdvanceInv
<1>6. CASE DispatchReturns
  BY <1>6, AdvanceInv DEF DispatchReturns
<1>7. CASE UNCHANGED subloopVars
  <2> USE DEF SubloopsInv
  <2>1. UNCHANGED <<loopVars, fdVars, wanted, ready, at, timeVars, history>>
    BY <1>7 DEF subloopVars
  <2>2. LoopsTyped'
    BY <2>1 DEF LoopsTyped, loopVars, fdVars, timeVars, history
  <2>3. EpollAgrees' /\ LoopCursors' /\ WokenArePolled' /\ CheckSeesReady' /\ LeastAsked'
    BY <2>1 DEF EpollAgrees, LoopCursors, Walking, WokenArePolled, CheckSeesReady, LeastAsked, loopVars, fdVars, timeVars, history
  <2>4. QuietAhead'
    BY <2>1 DEF QuietAhead, Quiet, loopVars, fdVars
  <2> QED  BY <2>2, <2>3, <2>4
<1> QED  BY <1>1, <1>2, <1>3, <1>4, <1>5, <1>6, <1>7, StartPrepareInv, QueryInv, PreparedInv, WakeUpInv,
            StartSubloopsInv, PollSubloopInv, PurgeInv DEF SubloopsNext

\* What the invariant says of a state.
LEMMA SubloopsInvServes == SubloopsInv => SubloopsAreServed
<1> SUFFICES ASSUME SubloopsInv PROVE SubloopsAreServed
  OBVIOUS
<1> USE DEF SubloopsInv
<1>1. at.cb = "check" =>
        \A i \in DOMAIN pollfds[at.cur] :
            /\ revents[at.cur][i] => pollfds[at.cur][i] \in ready
            /\ pollfds[at.cur][i] \in woken \cap ready /\ <<at.cur, pollfds[at.cur][i]>> \notin reopened
               /\ (\A j \in 1 .. i - 1 : pollfds[at.cur][j] # pollfds[at.cur][i]) => revents[at.cur][i]
  BY DEF CheckSeesReady
<1>2. ASSUME NEW l \in Loops, NEW f \in Pollable, epoll[l][f] # 0
      PROVE  epoll[l][f] \in DOMAIN pollfds[l] /\ pollfds[l][epoll[l][f]] = f
  <2>1. pollfds[l] \in Seq(Pollable) /\ epoll[l][f] = FirstPlace(pollfds[l], f)
    BY <1>2 DEF EpollAgrees, LoopsTyped
  <2> QED  BY <1>2, <2>1, FirstPlaceFacts
<1>3. ToSet(subloops) = {l \in Loops : state[l] = "on"} /\ IsInjective(subloops)
  BY DEF LoopsTyped
<1>4. ASSUME -1 \notin asked, NEW own \in OwnTimeouts, NEW t \in asked
      PROVE  PollTimeout(own) <= t
  <2>1. own \in Nat /\ t \in Int /\ least \in Int /\ INT_MAX \in Nat
    BY SubloopsAssumption DEF LoopsTyped
  <2>2. least <= t /\ least # -1
    BY <1>4, <2>1 DEF LeastAsked
  <2> QED  BY <2>1, <2>2 DEF PollTimeout
<1> QED  BY <1>1, <1>2, <1>3, <1>4 DEF SubloopsAreServed

\* Whatever subloops do in their callbacks, as long as the loop is not lost the
\* check of a subloop is shown what is ready and nothing else, epoll points into
\* the descriptors it polls, and the loop sleeps past no timeout it was given
\* (prepare_subloop, poll_subloop, mrp_mainloop_prepare, mrp_del_subloop).
THEOREM SubloopsServed == SubloopsSpec => []SubloopsAreServed
<1>1. SubloopsInit => SubloopsInv
  BY SubloopsInitInv
<1>2. SubloopsInv /\ [SubloopsNext]_subloopVars => SubloopsInv'
  BY SubloopsNextInv
<1>3. SubloopsInv => SubloopsAreServed
  BY SubloopsInvServes
<1> QED  BY <1>1, <1>2, <1>3, PTL DEF SubloopsSpec
==============================================================================
