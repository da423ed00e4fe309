--------------------------- MODULE DeferredProofs ---------------------------
(***************************************************************************)
(* What the list operations preserve, and the safety properties of what is *)
(* built on them: of Deferred, for any set of deferred callbacks, and of   *)
(* Hashtbl, for any buckets and keys; and those of Memory, for any pools.  *)
(***************************************************************************)
EXTENDS Deferred, Hashtbl, Memory, ListFacts, Naturals, WellFoundedInduction, TLAPS

(***************************************************************************)
(* The list operations, for any set of hooks, finite or not.               *)
(*                                                                         *)
(* RingOf relates the pointers to a labelling: every hook is labelled with *)
(* the head of the ring it is in (home, itself when it is alone) and has a *)
(* rank that grows along next until the head is met again.  The rank is    *)
(* what makes a ring without its head impossible: in one, the rank would   *)
(* have to grow for ever.                                                  *)
(***************************************************************************)

Ranked(L, H, ring, rank) ==
    \A h \in H : L.next[h] # ring[h] => rank[L.next[h]] > rank[h]

RingOf(L, H, ring, rank) ==
    /\ L \in LinkMaps(H)
    /\ ring \in [H -> H]
    /\ rank \in [H -> Nat]
    /\ WellLinked(L, H)
    /\ SameRing(L, H, ring)
    /\ \A h \in H : ring[ring[h]] = ring[h]
    /\ Ranked(L, H, ring, rank)

(***************************************************************************)
(* A hook that is not the head of its ring is not its own successor.       *)
(***************************************************************************)
LEMMA NotAlone ==
    ASSUME NEW H, NEW L, NEW ring, NEW rank, RingOf(L, H, ring, rank),
           NEW h \in H, ring[h] # h
    PROVE  L.next[h] # h /\ L.prev[h] # h
<1>1. L.next[h] # h
  <2>1. SUFFICES ASSUME L.next[h] = h PROVE FALSE
    OBVIOUS
  <2>2. rank[h] > rank[h]
    BY <2>1 DEF RingOf, Ranked
  <2>3. rank[h] \in Nat
    BY DEF RingOf
  <2>. QED
    BY <2>2, <2>3
<1>2. L.prev[h] # h
  BY <1>1 DEF RingOf, WellLinked
<1>. QED
  BY <1>1, <1>2

(***************************************************************************)
(* mrp_list_init of an object nothing is linked to leaves every ring alone.*)
(***************************************************************************)
LEMMA InitKeepsRings ==
    ASSUME NEW H, NEW L, NEW ring, NEW rank, RingOf(L, H, ring, rank),
           NEW h \in H, L.next[h] = h
    PROVE  ListInit(L, h) = L
<1>1. L.prev[h] = h
  BY DEF RingOf, WellLinked
<1>2. /\ L = [prev |-> L.prev, next |-> L.next]
      /\ L.prev \in [H -> H] /\ L.next \in [H -> H]
  BY DEF RingOf, LinkMaps
<1>. QED
  BY <1>1, <1>2 DEF ListInit

\* No hook but h itself is in a ring headed by h.
NoMembers(H, ring, h) == \A x \in H : ring[x] = h => x = h

(***************************************************************************)
(* A hook without members is alone.                                        *)
(***************************************************************************)
LEMMA NoMembersAlone ==
    ASSUME NEW H, NEW L, NEW ring, NEW rank, RingOf(L, H, ring, rank),
           NEW h \in H, ring[h] = h, NoMembers(H, ring, h)
    PROVE  L.next[h] = h /\ L.prev[h] = h
<1>1. L.next[h] \in H /\ ring[L.next[h]] = h
  BY DEF RingOf, LinkMaps, SameRing
<1>2. L.next[h] = h
  BY <1>1 DEF NoMembers
<1>. QED
  BY <1>2 DEF RingOf, WellLinked

(***************************************************************************)
(* And an empty list has no members: a member of least rank would be the   *)
(* successor of the head.                                                  *)
(***************************************************************************)
LEMMA EmptyListNoMembers ==
    ASSUME NEW H, NEW L, NEW ring, NEW rank, RingOf(L, H, ring, rank),
           NEW h \in H, ring[h] = h, L.next[h] = h
    PROVE  NoMembers(H, ring, h)
<1> DEFINE Members == {x \in H : ring[x] = h /\ x # h}
           Ranks   == {rank[x] : x \in Members}
<1>1. SUFFICES ASSUME Members # {} PROVE FALSE
  BY DEF NoMembers
<1>2. Ranks \subseteq Nat /\ Ranks # {}
  BY <1>1 DEF RingOf
<1>3. PICK r \in Ranks : \A s \in Ranks : ~(<<s, r>> \in OpToRel(<, Nat))
  <2> HIDE DEF Ranks
  <2>. QED
    BY <1>2, NatLessThanWellFounded, WFMin
<1>4. PICK m \in Members : r = rank[m]
  BY <1>3
<1>5. \A x \in Members : ~(rank[x] < rank[m])
  BY <1>2, <1>3, <1>4 DEF OpToRel
<1> DEFINE q == L.prev[m]
<1>6. q \in H /\ L.next[q] = m
  BY DEF RingOf, LinkMaps, WellLinked
<1>7. ring[q] = h /\ q # h
  BY <1>6 DEF RingOf, SameRing
<1>8. rank[m] > rank[q]
  BY <1>6, <1>7 DEF RingOf, Ranked
<1>9. rank[m] \in Nat /\ rank[q] \in Nat
  BY <1>6 DEF RingOf
<1>. QED
  BY <1>5, <1>6, <1>7, <1>8, <1>9

(***************************************************************************)
(* mrp_list_delete of a hook that heads no members leaves it alone and the *)
(* rest of its ring linked.                                                *)
(***************************************************************************)
LEMMA DeleteKeepsRings ==
    ASSUME NEW H, NEW L, NEW ring, NEW rank, RingOf(L, H, ring, rank),
           NEW h \in H, NoMembers(H, ring, h)
    PROVE  /\ RingOf(ListDelete(L, h), H, [ring EXCEPT ![h] = h], rank)
           /\ NoMembers(H, [ring EXCEPT ![h] = h], h)
<1> DEFINE M    == ListDelete(L, h)
           ring2 == [ring EXCEPT ![h] = h]
<1>1. /\ L.next \in [H -> H] /\ L.prev \in [H -> H]
      /\ ring \in [H -> H] /\ rank \in [H -> Nat]
      /\ \A x \in H : L.next[L.prev[x]] = x /\ L.prev[L.next[x]] = x
      /\ \A x \in H : ring[L.next[x]] = ring[x] /\ ring[L.prev[x]] = ring[x]
      /\ \A x \in H : ring[ring[x]] = ring[x]
      /\ \A x \in H : L.next[x] # ring[x] => rank[L.next[x]] > rank[x]
  BY DEF RingOf, LinkMaps, WellLinked, SameRing, Ranked
<1>2. /\ M \in LinkMaps(H)
      /\ \A x \in H : M.next[x] = IF x = h THEN h
                                  ELSE IF x = L.prev[h] THEN L.next[h]
                                  ELSE L.next[x]
      /\ \A x \in H : M.prev[x] = IF x = h THEN h
                                  ELSE IF x = L.next[h] THEN L.prev[h]
                                  ELSE L.prev[x]
  BY <1>1 DEF ListDelete, LinkMaps
<1>3. \A x \in H : ring2[x] = IF x = h THEN h ELSE ring[x]
  BY <1>1
<1>4. \A x \in H : x # h => ring[x] # h
  BY DEF NoMembers
<1>5. WellLinked(M, H)
  BY <1>1, <1>2 DEF WellLinked
<1>6. SameRing(M, H, ring2)
  BY <1>1, <1>2, <1>3 DEF SameRing
<1>7. \A x \in H : ring2[ring2[x]] = ring2[x]
  BY <1>1, <1>3, <1>4
<1>8. Ranked(M, H, ring2, rank)
  <2>1. SUFFICES ASSUME NEW x \in H, M.next[x] # ring2[x]
                 PROVE  rank[M.next[x]] > rank[x]
    BY DEF Ranked
  <2>2. x # h
    BY <1>2, <1>3, <2>1
  <2>3. CASE x = L.prev[h]
    <3>1. M.next[x] = L.next[h] /\ L.next[x] = h
      BY <1>1, <1>2, <2>2, <2>3
    <3>2. ring[x] = ring[h] /\ ring2[x] = ring[x]
      BY <1>1, <1>3, <2>2, <2>3
    <3>3. rank[L.next[h]] > rank[h]
      BY <1>1, <2>1, <3>1, <3>2
    <3>4. rank[h] > rank[x]
      BY <1>1, <1>4, <2>2, <3>1
    <3>5. rank[h] \in Nat /\ rank[x] \in Nat /\ rank[L.next[h]] \in Nat
      BY <1>1
    <3>. QED
      BY <3>1, <3>3, <3>4, <3>5
  <2>4. CASE x # L.prev[h]
    BY <1>1, <1>2, <1>3, <2>1, <2>2, <2>4
  <2>. QED
    BY <2>3, <2>4
<1>9. NoMembers(H, ring2, h)
  BY <1>3, <1>4 DEF NoMembers
<1>. QED
  BY <1>1, <1>2, <1>3, <1>5, <1>6, <1>7, <1>8, <1>9 DEF RingOf

(***************************************************************************)
(* mrp_list_append of a hook that is alone puts it into the ring of list.  *)
(***************************************************************************)
LEMMA AppendKeepsRings ==
    ASSUME NEW H, NEW L, NEW ring, NEW rank, RingOf(L, H, ring, rank),
           NEW list \in H, ring[list] = list,
           NEW h \in H, h # list, ring[h] = h, NoMembers(H, ring, h)
    PROVE  \E r : RingOf(ListAppend(L, list, h), H,
                         [ring EXCEPT ![h] = list], r)
<1> DEFINE M     == ListAppend(L, list, h)
           ring2 == [ring EXCEPT ![h] = list]
           r     == [rank EXCEPT ![h] = rank[L.prev[list]] + 1]
<1>1. /\ L.next \in [H -> H] /\ L.prev \in [H -> H]
      /\ ring \in [H -> H] /\ rank \in [H -> Nat]
      /\ \A x \in H : L.next[L.prev[x]] = x /\ L.prev[L.next[x]] = x
      /\ \A x \in H : ring[L.next[x]] = ring[x] /\ ring[L.prev[x]] = ring[x]
      /\ \A x \in H : ring[ring[x]] = ring[x]
      /\ \A x \in H : L.next[x] # ring[x] => rank[L.next[x]] > rank[x]
  BY DEF RingOf, LinkMaps, WellLinked, SameRing, Ranked
<1>2. L.next[h] = h /\ L.prev[h] = h
  BY NoMembersAlone
<1>3. /\ M \in LinkMaps(H)
      /\ \A x \in H : M.next[x] = IF x = h THEN list
                                  ELSE IF x = L.prev[list] THEN h
                                  ELSE L.next[x]
      /\ \A x \in H : M.prev[x] = IF x = list THEN h
                                  ELSE IF x = h THEN L.prev[list]
                                  ELSE L.prev[x]
  BY <1>1, <1>2 DEF ListAppend, LinkMaps
<1>4. \A x \in H : ring2[x] = IF x = h THEN list ELSE ring[x]
  BY <1>1
<1>5. \A x \in H : x # h => ring[x] # h
  BY DEF NoMembers
<1>6. L.prev[list] # h /\ L.prev[list] \in H
  BY <1>1, <1>2
<1>7. WellLinked(M, H)
  BY <1>1, <1>2, <1>3, <1>6 DEF WellLinked
<1>8. SameRing(M, H, ring2)
  BY <1>1, <1>2, <1>3, <1>4, <1>6 DEF SameRing
<1>9. \A x \in H : ring2[ring2[x]] = ring2[x]
  BY <1>1, <1>4, <1>5
<1>10. r \in [H -> Nat]
  BY <1>1, <1>6
<1>11. Ranked(M, H, ring2, r)
  <2>1. SUFFICES ASSUME NEW x \in H, M.next[x] # ring2[x]
                 PROVE  r[M.next[x]] > r[x]
    BY DEF Ranked
  <2>2. x # h
    BY <1>3, <1>4, <2>1
  <2>3. CASE x = L.prev[list]
    <3>1. M.next[x] = h
      BY <1>3, <2>2, <2>3
    <3>2. r[h] = rank[x] + 1 /\ r[x] = rank[x] /\ rank[x] \in Nat
      BY <1>1, <2>2, <2>3
    <3>. QED
      BY <3>1, <3>2
  <2>4. CASE x # L.prev[list]
    <3>1. M.next[x] = L.next[x] /\ L.next[x] # h
      BY <1>1, <1>2, <1>3, <2>2, <2>4
    <3>2. rank[L.next[x]] > rank[x]
      BY <1>1, <1>4, <2>1, <2>2, <3>1
    <3>. QED
      BY <1>1, <2>2, <3>1, <3>2
  <2>. QED
    BY <2>3, <2>4
<1>. QED
  BY <1>1, <1>3, <1>4, <1>7, <1>8, <1>9, <1>10, <1>11 DEF RingOf

(***************************************************************************)
(* Moving a hook that heads no members to the ring of list.                *)
(***************************************************************************)
LEMMA MoveKeepsRings ==
    ASSUME NEW H, NEW L, NEW ring, NEW rank, RingOf(L, H, ring, rank),
           NEW list \in H, ring[list] = list,
           NEW h \in H, h # list, NoMembers(H, ring, h)
    PROVE  \E r : RingOf(ListMove(L, list, h), H,
                         [ring EXCEPT ![h] = list], r)
<1> DEFINE ring1 == [ring EXCEPT ![h] = h]
<1>1. /\ RingOf(ListDelete(L, h), H, ring1, rank)
      /\ NoMembers(H, ring1, h)
  BY DeleteKeepsRings
<1>2. ring \in [H -> H]
  BY DEF RingOf
<1>3. ring1[list] = list /\ ring1[h] = h
  BY <1>2
<1>4. [ring1 EXCEPT ![h] = list] = [ring EXCEPT ![h] = list]
  BY <1>2
<1> HIDE DEF ring1
<1>5. \E r : RingOf(ListAppend(ListDelete(L, h), list, h), H,
                    [ring1 EXCEPT ![h] = list], r)
  BY <1>1, <1>3, AppendKeepsRings
<1>. QED
  BY <1>4, <1>5 DEF ListMove

-----------------------------------------------------------------------------
(***************************************************************************)
(* The safety properties of Deferred.                                      *)
(*                                                                         *)
(* The inductive invariant says, besides the properties themselves, that   *)
(* the links form rings labelled by home (RingOf, whose rank excludes a    *)
(* ring without its head), that only allocated objects are in a ring       *)
(* other than their own, that the cursors p and n are different as long as *)
(* the walk has not come back to its head, and that a loop that is about   *)
(* to sleep has nothing on its active list but what came late.             *)
(***************************************************************************)

Rings == \E rank : RingOf(links, Hooks, home, rank)

Homes ==
    /\ \A h \in Heads : home[h] = h
    /\ \A d \in Deferreds : home[d] \in Heads \union {d}
    /\ \A d \in Deferreds : allocated[d] <=> home[d] # d

Walk ==
    /\ pc \in {"check", "callback", "after"} => home[p] = Active /\ home[n] = Active
    /\ pc = "check" /\ p # Active => p # n
    /\ pc \in {"callback", "after"} => p \in Deferreds /\ p # n

Sleep ==
    pc \in {"subloops", "poll"} /\ blocks =>
        \A d \in Deferreds : home[d] = Active => d \in late

IInv ==
    /\ TypeOK
    /\ Homes
    /\ Rings
    /\ EnabledIsQueued
    /\ Walk
    /\ Sleep
    /\ DestroyFreesAll

-----------------------------------------------------------------------------
LEMMA HookFacts ==
    /\ Active \in Heads /\ Inactive \in Heads /\ Deleted \in Heads
    /\ Active # Inactive /\ Active # Deleted /\ Inactive # Deleted
    /\ Heads \subseteq Hooks /\ Deferreds \subseteq Hooks
    /\ \A d \in Deferreds : d \notin Heads
    /\ \A h \in Hooks : h \in Deferreds \/ h \in Heads
BY DeferredsAssumption DEF Active, Inactive, Deleted, Heads, Hooks

(***************************************************************************)
(* A deferred callback never heads a ring of others.                       *)
(***************************************************************************)
LEMMA DeferredHasNoMembers ==
    ASSUME IInv, NEW d \in Deferreds
    PROVE  NoMembers(Hooks, home, d)
BY HookFacts DEF IInv, Homes, NoMembers

(***************************************************************************)
(* Moving an object to one of the lists, and freeing one, keep the rings.  *)
(***************************************************************************)
LEMMA RelinkKeepsRings ==
    ASSUME IInv, NEW d \in Deferreds, NEW head \in Heads
    PROVE  \E r : RingOf(ListMove(links, head, d), Hooks,
                         [home EXCEPT ![d] = head], r)
<1>1. PICK rank : RingOf(links, Hooks, home, rank)
  BY DEF IInv, Rings
<1>2. NoMembers(Hooks, home, d)
  BY DeferredHasNoMembers
<1>3. head \in Hooks /\ d \in Hooks /\ d # head /\ home[head] = head
  BY HookFacts DEF IInv, Homes
<1>. QED
  BY <1>1, <1>2, <1>3, MoveKeepsRings

LEMMA FreeKeepsRings ==
    ASSUME IInv, NEW d \in Deferreds
    PROVE  \E r : RingOf(ListDelete(links, d), Hooks,
                         [home EXCEPT ![d] = d], r)
<1>1. PICK rank : RingOf(links, Hooks, home, rank)
  BY DEF IInv, Rings
<1>2. NoMembers(Hooks, home, d)
  BY DeferredHasNoMembers
<1>. QED
  BY <1>1, <1>2, HookFacts, DeleteKeepsRings

LEMMA AddKeepsRings ==
    ASSUME IInv, NEW d \in Deferreds, ~allocated[d]
    PROVE  \E r : RingOf(ListAppend(ListInit(links, d), Active, d), Hooks,
                         [home EXCEPT ![d] = Active], r)
<1>1. PICK rank : RingOf(links, Hooks, home, rank)
  BY DEF IInv, Rings
<1>2. NoMembers(Hooks, home, d) /\ home[d] = d
  BY DeferredHasNoMembers DEF IInv, Homes
<1>3. /\ Active \in Hooks /\ d \in Hooks /\ d # Active
      /\ home[Active] = Active
  BY HookFacts DEF IInv, Homes
<1>4. links.next[d] = d
  BY <1>1, <1>2, <1>3, NoMembersAlone
<1>5. ListInit(links, d) = links
  BY <1>1, <1>3, <1>4, InitKeepsRings
<1>. QED
  BY <1>1, <1>2, <1>3, <1>5, AppendKeepsRings

(***************************************************************************)
(* An empty list has no object on it.                                      *)
(***************************************************************************)
LEMMA EmptyMeansNone ==
    ASSUME IInv, NEW head \in Heads, links.next[head] = head,
           NEW d \in Deferreds
    PROVE  home[d] # head
<1>1. PICK rank : RingOf(links, Hooks, home, rank)
  BY DEF IInv, Rings
<1>2. home[head] = head /\ head \in Hooks
  BY HookFacts DEF IInv, Homes
<1>3. NoMembers(Hooks, home, head)
  BY <1>1, <1>2, EmptyListNoMembers
<1>. QED
  BY <1>3, HookFacts DEF NoMembers

(***************************************************************************)
(* The successor of a hook is a hook of the same ring, and another one     *)
(* unless the hook is a head.                                              *)
(***************************************************************************)
LEMMA SuccessorInRing ==
    ASSUME NEW L, NEW hm, NEW rank, RingOf(L, Hooks, hm, rank),
           NEW h \in Hooks
    PROVE  /\ L.next[h] \in Hooks
           /\ hm[L.next[h]] = hm[h]
           /\ hm[h] # h => L.next[h] # h
<1>1. L.next[h] \in Hooks /\ hm[L.next[h]] = hm[h]
  BY DEF RingOf, LinkMaps, SameRing
<1>2. hm[h] # h => L.next[h] # h
  BY NotAlone
<1>. QED
  BY <1>1, <1>2

-----------------------------------------------------------------------------
LEMMA InitInvariant == Init => IInv
<1> SUFFICES ASSUME Init PROVE IInv
  OBVIOUS
<1>1. TypeOK
  BY HookFacts DEF Init, TypeOK, LinkMaps, InitLinks, Phases
<1>2. Homes
  BY HookFacts DEF Init, Homes
<1>3. Rings
  <2> DEFINE rank == [h \in Hooks |-> 0]
  <2>1. RingOf(links, Hooks, home, rank)
    BY <1>1 DEF Init, RingOf, InitLinks, LinkMaps, WellLinked, SameRing,
                Ranked, TypeOK
  <2>. QED
    BY <2>1 DEF Rings
<1>4. EnabledIsQueued
  BY DEF Init, EnabledIsQueued, Enabled
<1>5. Walk /\ Sleep /\ DestroyFreesAll
  BY DEF Init, Walk, Sleep, DestroyFreesAll
<1>. QED
  BY <1>1, <1>2, <1>3, <1>4, <1>5 DEF IInv

(***************************************************************************)
(* The client calls.                                                       *)
(***************************************************************************)
LEMMA AddInvariant ==
    ASSUME IInv, NEW d \in Deferreds, AddDeferred(d)
    PROVE  IInv'
<1>1. PICK r : RingOf(links', Hooks, home', r)
  BY AddKeepsRings DEF AddDeferred
<1>2. Rings'
  BY <1>1 DEF Rings
<1>3. TypeOK'
  BY <1>1, HookFacts
     DEF IInv, TypeOK, AddDeferred, RingOf, NoteLate, loopvars
<1>4. home' = [home EXCEPT ![d] = Active] /\ home \in [Hooks -> Hooks]
  BY DEF IInv, TypeOK, AddDeferred
<1>5. Homes'
  BY <1>4, HookFacts DEF IInv, TypeOK, Homes, AddDeferred
<1>6. EnabledIsQueued'
  BY <1>4, HookFacts
     DEF IInv, TypeOK, EnabledIsQueued, Enabled, AddDeferred
<1>7. Walk'
  BY <1>4, HookFacts DEF IInv, TypeOK, Homes, Walk, AddDeferred, loopvars
<1>8. Sleep'
  BY <1>4, HookFacts
     DEF IInv, TypeOK, Sleep, AddDeferred, loopvars, NoteLate, ClientRuns
<1>9. DestroyFreesAll'
  BY DEF DestroyFreesAll, AddDeferred, ClientRuns, loopvars
<1>. QED
  BY <1>2, <1>3, <1>5, <1>6, <1>7, <1>8, <1>9 DEF IInv

LEMMA EnableInvariant ==
    ASSUME IInv, NEW d \in Deferreds, EnableDeferred(d)
    PROVE  IInv'
<1>1. PICK r : RingOf(links', Hooks, home', r)
  BY RelinkKeepsRings, HookFacts DEF EnableDeferred
<1>2. Rings'
  BY <1>1 DEF Rings
<1>3. TypeOK'
  BY <1>1, HookFacts
     DEF IInv, TypeOK, EnableDeferred, RingOf, NoteLate, loopvars
<1>4. home' = [home EXCEPT ![d] = Active] /\ home \in [Hooks -> Hooks]
  BY DEF IInv, TypeOK, EnableDeferred
<1>5. Homes'
  BY <1>4, HookFacts DEF IInv, TypeOK, Homes, EnableDeferred
<1>6. EnabledIsQueued'
  BY <1>4, HookFacts
     DEF IInv, TypeOK, EnabledIsQueued, Enabled, EnableDeferred
<1>7. Walk'
  BY <1>4, HookFacts DEF IInv, TypeOK, Homes, Walk, EnableDeferred, loopvars
<1>8. Sleep'
  BY <1>4, HookFacts
     DEF IInv, TypeOK, Sleep, EnableDeferred, loopvars, NoteLate, ClientRuns
<1>9. DestroyFreesAll'
  BY DEF DestroyFreesAll, EnableDeferred, ClientRuns, loopvars
<1>. QED
  BY <1>2, <1>3, <1>5, <1>6, <1>7, <1>8, <1>9 DEF IInv

\* Deleting, disabling and quitting only set a mark.
LEMMA MarkInvariant ==
    ASSUME IInv,
           (\E d \in Deferreds : DelDeferred(d) \/ DisableDeferred(d)) \/ Quit
    PROVE  IInv'
<1>1. /\ UNCHANGED <<links, home, allocated, late, blocks, pc, p, n>>
      /\ \A d \in Deferreds : Enabled(d)' => Enabled(d)
      /\ ClientRuns
  BY DEF IInv, TypeOK, DelDeferred, DisableDeferred, Quit, loopvars, objvars,
         Enabled
<1>2. TypeOK'
  BY <1>1 DEF IInv, TypeOK, DelDeferred, DisableDeferred, Quit, loopvars,
              objvars
<1>3. EnabledIsQueued'
  BY <1>1 DEF IInv, EnabledIsQueued
<1>4. Homes' /\ Rings' /\ Walk' /\ Sleep' /\ DestroyFreesAll'
  BY <1>1 DEF IInv, Homes, Rings, Walk, Sleep, DestroyFreesAll, ClientRuns
<1>. QED
  BY <1>2, <1>3, <1>4 DEF IInv

(***************************************************************************)
(* The steps of an iteration that relink nothing.                          *)
(***************************************************************************)
LEMMA PhaseInvariant ==
    ASSUME IInv,
           \/ Prepare \/ SubloopsPrepared \/ Poll \/ EndWalk \/ Visit
           \/ CallbackReturns \/ OthersDone \/ EndIteration
           \/ Destroy \/ DestroyDone
    PROVE  IInv'
<1>1. UNCHANGED <<links, home, allocated, cb, inactive, quit>>
  BY DEF Prepare, SubloopsPrepared, Poll, EndWalk, Visit, CallbackReturns,
         OthersDone, EndIteration, Destroy, DestroyDone, objvars
<1>2. Homes' /\ Rings' /\ EnabledIsQueued'
  BY <1>1 DEF IInv, Homes, Rings, EnabledIsQueued, Enabled
<1>3. \A h \in Hooks : links.next[h] \in Hooks
  BY DEF IInv, TypeOK, LinkMaps
<1>4. TypeOK'
  BY <1>1, <1>3, HookFacts
     DEF IInv, TypeOK, Prepare, SubloopsPrepared, Poll, EndWalk, Visit,
         CallbackReturns, OthersDone, EndIteration, Destroy, DestroyDone,
         Phases, ListEmpty
<1>5. Walk'
  <2>1. CASE Poll
    <3>1. home[Active] = Active /\ Active \in Hooks
      BY HookFacts DEF IInv, Homes
    <3>2. PICK rank : RingOf(links, Hooks, home, rank)
      BY DEF IInv, Rings
    <3> DEFINE f == links.next[Active]
    <3>3. f \in Hooks /\ home[f] = Active
      BY <3>1, <3>2, SuccessorInRing
    <3> HIDE DEF f
    <3>4. /\ home[links.next[f]] = Active
          /\ f # Active => links.next[f] # f
      BY <3>2, <3>3, SuccessorInRing
    <3>. QED
      BY <1>1, <2>1, <3>3, <3>4 DEF Walk, Poll, f
  <2>2. CASE Visit
    BY <2>2, HookFacts DEF IInv, TypeOK, Homes, Walk, Visit, objvars
  <2>3. CASE CallbackReturns
    BY <2>3 DEF IInv, Walk, CallbackReturns, objvars
  <2>4. CASE \/ Prepare \/ SubloopsPrepared \/ EndWalk \/ OthersDone
             \/ EndIteration \/ Destroy \/ DestroyDone
    BY <2>4 DEF Walk, Prepare, SubloopsPrepared, EndWalk, OthersDone,
                EndIteration, Destroy, DestroyDone
  <2>. QED
    BY <2>1, <2>2, <2>3, <2>4
<1>6. Sleep'
  <2>1. CASE Prepare
    <3>1. blocks' => links.next[Active] = Active
      BY <2>1 DEF Prepare, ListEmpty
    <3>2. blocks' => \A d \in Deferreds : home[d] # Active
      BY <3>1, EmptyMeansNone, HookFacts
    <3>. QED
      BY <1>1, <3>2 DEF Sleep
  <2>2. CASE SubloopsPrepared
    BY <2>2 DEF IInv, Sleep, SubloopsPrepared, objvars
  <2>3. CASE \/ Poll \/ EndWalk \/ Visit \/ CallbackReturns \/ OthersDone
             \/ EndIteration \/ Destroy \/ DestroyDone
    BY <2>3 DEF Sleep, Poll, EndWalk, Visit, CallbackReturns, OthersDone,
                EndIteration, Destroy, DestroyDone
  <2>. QED
    BY <2>1, <2>2, <2>3
<1>7. DestroyFreesAll'
  <2>1. CASE DestroyDone
    <3>1. \A d \in Deferreds : \A h \in Heads : home[d] # h
      BY <2>1, EmptyMeansNone DEF DestroyDone
    <3>2. \A d \in Deferreds : ~allocated[d]
      BY <3>1, HookFacts DEF IInv, Homes
    <3>. QED
      BY <1>1, <3>2 DEF DestroyFreesAll
  <2>2. CASE ~DestroyDone
    BY <2>2 DEF DestroyFreesAll, Prepare, SubloopsPrepared, Poll, EndWalk,
                Visit, CallbackReturns, OthersDone, EndIteration, Destroy
  <2>. QED
    BY <2>1, <2>2
<1>. QED
  BY <1>2, <1>4, <1>5, <1>6, <1>7 DEF IInv

(***************************************************************************)
(* The step of the walk from p to the cached n.  Neither cursor has left   *)
(* the active list and they differ, so relinking p leaves n where it was.  *)
(***************************************************************************)
LEMMA AdvanceInvariant ==
    ASSUME IInv, Advance
    PROVE  IInv'
<1>1. /\ pc = "after" /\ p \in Deferreds /\ p # n
      /\ home[p] = Active /\ home[n] = Active /\ n \in Hooks
  BY DEF IInv, Walk, Advance, TypeOK
<1>2. RelinkTo(p) \in Heads
  BY <1>1, HookFacts DEF RelinkTo
<1>3. /\ home' = [home EXCEPT ![p] = RelinkTo(p)]
      /\ home \in [Hooks -> Hooks]
  BY DEF Advance, IInv, TypeOK
<1>4. PICK r : RingOf(links', Hooks, home', r)
  <2>1. CASE IsDeleted(p) \/ inactive[p]
    BY <1>1, <1>2, <2>1, RelinkKeepsRings DEF Advance
  <2>2. CASE ~(IsDeleted(p) \/ inactive[p])
    <3>1. links' = links /\ home' = home
      BY <1>3, <2>2, HookFacts, <1>1 DEF Advance, RelinkTo
    <3>. QED
      BY <3>1 DEF IInv, Rings
  <2>. QED
    BY <2>1, <2>2
<1>5. Rings'
  BY <1>4 DEF Rings
<1>6. /\ n \in Hooks => links'.next[n] \in Hooks
      /\ home'[links'.next[n]] = home'[n]
      /\ home'[n] # n => links'.next[n] # n
  BY <1>1, <1>4, SuccessorInRing
<1>7. TypeOK'
  <2>1. home' \in [Hooks -> Hooks] /\ links' \in LinkMaps(Hooks)
    BY <1>4 DEF RingOf
  <2>. QED
    BY <1>1, <1>6, <2>1 DEF IInv, TypeOK, Advance, Phases
<1>8. Homes'
  BY <1>1, <1>2, <1>3, HookFacts DEF IInv, Homes, Advance
<1>9. EnabledIsQueued'
  BY <1>1, <1>3, HookFacts
     DEF IInv, EnabledIsQueued, Enabled, Advance, RelinkTo, IsDeleted
<1>10. Walk'
  <2>1. home'[n] = Active
    BY <1>1, <1>3
  <2>. QED
    BY <1>6, <2>1 DEF Walk, Advance
<1>11. Sleep' /\ DestroyFreesAll'
  BY DEF Sleep, DestroyFreesAll, Advance
<1>. QED
  BY <1>5, <1>7, <1>8, <1>9, <1>10, <1>11 DEF IInv

(***************************************************************************)
(* Freeing the first object of a list, by the purge or by the destructor.  *)
(***************************************************************************)
LEMMA FreeInvariant ==
    ASSUME IInv, NEW head \in Heads, FreeFirst(head), pc \in {"purge", "destroy"}
    PROVE  IInv'
<1> DEFINE d == links.next[head]
<1>1. head \in Hooks /\ home[head] = head
  BY HookFacts DEF IInv, Homes
<1>2. d \in Hooks /\ home[d] = head /\ d # head
  <2>1. PICK rank : RingOf(links, Hooks, home, rank)
    BY DEF IInv, Rings
  <2>2. d \in Hooks /\ home[d] = home[head]
    BY <1>1, <2>1, SuccessorInRing
  <2>. QED
    BY <1>1, <2>2 DEF FreeFirst
<1>3. d \in Deferreds
  BY <1>2, HookFacts DEF IInv, Homes
<1> HIDE DEF d
<1>4. /\ links' = ListDelete(links, d)
      /\ home' = [home EXCEPT ![d] = d]
      /\ allocated' = [allocated EXCEPT ![d] = FALSE]
      /\ UNCHANGED <<cb, inactive, late, quit, blocks, pc, p, n>>
  BY DEF FreeFirst, loopvars, d
<1>5. PICK r : RingOf(links', Hooks, home', r)
  BY <1>3, <1>4, FreeKeepsRings
<1>6. Rings'
  BY <1>5 DEF Rings
<1>7. TypeOK'
  BY <1>4, <1>5 DEF IInv, TypeOK, RingOf
<1>8. Homes' /\ EnabledIsQueued'
  BY <1>3, <1>4, HookFacts
     DEF IInv, TypeOK, Homes, EnabledIsQueued, Enabled
<1>9. Walk' /\ Sleep' /\ DestroyFreesAll'
  BY <1>4 DEF Walk, Sleep, DestroyFreesAll
<1>. QED
  BY <1>6, <1>7, <1>8, <1>9 DEF IInv

LEMMA StutterInvariant ==
    ASSUME IInv, UNCHANGED vars
    PROVE  IInv'
BY DEF vars, IInv, TypeOK, Homes, Rings, EnabledIsQueued, Enabled, Walk,
       Sleep, DestroyFreesAll

LEMMA NextInvariant == IInv /\ [Next]_vars => IInv'
<1> SUFFICES ASSUME IInv, [Next]_vars PROVE IInv'
  OBVIOUS
<1>1. CASE Client
  BY <1>1, AddInvariant, EnableInvariant, MarkInvariant DEF Client
<1>2. CASE Loop
  BY <1>2, PhaseInvariant, AdvanceInvariant, FreeInvariant, HookFacts
     DEF Loop, PurgeDeleted
<1>3. CASE DestroyStep
  BY <1>3, FreeInvariant, HookFacts DEF DestroyStep
<1>4. CASE Destroy \/ DestroyDone
  BY <1>4, PhaseInvariant
<1>5. CASE UNCHANGED vars
  BY <1>5, StutterInvariant
<1>. QED
  BY <1>1, <1>2, <1>3, <1>4, <1>5 DEF Next

THEOREM Invariance == Spec => []IInv
BY InitInvariant, NextInvariant, PTL DEF Spec

-----------------------------------------------------------------------------
(***************************************************************************)
(* The theorems.                                                           *)
(***************************************************************************)

\* Every variable of the deferred-callback code stays in its range, and the
\* cursors of dispatch_deferred always point at a hook of the loop.
THEOREM DeferredTypes == Spec => []TypeOK
<1>1. IInv => TypeOK
  BY DEF IInv
<1>. QED
  BY <1>1, Invariance, PTL

\* Whatever is added, deleted, enabled and disabled while the walk holds its
\* cursors, no list is torn, no object is on two lists and none that was
\* freed is on any.
THEOREM DeferredRings == Spec => []RingsIntact
<1>1. IInv => RingsIntact
  BY HookFacts DEF IInv, Rings, RingOf, Homes, RingsIntact
<1>. QED
  BY <1>1, Invariance, PTL

\* mrp_enable_deferred never loses a wakeup: what is enabled is on the list
\* that dispatch_deferred walks.
THEOREM DeferredEnabledIsQueued == Spec => []EnabledIsQueued
<1>1. IInv => EnabledIsQueued
  BY DEF IInv
<1>. QED
  BY <1>1, Invariance, PTL

\* The cursors of dispatch_deferred never leave the list it walks.
THEOREM DeferredWalk == Spec => []WalkStaysOnList
<1>1. IInv => WalkStaysOnList
  BY DEF IInv, Walk, WalkStaysOnList
<1>. QED
  BY <1>1, Invariance, PTL

\* epoll_wait sleeps on no enabled callback but those enabled too late.
THEOREM DeferredSleep == Spec => []NeverSleepsOnWork
<1>1. IInv => NeverSleepsOnWork
  BY DEF IInv, Sleep, EnabledIsQueued, NeverSleepsOnWork, Asleep
<1>. QED
  BY <1>1, Invariance, PTL

\* mrp_mainloop_destroy leaves no deferred callback behind.
THEOREM DeferredDestroy == Spec => []DestroyFreesAll
<1>1. IInv => DestroyFreesAll
  BY DEF IInv
<1>. QED
  BY <1>1, Invariance, PTL

\* The lists and blocks of deferred callbacks are sound, for any number of
\* them (mainloop.c's deferred part as a whole).
THEOREM DeferredSound == Spec => []ListsSound
<1>1. TypeOK /\ RingsIntact /\ DestroyFreesAll => ListsSound
  BY DEF ListsSound
<1>. QED
  BY <1>1, DeferredTypes, DeferredRings, DeferredDestroy, PTL

------------------------------------------------------------------------------
(***************************************************************************)
(* The hash table of Hashtbl, for any buckets and keys.                    *)
(*                                                                         *)
(* Its chains are sequences that ascend, as entries are numbered as they   *)
(* are made.  The list of buckets in use is a ring of hooks; what a walk   *)
(* is still to meet is what every set closed under next holds, and an      *)
(* append or a delete is followed in these sets, without ranks.            *)
(*                                                                         *)
(* The inductive invariant HashtblInv adds where the cursors of a walk are *)
(* (Positioned), that every entry it is still to call is ahead of them,    *)
(* and that a reset still reaches all buckets with entries (Covered).      *)
(***************************************************************************)

Ascending(q) == \A i, j \in DOMAIN q : i < j => q[i] < q[j]

\* An entry that is made is the newest of its chain.
LEMMA AppendAscends ==
    ASSUME NEW q \in Seq(Nat), Ascending(q), NEW e \in Nat, \A x \in ToSet(q) : x < e
    PROVE  Append(q, e) \in Seq(Nat) /\ ToSet(Append(q, e)) = ToSet(q) \union {e} /\ Ascending(Append(q, e))
<1> DEFINE a == Append(q, e)
<1>1. /\ a \in Seq(Nat) /\ ToSet(a) = ToSet(q) \union {e} /\ Len(a) = Len(q) + 1 /\ Len(q) \in Nat
      /\ \A i \in 1 .. Len(q) : a[i] = q[i]
      /\ a[Len(q) + 1] = e /\ DOMAIN q = 1 .. Len(q) /\ DOMAIN a = 1 .. Len(a)
      /\ \A i \in 1 .. Len(q) : q[i] \in ToSet(q)
  BY AppendFacts, LenProperties DEF ToSet
<1> HIDE DEF a
<1>2. ASSUME NEW i \in DOMAIN a, NEW j \in DOMAIN a, i < j
      PROVE  a[i] < a[j]
  <2>1. i \in 1 .. Len(q)
    BY <1>1, <1>2
  <2>2. CASE j \in 1 .. Len(q)
    BY <1>1, <1>2, <2>1, <2>2 DEF Ascending
  <2>3. CASE j = Len(q) + 1
    BY <1>1, <2>1, <2>3
  <2> QED
    BY <1>1, <2>2, <2>3
<1>3. Ascending(a)
  BY <1>2 DEF Ascending
<1> QED
  BY <1>1, <1>3 DEF a

\* Where SelectInSeq finds an element.
LEMMA SelectsPlace ==
    ASSUME NEW q \in Seq(Nat), NEW e \in ToSet(q)
    PROVE  LET i == SelectInSeq(q, LAMBDA x : x = e)
           IN  i \in 1 .. Len(q) /\ q[i] = e
<1> DEFINE I == {i \in 1 .. Len(q) : q[i] = e}
<1>1. I # {} /\ I \subseteq Nat
  BY DEF ToSet
<1>2. PICK m \in I : \A j \in I : m <= j
  BY <1>1, NatMinimum
<1>3. m = Min(I)
  BY <1>1, <1>2 DEF Min
<1>4. SelectInSeq(q, LAMBDA x : x = e) = Min(I)
  BY <1>1 DEF SelectInSeq
<1> QED
  BY <1>2, <1>3, <1>4

\* RemoveFirst: what is left of a chain ascends, too.
LEMMA RemoveAscends ==
    ASSUME NEW q \in Seq(Nat), Ascending(q), NEW e
    PROVE  /\ RemoveFirst(q, e) \in Seq(Nat)
           /\ ToSet(RemoveFirst(q, e)) = ToSet(q) \ {e}
           /\ Ascending(RemoveFirst(q, e))
<1>1. CASE e \notin ToSet(q)
  <2>1. DOMAIN q = 1 .. Len(q)
    BY LenProperties
  <2>2. RemoveFirst(q, e) = q
    BY <1>1, <2>1 DEF RemoveFirst, ToSet
  <2> QED
    BY <1>1, <2>2
<1>2. CASE e \in ToSet(q)
  <2> DEFINE place == SelectInSeq(q, LAMBDA x : x = e)
             r == RemoveAt(q, place)
  <2>1. place \in 1 .. Len(q) /\ q[place] = e
    BY <1>2, SelectsPlace
  <2>2. RemoveFirst(q, e) = r
    BY <2>1 DEF RemoveFirst
  <2> HIDE DEF place
  <2>3. DOMAIN q = 1 .. Len(q) /\ Len(q) \in Nat /\ \A i \in 1 .. Len(q) : q[i] \in Nat
    BY LenProperties, ElementOfSeq
  <2>4. IsInjective(q)
    <3>1. ASSUME NEW i \in DOMAIN q, NEW j \in DOMAIN q, q[i] = q[j]
          PROVE  i = j
      BY <2>3, <3>1 DEF Ascending
    <3> QED
      BY <3>1 DEF IsInjective
  <2>5. /\ r \in Seq(Nat) /\ ToSet(r) = ToSet(q) \ {e} /\ Len(r) = Len(q) - 1
        /\ \A i \in 1 .. Len(q) - 1 : r[i] = IF i < place THEN q[i] ELSE q[i + 1]
    BY SMTT(40), <2>1, <2>4, RemoveAtFacts
  <2> HIDE DEF r
  <2>6. DOMAIN r = 1 .. Len(q) - 1
    BY <2>5, LenProperties
  <2>7. ASSUME NEW i \in DOMAIN r, NEW j \in DOMAIN r, i < j
        PROVE  r[i] < r[j]
    <3>1. i \in 1 .. Len(q) - 1 /\ j \in 1 .. Len(q) - 1 /\ place \in Nat
      BY <2>1, <2>3, <2>6
    <3>2. PICK k \in DOMAIN q : r[i] = q[k] /\ k = IF i < place THEN i ELSE i + 1
      <4>1. (IF i < place THEN i ELSE i + 1) \in DOMAIN q
        BY <2>3, <3>1
      <4> QED
        BY <2>5, <3>1, <4>1
    <3>3. PICK l \in DOMAIN q : r[j] = q[l] /\ l = IF j < place THEN j ELSE j + 1
      <4>1. (IF j < place THEN j ELSE j + 1) \in DOMAIN q
        BY <2>3, <3>1
      <4> QED
        BY <2>5, <3>1, <4>1
    <3>4. k < l
      BY <2>7, <3>1, <3>2, <3>3
    <3> QED
      BY <3>2, <3>3, <3>4 DEF Ascending
  <2> QED
    BY <2>2, <2>5, <2>7 DEF Ascending
<1> QED
  BY <1>1, <1>2

\* The entry behind another one, if any, is the next newer one.
LEMMA BehindIsNext ==
    ASSUME NEW q \in Seq(Nat), Ascending(q), NEW e \in ToSet(q)
    PROVE  /\ Behind(q, e) \in Nat
           /\ Behind(q, e) # NoEntry => Behind(q, e) \in ToSet(q) /\ e < Behind(q, e)
           /\ \A x \in ToSet(q) : e < x => Behind(q, e) # NoEntry /\ Behind(q, e) <= x
<1> DEFINE place == SelectInSeq(q, LAMBDA x : x = e)
<1>1. place \in 1 .. Len(q) /\ q[place] = e
  BY SelectsPlace
<1>2. Behind(q, e) = IF place + 1 \in DOMAIN q THEN q[place + 1] ELSE NoEntry
  BY DEF Behind, Nth
<1> HIDE DEF place
<1>3. DOMAIN q = 1 .. Len(q) /\ Len(q) \in Nat /\ \A i \in 1 .. Len(q) : q[i] \in Nat /\ q[i] \in ToSet(q)
  BY LenProperties, ElementOfSeq DEF ToSet
<1>4. place + 1 \in DOMAIN q => q[place + 1] \in ToSet(q) /\ q[place] < q[place + 1]
  BY <1>1, <1>3 DEF Ascending
<1>5. ASSUME NEW x \in ToSet(q), e < x
      PROVE  place + 1 \in DOMAIN q /\ q[place + 1] <= x
  <2>1. PICK i \in DOMAIN q : q[i] = x
    BY DEF ToSet
  <2>2. place < i
    BY <1>1, <1>3, <1>5, <2>1 DEF Ascending
  <2>3. place + 1 \in DOMAIN q
    BY <1>1, <1>3, <2>2
  <2> QED
    BY SMTT(40), <1>1, <1>3, <2>1, <2>2, <2>3 DEF Ascending
<1> QED
  BY <1>1, <1>2, <1>3, <1>4, <1>5 DEF NoEntry

\* The first two entries of a chain.
LEMMA FirstTwo ==
    ASSUME NEW q \in Seq(Nat), Ascending(q), NoEntry \notin ToSet(q)
    PROVE  /\ Nth(q, 1) \in Nat /\ Nth(q, 2) \in Nat
           /\ Nth(q, 1) # NoEntry => Nth(q, 1) \in ToSet(q)
           /\ Nth(q, 2) # NoEntry => NoEntry < Nth(q, 1) /\ Nth(q, 1) < Nth(q, 2) /\ Nth(q, 2) \in ToSet(q)
           /\ \A x \in ToSet(q) : x = Nth(q, 1) \/ (Nth(q, 2) # NoEntry /\ Nth(q, 2) <= x)
<1>1. DOMAIN q = 1 .. Len(q) /\ Len(q) \in Nat /\ \A i \in 1 .. Len(q) : q[i] \in Nat /\ q[i] \in ToSet(q) /\ q[i] # NoEntry
  BY LenProperties, ElementOfSeq DEF ToSet
<1>2. ASSUME NEW x \in ToSet(q)
      PROVE  x = Nth(q, 1) \/ (Nth(q, 2) # NoEntry /\ Nth(q, 2) <= x)
  <2>1. PICK i \in DOMAIN q : q[i] = x
    BY DEF ToSet
  <2>2. CASE i = 1
    BY <1>1, <2>1, <2>2 DEF Nth
  <2>3. CASE i # 1
    <3>1. 2 \in DOMAIN q /\ 2 <= i
      BY <1>1, <2>3
    <3>2. q[2] <= q[i]
      BY <1>1, <3>1 DEF Ascending
    <3> QED
      BY <1>1, <2>1, <3>1, <3>2 DEF Nth
  <2> QED
    BY <2>2, <2>3
<1>3. Nth(q, 2) # NoEntry => NoEntry < Nth(q, 1) /\ Nth(q, 1) < Nth(q, 2) /\ Nth(q, 2) \in ToSet(q)
  <2>1. SUFFICES ASSUME 2 \in DOMAIN q
                 PROVE  NoEntry < q[1] /\ q[1] < q[2] /\ q[2] \in ToSet(q) /\ 1 \in DOMAIN q
    BY DEF Nth
  <2> QED
    BY <1>1, <2>1 DEF Ascending, NoEntry
<1> QED
  BY <1>1, <1>2, <1>3 DEF Nth, NoEntry

------------------------------------------------------------------------------
\* The list of buckets in use: x is on it.
OnRing(L, x) == Reaches(L, L.next[Used], x)

\* From a hook that is not x itself, x is met behind it.
LEMMA ReachesStep ==
    ASSUME NEW L \in LinkMaps(BucketHooks), NEW h \in BucketHooks \ {Used}, NEW x \in BucketHooks \ {h}, Reaches(L, h, x)
    PROVE  Reaches(L, L.next[h], x)
<1>1. ASSUME NEW S \in SUBSET BucketHooks, L.next[h] \in S, \A y \in S \ {Used} : L.next[y] \in S
      PROVE  x \in S
  <2> DEFINE R == S \union {h}
  <2>1. R \in SUBSET BucketHooks /\ h \in R /\ \A y \in R \ {Used} : L.next[y] \in R
    BY <1>1
  <2>2. x \in R
    BY <2>1 DEF Reaches
  <2> QED
    BY <2>2
<1> QED
  BY <1>1 DEF Reaches

\* The head ends the walk.
LEMMA ReachesHead ==
    ASSUME NEW L, NEW x, Reaches(L, Used, x)
    PROVE  x = Used
<1>1. {Used} \in SUBSET BucketHooks
  BY DEF BucketHooks
<1> QED
  BY <1>1 DEF Reaches

\* What is behind a hook of the list is on it.
LEMMA RingStep ==
    ASSUME NEW L, NEW h \in BucketHooks \ {Used}, OnRing(L, h)
    PROVE  OnRing(L, L.next[h])
  BY DEF OnRing, Reaches

LEMMA RingTypes ==
    ASSUME NEW L \in LinkMaps(BucketHooks)
    PROVE  /\ L.next \in [BucketHooks -> BucketHooks] /\ L.prev \in [BucketHooks -> BucketHooks]
           /\ Used \in BucketHooks
  BY DEF LinkMaps, BucketHooks

\* A bucket of the list is not alone.
LEMMA RingNotAlone ==
    ASSUME NEW L \in LinkMaps(BucketHooks), WellLinked(L, BucketHooks), NEW b \in BucketHooks \ {Used}, OnRing(L, b)
    PROVE  L.next[b] # b
<1> SUFFICES ASSUME L.next[b] = b
             PROVE  FALSE
  OBVIOUS
<1>1. \A y \in BucketHooks : L.next[y] = b => y = b
  BY RingTypes DEF WellLinked
<1> DEFINE S == BucketHooks \ {b}
<1>2. L.next[Used] \in S /\ \A y \in S \ {Used} : L.next[y] \in S
  BY <1>1, RingTypes
<1> QED
  BY <1>2 DEF OnRing, Reaches

\* mrp_list_append of a bucket that is alone.
LEMMA RingAppend ==
    ASSUME HashtblAssumption,
           NEW L \in LinkMaps(BucketHooks), WellLinked(L, BucketHooks), NEW b \in Buckets, ListEmpty(L, b), OnRing(L, Used)
    PROVE  LET M == ListAppend(L, Used, b)
           IN  /\ M \in LinkMaps(BucketHooks) /\ WellLinked(M, BucketHooks)
               /\ OnRing(M, Used) /\ OnRing(M, b)
               /\ \A h, x \in BucketHooks \ {b} : Reaches(L, h, x) => Reaches(M, h, x)
               /\ \A x \in BucketHooks : OnRing(L, x) => OnRing(M, x)
<1> DEFINE M == ListAppend(L, Used, b)
           last == L.prev[Used]
<1>1. /\ L.next \in [BucketHooks -> BucketHooks] /\ L.prev \in [BucketHooks -> BucketHooks]
      /\ Used \in BucketHooks /\ b \in BucketHooks /\ b # Used /\ last \in BucketHooks
      /\ L.next[b] = b /\ L.prev[b] = b
  BY RingTypes DEF BucketHooks, HashtblAssumption, ListEmpty
<1>2. /\ \A h \in BucketHooks : L.next[L.prev[h]] = h /\ L.prev[L.next[h]] = h
      /\ \A h \in BucketHooks \ {b} : L.next[h] # b /\ L.prev[h] # b
  BY <1>1 DEF WellLinked
<1>3. /\ M \in LinkMaps(BucketHooks)
      /\ \A h \in BucketHooks : M.next[h] = IF h = b THEN Used ELSE IF h = last THEN b ELSE L.next[h]
      /\ \A h \in BucketHooks : M.prev[h] = IF h = Used THEN b ELSE IF h = b THEN last ELSE L.prev[h]
  BY <1>1 DEF ListAppend, LinkMaps
<1> HIDE DEF M
<1>4. WellLinked(M, BucketHooks)
  BY <1>1, <1>2, <1>3 DEF WellLinked
<1>5. ASSUME NEW h \in BucketHooks \ {b}, NEW x \in BucketHooks \ {b}, Reaches(L, h, x),
             NEW S \in SUBSET BucketHooks, h \in S, \A y \in S \ {Used} : M.next[y] \in S
      PROVE  x \in S
  <2> DEFINE R == S \ {b}
  <2>1. ASSUME NEW y \in R \ {Used}
        PROVE  L.next[y] \in R
    <3>1. CASE y = last
      BY <1>1, <1>2, <1>3, <1>5, <2>1, <3>1
    <3>2. CASE y # last
      BY <1>1, <1>2, <1>3, <1>5, <2>1, <3>2
    <3> QED
      BY <3>1, <3>2
  <2>2. R \in SUBSET BucketHooks /\ h \in R
    BY <1>5
  <2> QED
    BY <1>5, <2>1, <2>2 DEF Reaches
<1>6. \A h, x \in BucketHooks \ {b} : Reaches(L, h, x) => Reaches(M, h, x)
  BY <1>5 DEF Reaches
<1>7. ASSUME NEW S \in SUBSET BucketHooks, M.next[Used] \in S, \A y \in S \ {Used} : M.next[y] \in S
      PROVE  b \in S
  <2> SUFFICES ASSUME b \notin S
               PROVE  FALSE
    OBVIOUS
  <2>1. last \notin S \ {Used} /\ last # Used
    BY <1>1, <1>3, <1>7
  <2> DEFINE R == S \ {Used}
  <2>2. L.next[Used] # Used
    BY <1>1, <1>2, <2>1
  <2>3. L.next[Used] \in R
    BY <1>1, <1>3, <1>7, <2>1, <2>2
  <2>4. \A y \in R : L.next[y] \in R
    BY <1>1, <1>2, <1>3, <1>7, <2>1
  <2> QED
    BY <2>3, <2>4 DEF OnRing, Reaches
<1>8. OnRing(M, b)
  BY <1>7 DEF OnRing, Reaches
<1>9. OnRing(M, Used)
  BY <1>1, <1>3, <1>8 DEF OnRing, Reaches
<1>10. ASSUME NEW x \in BucketHooks, OnRing(L, x)
       PROVE  OnRing(M, x)
  <2>1. CASE x = b
    BY <1>8, <2>1
  <2>2. CASE last = Used
    <3>1. L.next[Used] = Used
      BY <1>1, <1>2, <2>2
    <3>2. x = Used
      BY <1>10, <3>1, ReachesHead DEF OnRing
    <3> QED
      BY <1>9, <3>2
  <2>3. CASE x # b /\ last # Used
    <3>1. M.next[Used] = L.next[Used] /\ L.next[Used] \in BucketHooks \ {b}
      BY <1>1, <1>2, <1>3, <2>3
    <3> QED
      BY <1>6, <1>10, <2>3, <3>1 DEF OnRing
  <2> QED
    BY <2>1, <2>2, <2>3
<1> QED
  BY <1>3, <1>4, <1>6, <1>8, <1>9, <1>10 DEF M

\* mrp_list_delete of a bucket.
LEMMA RingDelete ==
    ASSUME HashtblAssumption, NEW L \in LinkMaps(BucketHooks), WellLinked(L, BucketHooks), NEW b \in Buckets
    PROVE  LET M == ListDelete(L, b)
           IN  /\ M \in LinkMaps(BucketHooks) /\ WellLinked(M, BucketHooks)
               /\ \A h, x \in BucketHooks \ {b} : Reaches(L, h, x) => Reaches(M, h, x)
               /\ \A x \in BucketHooks \ {b} : Reaches(L, b, x) => Reaches(M, L.next[b], x)
               /\ \A x \in BucketHooks \ {b} : OnRing(L, x) => OnRing(M, x)
<1> DEFINE M == ListDelete(L, b)
<1>1. /\ L.next \in [BucketHooks -> BucketHooks] /\ L.prev \in [BucketHooks -> BucketHooks]
      /\ Used \in BucketHooks /\ b \in BucketHooks /\ b # Used
  BY RingTypes DEF BucketHooks, HashtblAssumption
<1>2. \A h \in BucketHooks : L.next[L.prev[h]] = h /\ L.prev[L.next[h]] = h
  BY DEF WellLinked
<1>3. /\ M \in LinkMaps(BucketHooks)
      /\ \A h \in BucketHooks : M.next[h] = IF h = b THEN b ELSE IF h = L.prev[b] THEN L.next[b] ELSE L.next[h]
      /\ \A h \in BucketHooks : M.prev[h] = IF h = b THEN b ELSE IF h = L.next[b] THEN L.prev[b] ELSE L.prev[h]
  BY <1>1 DEF ListDelete, LinkMaps
<1> HIDE DEF M
<1>4. WellLinked(M, BucketHooks)
  BY <1>1, <1>2, <1>3 DEF WellLinked
<1>5. ASSUME NEW h \in BucketHooks \ {b}, NEW x \in BucketHooks \ {b}, Reaches(L, h, x),
             NEW S \in SUBSET BucketHooks, h \in S, \A y \in S \ {Used} : M.next[y] \in S
      PROVE  x \in S
  <2> DEFINE R == IF L.next[b] \in S THEN S \union {b} ELSE S \ {b}
  <2>1. ASSUME NEW y \in R \ {Used}
        PROVE  L.next[y] \in R
    <3>1. CASE y = b
      BY <2>1, <3>1
    <3>2. CASE y = L.prev[b] /\ y # b
      BY <1>1, <1>2, <1>3, <1>5, <2>1, <3>2
    <3>3. CASE y # L.prev[b] /\ y # b
      BY <1>1, <1>2, <1>3, <1>5, <2>1, <3>3
    <3> QED
      BY <3>1, <3>2, <3>3
  <2>2. R \in SUBSET BucketHooks /\ h \in R
    BY <1>1, <1>5
  <2>3. x \in R
    BY <1>5, <2>1, <2>2 DEF Reaches
  <2> QED
    BY <1>5, <2>3
<1>6. \A h, x \in BucketHooks \ {b} : Reaches(L, h, x) => Reaches(M, h, x)
  BY <1>5 DEF Reaches
<1>7. ASSUME NEW x \in BucketHooks \ {b}, Reaches(L, b, x)
      PROVE  Reaches(M, L.next[b], x)
  <2>1. L.next[b] # b
    <3>1. L.next[b] = b => x \in {b}
      BY <1>1, <1>7 DEF Reaches
    <3> QED
      BY <3>1
  <2>2. Reaches(L, L.next[b], x)
    BY <1>1, <1>7, ReachesStep
  <2> QED
    BY <1>1, <1>6, <2>1, <2>2
<1>8. ASSUME NEW x \in BucketHooks \ {b}, OnRing(L, x)
      PROVE  OnRing(M, x)
  <2>1. CASE L.next[Used] = b
    <3>1. M.next[Used] = L.next[b]
      BY <1>1, <1>2, <1>3, <2>1
    <3> QED
      BY <1>7, <1>8, <2>1, <3>1 DEF OnRing
  <2>2. CASE L.next[Used] # b
    <3>1. M.next[Used] = L.next[Used] /\ L.next[Used] \in BucketHooks \ {b}
      BY <1>1, <1>2, <1>3, <2>2
    <3> QED
      BY <1>6, <1>8, <3>1 DEF OnRing
  <2> QED
    BY <2>1, <2>2
<1> QED
  BY <1>3, <1>4, <1>6, <1>7, <1>8 DEF M

------------------------------------------------------------------------------
Iters == [walk : {"none", "foreach", "find", "reset"}, bp : BucketHooks, bn : BucketHooks,
          ep : Nat, en : Nat, entry : Nat, verdict : BOOLEAN, called : BOOLEAN]

HashtblTypes ==
    /\ chains \in [Buckets -> Seq(Nat)] /\ hooks \in LinkMaps(BucketHooks) /\ made \in Seq(Keys)
    /\ iter \in Iters
    /\ live \subseteq DOMAIN made /\ dropped \subseteq DOMAIN made /\ unfreed \subseteq DOMAIN made
    /\ torn \in BOOLEAN /\ fault \in {"none", "verdict", "found"}
    /\ fault # "none" => ~iter.called /\ iter.walk # "reset"

\* Every entry that was made is hashed, freed or kept, one of these.
Parted == /\ DOMAIN made = live \union dropped \union unfreed
          /\ live \cap dropped = {} /\ unfreed \cap (live \union dropped) = {}

\* The entry a walk calls is not freed, and it and the next one are on the
\* chain of bucket bp, in this order, unless a callback unhashed the first.
Positioned ==
    /\ iter.called => Iterating /\ iter.ep # NoEntry /\ iter.ep \in seen
    /\ iter.walk # "foreach" => iter.entry = NoEntry
    /\ iter.called /\ iter.walk = "foreach" =>
         /\ iter.entry = iter.ep /\ iter.ep \in live \union unfreed /\ Bucket[made[iter.ep]] = iter.bp
    /\ ~Iterating \/ iter.bp = Used => iter.ep = NoEntry
    /\ ~iter.called /\ iter.ep # NoEntry => iter.ep \in ToSet(chains[iter.bp])
    /\ iter.en # NoEntry => NoEntry < iter.ep /\ iter.ep < iter.en /\ iter.en \in ToSet(chains[iter.bp])

\* The list of buckets is a ring with all that hold entries.
RingKept ==
    /\ WellLinked(hooks, BucketHooks) /\ OnRing(hooks, Used)
    /\ \A b \in Buckets : chains[b] # <<>> => OnRing(hooks, b)
    /\ Iterating => OnRing(hooks, iter.bn)

\* A walk is still to meet entry e: in its bucket, or in one that follows.
Ahead(e) ==
    \/ /\ Bucket[made[e]] = iter.bp
       /\ (e = iter.ep /\ ~iter.called) \/ (iter.en # NoEntry /\ iter.en <= e)
    \/ Reaches(hooks, iter.bn, Bucket[made[e]])

Covered ==
    /\ Iterating => \A e \in toCall \ seen : e \in live /\ iter.bp # Used /\ Ahead(e)
    /\ iter.walk = "reset" =>
         /\ OnRing(hooks, iter.bp) /\ iter.bn = hooks.next[iter.bp]
         /\ \A c \in Buckets : chains[c] # <<>> =>
                iter.bp # Used /\ (c = iter.bp \/ Reaches(hooks, iter.bn, c))

Unfaulted == Parted /\ Positioned /\ (\A b \in Buckets : ChainIsLive(b))

\* The inductive invariant of the hash table.
HashtblInv ==
    /\ HashtblTypes
    /\ fault = "none" => Unfaulted
    /\ fault = "none" /\ ~torn => RingKept /\ Covered

\* A chain that holds no entry.
LEMMA EmptyChain ==
    ASSUME NEW q \in Seq(Nat)
    PROVE  ToSet(q) = {} <=> q = <<>>
<1>1. DOMAIN q = 1 .. Len(q) /\ Len(q) \in Nat
  BY LenProperties
<1>2. q = <<>> <=> Len(q) = 0
  BY EmptySeq
<1>3. ToSet(q) = {} <=> DOMAIN q = {}
  BY DEF ToSet
<1>4. 1 .. Len(q) = {} <=> Len(q) = 0
  <2>1. Len(q) # 0 => 1 \in 1 .. Len(q)
    BY <1>1
  <2>2. Len(q) = 0 => 1 .. Len(q) = {}
    BY <1>1
  <2> QED
    BY <2>1, <2>2
<1> QED
  BY <1>1, <1>2, <1>3, <1>4

\* What is on a chain, as long as nothing went wrong.
LEMMA OnChain ==
    ASSUME HashtblAssumption, HashtblInv, fault = "none"
    PROVE  /\ \A c \in Buckets : chains[c] \in Seq(Nat) /\ Ascending(chains[c]) /\ NoEntry \notin ToSet(chains[c])
           /\ \A c \in Buckets : \A x \in ToSet(chains[c]) : x \in live /\ Bucket[made[x]] = c
           /\ \A x \in live : Bucket[made[x]] \in Buckets /\ x \in ToSet(chains[Bucket[made[x]]])
           /\ \A x \in DOMAIN made : x \in Nat \ {NoEntry} /\ x <= Len(made) /\ made[x] \in Keys
           /\ \A k \in Keys : Bucket[k] \in Buckets /\ Bucket[k] # Used
           /\ Len(made) \in Nat /\ DOMAIN made = 1 .. Len(made)
           /\ \A c \in Buckets : ToSet(chains[c]) = {} <=> chains[c] = <<>>
           /\ iter.en # NoEntry => iter.ep # NoEntry
           /\ iter.ep # NoEntry => iter.bp \in Buckets
<1>1. HashtblTypes /\ Unfaulted /\ Positioned
  BY DEF HashtblInv, Unfaulted
<1>2. /\ DOMAIN made = 1 .. Len(made) /\ Len(made) \in Nat /\ \A x \in DOMAIN made : made[x] \in Keys
      /\ live \subseteq DOMAIN made
  BY <1>1, LenProperties, ElementOfSeq DEF HashtblTypes
<1>3. \A k \in Keys : Bucket[k] \in Buckets /\ Bucket[k] # Used
  BY DEF HashtblAssumption
<1>4. \A c \in Buckets : ToSet(chains[c]) = {x \in live : Bucket[made[x]] = c}
  BY <1>1 DEF Unfaulted, ChainIsLive
<1>5. \A c \in Buckets : chains[c] \in Seq(Nat) /\ Ascending(chains[c])
  BY <1>1 DEF HashtblTypes, Unfaulted, ChainIsLive, Ascending
<1>6. \A c \in Buckets : ToSet(chains[c]) = {} <=> chains[c] = <<>>
  BY <1>5, EmptyChain
<1>7. iter.en # NoEntry => iter.ep # NoEntry
  BY <1>1 DEF Positioned, NoEntry
<1>8. iter.ep # NoEntry => iter.bp \in Buckets
  BY <1>1 DEF Positioned, HashtblTypes, Iters, BucketHooks
<1>9. \A x \in DOMAIN made : x \in Nat \ {NoEntry} /\ x <= Len(made) /\ made[x] \in Keys
  BY <1>2 DEF NoEntry
<1>10. \A c \in Buckets : \A x \in ToSet(chains[c]) : x \in live /\ Bucket[made[x]] = c
  BY <1>4
<1>11. \A x \in live : Bucket[made[x]] \in Buckets /\ x \in ToSet(chains[Bucket[made[x]]])
  BY <1>2, <1>3, <1>4
<1>12. \A c \in Buckets : NoEntry \notin ToSet(chains[c])
  BY <1>2, <1>9, <1>10
<1> QED
  BY <1>2, <1>3, <1>5, <1>6, <1>7, <1>8, <1>9, <1>10, <1>11, <1>12

LEMMA InsertKeepsTable ==
    ASSUME HashtblAssumption, HashtblInv, NEW k \in Keys, Insert(k)
    PROVE  HashtblInv'
<1> DEFINE b == Bucket[k]
           e == Len(made) + 1
<1>1. /\ fault = "none" /\ fault' = fault /\ iter' = iter /\ dropped' = dropped /\ unfreed' = unfreed
      /\ toCall' = toCall /\ seen' = seen
      /\ made' = Append(made, k) /\ live' = live \union {e}
      /\ chains' = [chains EXCEPT ![b] = Append(@, e)]
  BY DEF Insert, UsersRun
<1>2. /\ IF chains[b] = <<>>
         THEN hooks' = ListAppend(hooks, Used, b) /\ torn' = (torn \/ ~ListEmpty(hooks, b))
         ELSE hooks' = hooks /\ torn' = torn
  BY DEF Insert
<1>3. HashtblTypes /\ Unfaulted
  BY <1>1 DEF HashtblInv
<1>4. b \in Buckets /\ b # Used /\ e \in Nat /\ e # NoEntry
  BY <1>1, OnChain DEF NoEntry
<1>5. /\ made' \in Seq(Keys) /\ DOMAIN made' = DOMAIN made \union {e} /\ e \notin DOMAIN made
      /\ made'[e] = k /\ \A x \in DOMAIN made : made'[x] = made[x] /\ x < e
  <2>1. /\ Append(made, k) \in Seq(Keys) /\ Len(Append(made, k)) = e
        /\ \A i \in 1 .. Len(made) : Append(made, k)[i] = made[i]
        /\ Append(made, k)[e] = k
    BY <1>3, AppendFacts DEF HashtblTypes
  <2>2. DOMAIN Append(made, k) = 1 .. e
    BY <2>1, LenProperties
  <2>3. Len(made) \in Nat /\ DOMAIN made = 1 .. Len(made)
    BY <1>1, OnChain
  <2> QED
    BY <1>1, <2>1, <2>2, <2>3
<1> HIDE DEF e, b
<1>6. /\ chains' \in [Buckets -> Seq(Nat)]
      /\ \A c \in Buckets \ {b} : chains'[c] = chains[c]
      /\ ToSet(chains'[b]) = ToSet(chains[b]) \union {e} /\ Ascending(chains'[b])
  <2>1. chains \in [Buckets -> Seq(Nat)]
    BY <1>3 DEF HashtblTypes
  <2>2. chains[b] \in Seq(Nat) /\ Ascending(chains[b]) /\ \A x \in ToSet(chains[b]) : x < e
    BY <1>1, <1>3, <1>4, <1>5, OnChain DEF HashtblTypes
  <2>3. /\ Append(chains[b], e) \in Seq(Nat) /\ Ascending(Append(chains[b], e))
        /\ ToSet(Append(chains[b], e)) = ToSet(chains[b]) \union {e}
    BY <1>4, <2>2, AppendAscends
  <2> QED
    BY <1>1, <1>4, <2>1, <2>3
<1>7. hooks \in LinkMaps(BucketHooks) /\ hooks' \in LinkMaps(BucketHooks) /\ torn' \in BOOLEAN
  <2>1. hooks \in LinkMaps(BucketHooks)
    BY <1>3 DEF HashtblTypes
  <2>2. ListAppend(hooks, Used, b) \in LinkMaps(BucketHooks)
    BY <1>4, <2>1 DEF LinkMaps, ListAppend, BucketHooks
  <2> QED
    BY <1>2, <1>3, <2>1, <2>2 DEF HashtblTypes
<1>8. HashtblTypes'
  BY <1>1, <1>3, <1>5, <1>6, <1>7 DEF HashtblTypes
<1>9. Parted'
  BY <1>1, <1>3, <1>5 DEF Unfaulted, Parted, HashtblTypes
<1>10. Positioned'
  <2>1. \A c \in Buckets : ToSet(chains[c]) \subseteq ToSet(chains'[c])
    BY <1>6
  <2>2. iter.ep \in live \union unfreed => made'[iter.ep] = made[iter.ep]
    BY <1>3, <1>5 DEF HashtblTypes
  <2>3. iter.ep # NoEntry => iter.bp \in Buckets
    BY <1>1, OnChain
  <2>4. iter.en # NoEntry => iter.ep # NoEntry
    BY <1>1, OnChain
  <2> QED
    BY <1>1, <1>3, <2>1, <2>2, <2>3, <2>4 DEF Unfaulted, Positioned, Iterating
<1>11. ASSUME NEW c \in Buckets
       PROVE  ChainIsLive(c)'
  <2>1. ToSet(chains[c]) = {x \in live : Bucket[made[x]] = c} /\ live \subseteq DOMAIN made
    BY <1>3 DEF Unfaulted, ChainIsLive, HashtblTypes
  <2>2. CASE c = b
    <3>1. ToSet(chains'[c]) = {x \in live' : Bucket[made'[x]] = c}
      BY <1>1, <1>5, <1>6, <2>1, <2>2 DEF b
    <3> QED
      BY <1>6, <2>2, <3>1 DEF ChainIsLive, Ascending
  <2>3. CASE c # b
    <3>1. ToSet(chains'[c]) = {x \in live' : Bucket[made'[x]] = c}
      BY <1>1, <1>5, <1>6, <2>1, <2>3 DEF b
    <3>2. Ascending(chains'[c])
      BY <1>1, <1>6, <2>3, OnChain
    <3> QED
      BY <3>1, <3>2 DEF ChainIsLive, Ascending
  <2> QED
    BY <2>2, <2>3
<1>12. ASSUME ~torn'
       PROVE  RingKept' /\ Covered'
  <2>1. ~torn /\ RingKept /\ Covered
    BY <1>1, <1>2, <1>12 DEF HashtblInv
  <2>2. /\ \A x \in toCall \ seen : Iterating => x \in live /\ x \in live' /\ made'[x] = made[x]
    BY <1>1, <1>3, <1>5, <2>1 DEF Covered, HashtblTypes
  <2>3. iter.walk # "reset" /\ (iter.walk # "none" => iter.called)
    BY <1>3 DEF Insert, UsersRun, Unfaulted, Positioned, Iterating
  <2>4. CASE chains[b] = <<>>
    <3>1. hooks' = ListAppend(hooks, Used, b) /\ ListEmpty(hooks, b)
      BY <1>2, <1>12, <2>4
    <3>2. WellLinked(hooks, BucketHooks) /\ OnRing(hooks, Used)
      BY <2>1 DEF RingKept
    <3>3. /\ WellLinked(hooks', BucketHooks) /\ OnRing(hooks', Used) /\ OnRing(hooks', b)
          /\ \A h, x \in BucketHooks \ {b} : Reaches(hooks, h, x) => Reaches(hooks', h, x)
          /\ \A x \in BucketHooks : OnRing(hooks, x) => OnRing(hooks', x)
      BY <1>4, <1>7, <3>1, <3>2, RingAppend
    <3>4. b \in BucketHooks \ {Used} /\ Buckets \subseteq BucketHooks /\ iter.bn \in BucketHooks
      BY <1>3, <1>4 DEF BucketHooks, HashtblTypes, Iters
    <3>5. ~OnRing(hooks, b)
      BY <1>7, <3>1, <3>2, <3>4, RingNotAlone DEF ListEmpty
    <3>6. RingKept'
      BY <1>1, <1>6, <2>1, <3>3, <3>4 DEF RingKept, Iterating
    <3>7. ASSUME Iterating, NEW x \in toCall \ seen
          PROVE  x \in live' /\ iter.bp # Used /\ Ahead(x)'
      <4>1. Bucket[made[x]] \in Buckets \ {b}
        BY <1>1, <1>4, <2>2, <2>4, <3>7, OnChain
      <4>2. iter.bn # b
        BY <2>1, <3>5, <3>7 DEF RingKept
      <4>3. Reaches(hooks, iter.bn, Bucket[made[x]]) => Reaches(hooks', iter.bn, Bucket[made[x]])
        BY <3>3, <3>4, <4>1, <4>2
      <4>4. iter.bp # Used /\ Ahead(x)
        BY <2>1, <3>7 DEF Covered
      <4> QED
        BY <1>1, <2>2, <3>7, <4>3, <4>4 DEF Ahead
    <3> QED
      BY <1>1, <2>3, <3>6, <3>7 DEF Covered, Iterating
  <2>5. CASE chains[b] # <<>>
    <3>1. hooks' = hooks
      BY <1>2, <2>5
    <3>2. RingKept'
      BY <1>1, <1>6, <2>1, <2>5, <3>1 DEF RingKept, Iterating
    <3>3. ASSUME Iterating, NEW x \in toCall \ seen
          PROVE  x \in live' /\ iter.bp # Used /\ Ahead(x)'
      BY <1>1, <2>1, <2>2, <3>1, <3>3 DEF Covered, Ahead
    <3> QED
      BY <1>1, <2>3, <3>2, <3>3 DEF Covered, Iterating
  <2> QED
    BY <2>4, <2>5
<1> QED
  BY <1>8, <1>9, <1>10, <1>11, <1>12 DEF HashtblInv, Unfaulted
\* What mrp_htbl_remove of the entry e of bucket b does to the chain, to the
\* walk and to the list.
Removes(b, e) ==
    LET own == Iterating /\ e = iter.entry
        empty == Iterating /\ ToSet(chains[b]) = {e}
    IN  /\ dropped' = IF own THEN dropped ELSE dropped \union {e}
        /\ unfreed' = IF own THEN unfreed \union {e} ELSE unfreed
        /\ live' = live \ {e} /\ toCall' = toCall \ {e}
        /\ chains' = [chains EXCEPT ![b] = RemoveFirst(@, e)]
        /\ hooks' = IF empty THEN ListDelete(hooks, b) ELSE hooks
        /\ iter' \in Iters /\ iter'.walk = iter.walk /\ iter'.bp = iter.bp /\ iter'.ep = iter.ep
        /\ iter'.entry = iter.entry /\ iter'.called = iter.called
        /\ iter'.en = IF iter.en = e THEN Behind(chains[b], e) ELSE iter.en
        /\ iter'.bn = IF empty /\ iter.bn = b THEN hooks.next[b] ELSE iter.bn

LEMMA RemoveEntrySteps ==
    ASSUME HashtblAssumption, HashtblInv, NEW k \in Keys, NEW free \in BOOLEAN, RemoveEntry(k, free)
    PROVE  /\ fault = "none" /\ fault' = "none" /\ (iter.called \/ iter.walk = "none")
           /\ made' = made /\ torn' = torn /\ seen' = seen
           /\ \E b \in Buckets : \E e \in ToSet(chains[b]) : Removes(b, e)
<1> DEFINE b == Bucket[k]
           e == Lookup(k)
           own == Iterating /\ e = iter.entry
           empty == Iterating /\ ToSet(chains[b]) = {e}
           it == IF own THEN [iter EXCEPT !.verdict = free] ELSE iter
           passed == [it EXCEPT !.en = IF @ = e THEN Behind(chains[b], e) ELSE @]
           emptied == Iterating /\ RemoveFirst(chains[b], e) = <<>>
           follows == [passed EXCEPT !.bn = IF @ = b THEN hooks.next[b] ELSE @]
<1>1. /\ fault = "none" /\ fault' = fault /\ (iter.called \/ iter.walk = "none")
      /\ made' = made /\ torn' = torn /\ seen' = seen
      /\ e # NoEntry /\ live' = live \ {e} /\ toCall' = toCall \ {e}
      /\ dropped' = IF own THEN dropped ELSE dropped \union {e}
      /\ unfreed' = IF own THEN unfreed \union {e} ELSE unfreed
  BY DEF RemoveEntry, UsersRun
<1>2. DeleteFromBucket(it, b, e)
  BY DEF RemoveEntry
<1>3. b \in Buckets
  BY <1>1, OnChain
<1>4. e \in ToSet(chains[b])
  BY <1>1 DEF Lookup, Nth, ToSet
<1> HIDE DEF e, b
<1>5. /\ chains' = [chains EXCEPT ![b] = RemoveFirst(@, e)]
      /\ hooks' = IF emptied THEN ListDelete(hooks, b) ELSE hooks
      /\ iter' = IF emptied THEN follows ELSE passed
  BY <1>2 DEF DeleteFromBucket
<1>6. chains[b] \in Seq(Nat) /\ Ascending(chains[b])
  BY <1>1, <1>3, OnChain
<1>7. emptied <=> empty
  <2>1. RemoveFirst(chains[b], e) \in Seq(Nat) /\ ToSet(RemoveFirst(chains[b], e)) = ToSet(chains[b]) \ {e}
    BY <1>6, RemoveAscends
  <2>2. RemoveFirst(chains[b], e) = <<>> <=> ToSet(RemoveFirst(chains[b], e)) = {}
    BY <2>1, EmptyChain
  <2> QED
    BY <1>4, <2>1, <2>2
<1>8. Behind(chains[b], e) \in Nat
  BY <1>4, <1>6, BehindIsNext
<1>9. iter \in Iters /\ hooks.next[b] \in BucketHooks
  BY <1>3, RingTypes DEF HashtblInv, HashtblTypes, BucketHooks
<1> HIDE DEF own, empty, emptied
<1>10. /\ it \in Iters /\ it.walk = iter.walk /\ it.bp = iter.bp /\ it.ep = iter.ep /\ it.en = iter.en
       /\ it.bn = iter.bn /\ it.entry = iter.entry /\ it.called = iter.called
  BY <1>9 DEF Iters
<1> HIDE DEF it
<1>11. /\ passed \in Iters /\ passed.walk = iter.walk /\ passed.bp = iter.bp /\ passed.ep = iter.ep
       /\ passed.bn = iter.bn /\ passed.entry = iter.entry /\ passed.called = iter.called
       /\ passed.en = IF iter.en = e THEN Behind(chains[b], e) ELSE iter.en
  BY <1>8, <1>10 DEF Iters
<1> HIDE DEF passed
<1>12. /\ follows \in Iters /\ follows.walk = iter.walk /\ follows.bp = iter.bp /\ follows.ep = iter.ep
       /\ follows.entry = iter.entry /\ follows.called = iter.called /\ follows.en = passed.en
       /\ follows.bn = IF iter.bn = b THEN hooks.next[b] ELSE iter.bn
  BY <1>9, <1>11 DEF Iters
<1> HIDE DEF follows
<1>13. /\ iter' \in Iters /\ iter'.walk = iter.walk /\ iter'.bp = iter.bp /\ iter'.ep = iter.ep
       /\ iter'.entry = iter.entry /\ iter'.called = iter.called
       /\ iter'.en = IF iter.en = e THEN Behind(chains[b], e) ELSE iter.en
       /\ iter'.bn = IF empty /\ iter.bn = b THEN hooks.next[b] ELSE iter.bn
  <2>1. CASE emptied
    BY <1>5, <1>7, <1>11, <1>12, <2>1
  <2>2. CASE ~emptied
    BY <1>5, <1>7, <1>11, <2>2
  <2> QED
    BY <2>1, <2>2
<1>14. hooks' = IF empty THEN ListDelete(hooks, b) ELSE hooks
  BY <1>5, <1>7
<1>15. Removes(b, e)
  BY <1>1, <1>5, <1>13, <1>14 DEF own, empty, Removes
<1> QED
  BY <1>1, <1>3, <1>4, <1>15

LEMMA RemoveEntryKeepsTable ==
    ASSUME HashtblAssumption, HashtblInv, NEW k \in Keys, NEW free \in BOOLEAN, RemoveEntry(k, free)
    PROVE  HashtblInv'
<1>1. /\ fault = "none" /\ fault' = "none" /\ (iter.called \/ iter.walk = "none")
      /\ made' = made /\ torn' = torn /\ seen' = seen
  BY RemoveEntrySteps
<1>2. PICK b \in Buckets : \E e \in ToSet(chains[b]) : Removes(b, e)
  BY RemoveEntrySteps
<1>0. PICK e \in ToSet(chains[b]) : Removes(b, e)
  BY <1>2
<1> DEFINE own == Iterating /\ e = iter.entry
           empty == Iterating /\ ToSet(chains[b]) = {e}
<1>3. HashtblTypes /\ Unfaulted /\ Parted /\ Positioned
  BY <1>1 DEF HashtblInv, Unfaulted
<1>4. /\ dropped' = IF own THEN dropped ELSE dropped \union {e}
      /\ unfreed' = IF own THEN unfreed \union {e} ELSE unfreed
      /\ live' = live \ {e} /\ toCall' = toCall \ {e}
      /\ chains' = [chains EXCEPT ![b] = RemoveFirst(@, e)]
  BY <1>0 DEF Removes
<1>5. /\ iter' \in Iters /\ iter'.walk = iter.walk /\ iter'.bp = iter.bp /\ iter'.ep = iter.ep
      /\ iter'.entry = iter.entry /\ iter'.called = iter.called
      /\ iter'.en = IF iter.en = e THEN Behind(chains[b], e) ELSE iter.en
      /\ iter'.bn = IF empty /\ iter.bn = b THEN hooks.next[b] ELSE iter.bn
      /\ hooks' = IF empty THEN ListDelete(hooks, b) ELSE hooks
  BY <1>0 DEF Removes
<1> HIDE DEF own, empty
<1>6. /\ e \in live /\ e \in DOMAIN made /\ Bucket[made[e]] = b
      /\ e \in Nat /\ e # NoEntry /\ chains[b] \in Seq(Nat) /\ Ascending(chains[b])
  BY <1>1, <1>3, OnChain DEF HashtblTypes
<1>7. /\ chains' \in [Buckets -> Seq(Nat)] /\ \A c \in Buckets \ {b} : chains'[c] = chains[c]
      /\ ToSet(chains'[b]) = ToSet(chains[b]) \ {e} /\ Ascending(chains'[b])
  <2>1. chains \in [Buckets -> Seq(Nat)]
    BY <1>3 DEF HashtblTypes
  <2>2. /\ RemoveFirst(chains[b], e) \in Seq(Nat) /\ Ascending(RemoveFirst(chains[b], e))
        /\ ToSet(RemoveFirst(chains[b], e)) = ToSet(chains[b]) \ {e}
    BY <1>6, RemoveAscends
  <2> QED
    BY <1>4, <2>1, <2>2
<1>8. hooks \in LinkMaps(BucketHooks) /\ hooks' \in LinkMaps(BucketHooks)
  <2>1. hooks \in LinkMaps(BucketHooks)
    BY <1>3 DEF HashtblTypes
  <2>2. ListDelete(hooks, b) \in LinkMaps(BucketHooks)
    BY <2>1 DEF LinkMaps, ListDelete, BucketHooks
  <2> QED
    BY <1>5, <2>1, <2>2
<1>9. HashtblTypes'
  BY <1>1, <1>3, <1>4, <1>5, <1>6, <1>7, <1>8 DEF HashtblTypes
<1>10. Parted'
  BY <1>1, <1>3, <1>4, <1>6 DEF Parted
<1>11. iter.en = e => iter.bp = b
  BY <1>1, <1>3, <1>6, OnChain DEF Positioned
<1>12. \A x \in ToSet(chains[b]) : e < x => Behind(chains[b], e) # NoEntry /\ Behind(chains[b], e) <= x
  BY <1>6, BehindIsNext
<1>13. Positioned'
  <2>1. /\ Behind(chains[b], e) \in Nat
        /\ Behind(chains[b], e) # NoEntry => Behind(chains[b], e) \in ToSet(chains[b]) /\ e < Behind(chains[b], e)
    BY <1>6, BehindIsNext
  <2>2. ASSUME iter.called, iter.walk = "foreach"
        PROVE  iter.entry = iter.ep /\ iter.ep \in live' \union unfreed' /\ Bucket[made[iter.ep]] = iter.bp
    BY <1>3, <1>4, <2>2 DEF Positioned, Iterating, own
  <2>3. ASSUME iter'.en # NoEntry
        PROVE  NoEntry < iter.ep /\ iter.ep < iter'.en /\ iter'.en \in ToSet(chains'[iter.bp])
    <3>1. iter.en # NoEntry /\ iter.ep \in Nat /\ iter.en \in Nat
      BY <1>3, <1>5, <1>6, <2>3 DEF HashtblTypes, Iters
    <3>2. NoEntry < iter.ep /\ iter.ep < iter.en /\ iter.en \in ToSet(chains[iter.bp]) /\ iter.bp \in Buckets
      BY <1>1, <1>3, <3>1, OnChain DEF Positioned
    <3>3. CASE iter.en = e
      BY <1>5, <1>6, <1>7, <1>11, <2>1, <2>3, <3>1, <3>2, <3>3
    <3>4. CASE iter.en # e
      BY <1>5, <1>7, <3>2, <3>4
    <3> QED
      BY <3>3, <3>4
  <2>4. iter.ep # NoEntry => iter.called
    BY <1>1, <1>3 DEF Positioned, Iterating
  <2> QED
    BY <1>1, <1>3, <1>5, <2>2, <2>3, <2>4 DEF Positioned, Iterating
<1>14. ASSUME NEW c \in Buckets
       PROVE  ChainIsLive(c)'
  <2>1. ToSet(chains[c]) = {x \in live : Bucket[made[x]] = c} /\ Ascending(chains[c])
    BY <1>1, <1>3, OnChain DEF Unfaulted, ChainIsLive
  <2>2. ToSet(chains'[c]) = {x \in live' : Bucket[made'[x]] = c} /\ Ascending(chains'[c])
    BY <1>1, <1>4, <1>6, <1>7, <2>1
  <2> QED
    BY <2>2 DEF ChainIsLive, Ascending
<1>15. ASSUME ~torn'
       PROVE  RingKept' /\ Covered'
  <2>1. ~torn /\ RingKept /\ Covered
    BY <1>1, <1>15 DEF HashtblInv
  <2>2. WellLinked(hooks, BucketHooks) /\ OnRing(hooks, Used) /\ OnRing(hooks, b)
    BY <1>1, <1>6, <2>1, OnChain DEF RingKept
  <2>3. /\ b \in BucketHooks \ {Used} /\ Buckets \subseteq BucketHooks /\ Used \in BucketHooks
        /\ iter.bn \in BucketHooks /\ hooks.next[b] \in BucketHooks
    BY <1>3, <1>8, RingTypes DEF BucketHooks, HashtblTypes, Iters, HashtblAssumption
  <2>4. OnRing(hooks, hooks.next[b]) /\ hooks.next[b] # b
    BY <1>8, <2>2, <2>3, RingStep, RingNotAlone
  <2>5. /\ WellLinked(hooks', BucketHooks)
        /\ \A x \in BucketHooks : OnRing(hooks, x) /\ (empty => x # b) => OnRing(hooks', x)
        /\ \A h, x \in BucketHooks : Reaches(hooks, h, x) /\ (empty => h # b /\ x # b) => Reaches(hooks', h, x)
        /\ \A x \in BucketHooks : Reaches(hooks, b, x) /\ empty /\ x # b => Reaches(hooks', hooks.next[b], x)
    <3>1. CASE empty
      <4> DEFINE M == ListDelete(hooks, b)
      <4>1. /\ WellLinked(M, BucketHooks)
            /\ \A h, x \in BucketHooks \ {b} : Reaches(hooks, h, x) => Reaches(M, h, x)
            /\ \A x \in BucketHooks \ {b} : Reaches(hooks, b, x) => Reaches(M, hooks.next[b], x)
            /\ \A x \in BucketHooks \ {b} : OnRing(hooks, x) => OnRing(M, x)
        BY <1>8, <2>2, RingDelete
      <4>2. M = hooks'
        BY <1>5, <3>1
      <4> HIDE DEF M
      <4> QED
        BY <3>1, <4>1, <4>2
    <3>2. CASE ~empty
      BY <1>5, <2>2, <3>2
    <3> QED
      BY <3>1, <3>2
  <2>6. ASSUME NEW c \in Buckets, chains'[c] # <<>>
        PROVE  chains[c] # <<>> /\ (empty => c # b)
    <3>1. CASE c = b
      <4>1. \E x \in ToSet(chains'[b]) : TRUE
        BY <1>7, <2>6, <3>1, EmptyChain
      <4> QED
        BY <1>1, <1>7, <3>1, <4>1, OnChain DEF empty
    <3>2. CASE c # b
      BY <1>7, <2>6, <3>2
    <3> QED
      BY <3>1, <3>2
  <2>7. RingKept'
    <3>1. Iterating => OnRing(hooks', iter'.bn)
      <4>1. CASE empty /\ iter.bn = b
        BY <1>5, <2>3, <2>4, <2>5, <4>1
      <4>2. CASE ~(empty /\ iter.bn = b)
        BY <1>5, <2>1, <2>3, <2>5, <4>2 DEF RingKept
      <4> QED
        BY <4>1, <4>2
    <3>2. OnRing(hooks', Used)
      BY <2>2, <2>3, <2>5
    <3>3. \A c \in Buckets : chains'[c] # <<>> => OnRing(hooks', c)
      BY <2>1, <2>3, <2>5, <2>6 DEF RingKept
    <3> QED
      BY <1>5, <2>5, <3>1, <3>2, <3>3 DEF RingKept, Iterating
  <2>8. ASSUME Iterating, NEW x \in toCall' \ seen'
        PROVE  x \in live' /\ iter'.bp # Used /\ Ahead(x)'
    <3>1. x \in live /\ x # e /\ iter.bp # Used /\ Ahead(x) /\ x \in Nat
      BY <1>1, <1>3, <1>4, <2>1, <2>8, OnChain DEF Covered, HashtblTypes
    <3> DEFINE c == Bucket[made[x]]
    <3>2. c \in Buckets /\ x \in ToSet(chains[c]) /\ (empty => c # b)
      BY <1>1, <3>1, OnChain DEF empty
    <3>3. CASE Reaches(hooks, iter.bn, c)
      <4>1. Reaches(hooks', iter'.bn, c)
        BY <1>5, <2>3, <2>5, <3>2, <3>3
      <4> QED
        BY <1>1, <1>4, <1>5, <3>1, <4>1 DEF Ahead
    <3>4. CASE c = iter.bp /\ x = iter.ep /\ ~iter.called
      BY <1>1, <1>4, <1>5, <3>1, <3>4 DEF Ahead
    <3>5. CASE c = iter.bp /\ iter.en # NoEntry /\ iter.en <= x
      <4>1. iter'.en # NoEntry /\ iter'.en <= x
        <5>1. CASE iter.en = e
          BY <1>5, <1>6, <1>11, <1>12, <3>1, <3>2, <3>5, <5>1
        <5>2. CASE iter.en # e
          BY <1>5, <3>5, <5>2
        <5> QED
          BY <5>1, <5>2
      <4> QED
        BY <1>1, <1>4, <1>5, <3>1, <3>5, <4>1 DEF Ahead
    <3> QED
      BY <3>1, <3>3, <3>4, <3>5 DEF Ahead
  <2>9. iter'.walk # "reset"
    BY <1>1, <1>3, <1>5 DEF Positioned, Iterating
  <2> QED
    BY <1>5, <2>7, <2>8, <2>9 DEF Covered, Iterating
<1> QED
  BY <1>1, <1>9, <1>10, <1>13, <1>14, <1>15 DEF HashtblInv, Unfaulted
\* No walk, and nothing else has changed.
LEMMA NoWalkKeepsTable ==
    ASSUME HashtblAssumption, HashtblInv, fault = "none", iter' = NoIter, fault' \in {"none", "found"},
           UNCHANGED <<chains, hooks, made, dropped, live, unfreed, torn>>
    PROVE  HashtblInv'
<1>1. HashtblTypes /\ Unfaulted
  BY DEF HashtblInv
<1>2. /\ iter' \in Iters /\ iter'.walk = "none" /\ ~iter'.called /\ iter'.ep = NoEntry /\ iter'.en = NoEntry
      /\ iter'.entry = NoEntry
  BY DEF NoIter, Iters, BucketHooks, NoEntry
<1>3. HashtblTypes'
  BY <1>1, <1>2 DEF HashtblTypes
<1>4. Unfaulted'
  BY <1>1, <1>2 DEF Unfaulted, Parted, Positioned, ChainIsLive, Iterating
<1>5. ~torn' => RingKept' /\ Covered'
  BY <1>2 DEF HashtblInv, RingKept, Covered, Iterating
<1> QED
  BY <1>3, <1>4, <1>5 DEF HashtblInv

LEMMA AtBucketFields ==
    ASSUME HashtblAssumption, HashtblInv, fault = "none", NEW it \in Iters, NEW b \in BucketHooks
    PROVE  LET r == AtBucket(it, b)
           IN  /\ r \in Iters /\ r.walk = it.walk /\ r.entry = it.entry /\ r.called = it.called
               /\ r.bp = b /\ r.bn = hooks.next[b]
               /\ r.ep = IF b = Used THEN NoEntry ELSE Nth(chains[b], 1)
               /\ r.en = IF b = Used THEN NoEntry ELSE Nth(chains[b], 2)
<1> DEFINE first == IF b = Used THEN NoEntry ELSE Nth(chains[b], 1)
           second == IF b = Used THEN NoEntry ELSE Nth(chains[b], 2)
<1>1. first \in Nat /\ second \in Nat
  <2>1. CASE b = Used
    BY <2>1 DEF NoEntry
  <2>2. CASE b # Used
    <3>1. b \in Buckets
      BY <2>2 DEF BucketHooks
    <3> QED
      BY <2>2, <3>1, OnChain, FirstTwo
  <2> QED
    BY <2>1, <2>2
<1>2. hooks.next[b] \in BucketHooks
  BY RingTypes DEF HashtblInv, HashtblTypes
<1>3. AtBucket(it, b) = [it EXCEPT !.bp = b, !.bn = hooks.next[b], !.ep = first, !.en = second]
  BY DEF AtBucket
<1> HIDE DEF first, second
<1>4. /\ AtBucket(it, b) \in Iters /\ AtBucket(it, b).walk = it.walk /\ AtBucket(it, b).entry = it.entry
      /\ AtBucket(it, b).called = it.called
      /\ AtBucket(it, b).bp = b /\ AtBucket(it, b).bn = hooks.next[b]
      /\ AtBucket(it, b).ep = first /\ AtBucket(it, b).en = second
  BY <1>1, <1>2, <1>3 DEF Iters
<1> QED
  BY <1>4 DEF first, second

\* A walk comes to bucket b, from which it reaches all it is still to call.
LEMMA AtBucketKeepsTable ==
    ASSUME HashtblAssumption, HashtblInv, fault = "none", NEW it \in Iters, NEW b \in BucketHooks,
           it.walk \in {"foreach", "find"}, ~it.called, it.walk = "find" => it.entry = NoEntry,
           iter' = AtBucket(it, b),
           UNCHANGED <<chains, hooks, made, dropped, live, unfreed, torn, fault>>,
           ~torn => OnRing(hooks, b) /\ \A x \in toCall' \ seen' : x \in live /\ Reaches(hooks, b, Bucket[made[x]])
    PROVE  HashtblInv'
<1>1. HashtblTypes /\ Unfaulted
  BY DEF HashtblInv
<1>2. /\ iter' \in Iters /\ iter'.walk = it.walk /\ iter'.entry = it.entry /\ ~iter'.called
      /\ iter'.bp = b /\ iter'.bn = hooks.next[b]
      /\ iter'.ep = IF b = Used THEN NoEntry ELSE Nth(chains[b], 1)
      /\ iter'.en = IF b = Used THEN NoEntry ELSE Nth(chains[b], 2)
  BY AtBucketFields
<1>3. b # Used =>
        /\ b \in Buckets
        /\ Nth(chains[b], 1) # NoEntry => Nth(chains[b], 1) \in ToSet(chains[b])
        /\ Nth(chains[b], 2) # NoEntry => /\ NoEntry < Nth(chains[b], 1) /\ Nth(chains[b], 1) < Nth(chains[b], 2)
                                          /\ Nth(chains[b], 2) \in ToSet(chains[b])
        /\ \A x \in ToSet(chains[b]) : x = Nth(chains[b], 1)
                                       \/ (Nth(chains[b], 2) # NoEntry /\ Nth(chains[b], 2) <= x)
  <2>1. SUFFICES ASSUME b \in Buckets
                 PROVE  /\ Nth(chains[b], 1) # NoEntry => Nth(chains[b], 1) \in ToSet(chains[b])
                        /\ Nth(chains[b], 2) # NoEntry =>
                             /\ NoEntry < Nth(chains[b], 1) /\ Nth(chains[b], 1) < Nth(chains[b], 2)
                             /\ Nth(chains[b], 2) \in ToSet(chains[b])
                        /\ \A x \in ToSet(chains[b]) : x = Nth(chains[b], 1)
                                                       \/ (Nth(chains[b], 2) # NoEntry /\ Nth(chains[b], 2) <= x)
    BY DEF BucketHooks
  <2> QED
    BY <2>1, OnChain, FirstTwo
<1>4. HashtblTypes'
  BY <1>1, <1>2 DEF HashtblTypes
<1>5. Positioned'
  BY <1>2, <1>3 DEF Positioned, Iterating
<1>6. Unfaulted'
  BY <1>1, <1>5 DEF Unfaulted, Parted, ChainIsLive
<1>7. ASSUME ~torn'
      PROVE  RingKept' /\ Covered'
  <2>1. RingKept /\ Covered /\ OnRing(hooks, b)
    BY <1>7 DEF HashtblInv
  <2>2. hooks \in LinkMaps(BucketHooks) /\ Used \in BucketHooks
    BY <1>1 DEF HashtblTypes, BucketHooks
  <2>3. OnRing(hooks, hooks.next[b])
    <3>1. CASE b = Used
      BY <3>1 DEF OnRing, Reaches
    <3>2. CASE b # Used
      BY <2>1, <3>2, RingStep
    <3> QED
      BY <3>1, <3>2
  <2>4. RingKept'
    BY <1>2, <2>1, <2>3 DEF RingKept
  <2>5. ASSUME NEW x \in toCall' \ seen'
        PROVE  x \in live' /\ iter'.bp # Used /\ Ahead(x)'
    <3> DEFINE c == Bucket[made[x]]
    <3>1. x \in live /\ Reaches(hooks, b, c)
      BY <1>7, <2>5
    <3>2. c \in Buckets /\ c # Used /\ c \in BucketHooks /\ x \in ToSet(chains[c])
      BY <3>1, OnChain DEF BucketHooks, HashtblAssumption
    <3> HIDE DEF c
    <3>3. b # Used
      BY <3>1, <3>2, ReachesHead
    <3>4. CASE c = b
      BY <1>2, <1>3, <3>1, <3>2, <3>3, <3>4 DEF Ahead, c
    <3>5. CASE c # b
      <4>1. Reaches(hooks, hooks.next[b], c)
        BY <2>2, <3>1, <3>2, <3>3, <3>5, ReachesStep
      <4> QED
        BY <1>2, <3>1, <3>3, <4>1 DEF Ahead, c
    <3> QED
      BY <3>4, <3>5
  <2>6. iter'.walk # "reset"
    BY <1>2
  <2> QED
    BY <2>4, <2>5, <2>6 DEF Covered
<1> QED
  BY <1>4, <1>6, <1>7 DEF HashtblInv

LEMMA StartWalkKeepsTable ==
    ASSUME HashtblAssumption, HashtblInv, NEW kind \in {"foreach", "find"}, StartWalk(kind)
    PROVE  HashtblInv'
<1> DEFINE it == [NoIter EXCEPT !.walk = kind]
           b == hooks.next[Used]
<1>1. /\ fault = "none" /\ iter' = AtBucket(it, b) /\ toCall' = live
      /\ UNCHANGED <<chains, hooks, made, dropped, live, unfreed, torn, fault>>
  BY DEF StartWalk
<1>2. it \in Iters /\ it.walk = kind /\ ~it.called /\ it.entry = NoEntry
  BY DEF NoIter, Iters, BucketHooks, NoEntry
<1>3. b \in BucketHooks
  BY RingTypes DEF HashtblInv, HashtblTypes
<1>4. ASSUME ~torn
      PROVE  OnRing(hooks, b) /\ \A x \in live : Reaches(hooks, b, Bucket[made[x]])
  <2>1. OnRing(hooks, b)
    BY DEF OnRing, Reaches
  <2>2. ASSUME NEW x \in live
        PROVE  Reaches(hooks, b, Bucket[made[x]])
    <3>1. Bucket[made[x]] \in Buckets /\ chains[Bucket[made[x]]] # <<>>
      BY <1>1, OnChain
    <3> QED
      BY <1>1, <1>4, <3>1 DEF HashtblInv, RingKept, OnRing
  <2> QED
    BY <2>1, <2>2
<1> HIDE DEF it, b
<1> QED
  BY <1>1, <1>2, <1>3, <1>4, AtBucketKeepsTable

LEMMA NextBucketKeepsTable ==
    ASSUME HashtblAssumption, HashtblInv, NextBucket
    PROVE  HashtblInv'
<1>1. /\ fault = "none" /\ iter' = AtBucket(iter, iter.bn) /\ iter.walk \in {"foreach", "find"} /\ ~iter.called
      /\ iter.ep = NoEntry
      /\ UNCHANGED <<chains, hooks, made, dropped, live, toCall, seen, unfreed, torn, fault>>
  BY DEF NextBucket, Iterating
<1>2. HashtblTypes /\ Positioned
  BY <1>1 DEF HashtblInv, Unfaulted
<1>3. iter \in Iters /\ iter.bn \in BucketHooks
  BY <1>2 DEF HashtblTypes, Iters
<1>4. iter.walk = "find" => iter.entry = NoEntry
  BY <1>2 DEF Positioned
<1>5. ASSUME ~torn
      PROVE  OnRing(hooks, iter.bn) /\ \A x \in toCall \ seen : x \in live /\ Reaches(hooks, iter.bn, Bucket[made[x]])
  <2>1. Iterating /\ RingKept /\ Covered
    BY <1>1, <1>5 DEF HashtblInv, Iterating
  <2>2. ASSUME NEW x \in toCall \ seen
        PROVE  x \in live /\ Reaches(hooks, iter.bn, Bucket[made[x]])
    <3>1. x \in live /\ Ahead(x)
      BY <2>1 DEF Covered
    <3>2. x # NoEntry
      BY <1>1, <1>2, <3>1, OnChain DEF HashtblTypes
    <3>3. iter.en = NoEntry
      BY <1>1, OnChain
    <3> QED
      BY <1>1, <3>1, <3>2, <3>3 DEF Ahead
  <2> QED
    BY <2>1, <2>2 DEF RingKept
<1> QED
  BY <1>1, <1>3, <1>4, <1>5, AtBucketKeepsTable

LEMMA CallKeepsTable ==
    ASSUME HashtblAssumption, HashtblInv, Call
    PROVE  HashtblInv'
<1> DEFINE entry == IF iter.walk = "foreach" THEN iter.ep ELSE NoEntry
           it == [iter EXCEPT !.called = TRUE]
<1>1. /\ fault = "none" /\ Iterating /\ ~iter.called /\ iter.ep # NoEntry
      /\ iter' = [iter EXCEPT !.called = TRUE, !.entry = entry] /\ seen' = seen \union {iter.ep}
      /\ fault' = IF iter.ep \in dropped THEN "called" ELSE fault
      /\ UNCHANGED <<chains, hooks, made, dropped, live, toCall, unfreed, torn>>
  BY DEF Call
<1>2. HashtblTypes /\ Unfaulted /\ Parted /\ Positioned
  BY <1>1 DEF HashtblInv, Unfaulted
<1>3. iter.bp \in Buckets /\ iter.ep \in ToSet(chains[iter.bp])
  BY <1>1, <1>2, OnChain DEF Positioned
<1>4. iter.ep \in live /\ Bucket[made[iter.ep]] = iter.bp
  BY <1>1, <1>3, OnChain
<1>5. fault' = "none"
  BY <1>1, <1>2, <1>4 DEF Parted
<1>6. /\ iter' \in Iters /\ iter'.walk = iter.walk /\ iter'.bp = iter.bp /\ iter'.bn = iter.bn
      /\ iter'.ep = iter.ep /\ iter'.en = iter.en /\ iter'.called = TRUE /\ iter'.entry = entry
  <2>1. iter \in Iters /\ entry \in Nat
    BY <1>2 DEF HashtblTypes, Iters, NoEntry
  <2> HIDE DEF entry
  <2> QED
    BY <1>1, <2>1 DEF Iters
<1>7. HashtblTypes'
  BY <1>1, <1>2, <1>5, <1>6 DEF HashtblTypes
<1>8. Positioned'
  BY <1>1, <1>2, <1>4, <1>6 DEF Positioned, Iterating
<1>9. Unfaulted'
  BY <1>1, <1>2, <1>8 DEF Unfaulted, Parted, ChainIsLive
<1>10. ASSUME ~torn'
       PROVE  RingKept' /\ Covered'
  <2>1. RingKept /\ Covered
    BY <1>1, <1>10 DEF HashtblInv
  <2>2. RingKept'
    BY <1>1, <1>6, <2>1 DEF RingKept, Iterating
  <2>3. ASSUME NEW x \in toCall' \ seen'
        PROVE  x \in live' /\ iter'.bp # Used /\ Ahead(x)'
    <3>1. x \in live /\ x # iter.ep /\ iter.bp # Used /\ Ahead(x)
      BY <1>1, <2>1, <2>3 DEF Covered
    <3> QED
      BY <1>1, <1>6, <3>1 DEF Ahead
  <2>4. iter'.walk # "reset"
    BY <1>1, <1>6 DEF Iterating
  <2> QED
    BY <2>2, <2>3, <2>4 DEF Covered
<1> QED
  BY <1>5, <1>7, <1>9, <1>10 DEF HashtblInv
\* What a verdict unhashes.
Drops(drop) ==
    /\ chains' = IF drop THEN [chains EXCEPT ![iter.bp] = RemoveFirst(@, iter.ep)] ELSE chains
    /\ live' = IF drop THEN live \ {iter.ep} ELSE live

\* The walk goes on with the next entry, after what a verdict has unhashed.
LEMMA NextEntryKeepsTable ==
    ASSUME HashtblAssumption, HashtblInv, fault = "none", Iterating, iter.called,
           NEW drop \in BOOLEAN, Drops(drop), drop => iter.walk = "foreach",
           iter' = NextEntry(chains'), fault' \in {"none", "verdict", "found"},
           fault' = "none" => Parted',
           dropped' \subseteq DOMAIN made, unfreed' \subseteq DOMAIN made,
           UNCHANGED <<hooks, made, toCall, seen, torn>>
    PROVE  HashtblInv'
<1> DEFINE b == iter.bp
           e == iter.ep
           behind == IF iter.en = NoEntry THEN NoEntry ELSE Behind(chains'[b], iter.en)
<1>1. HashtblTypes /\ Unfaulted /\ Positioned
  BY DEF HashtblInv, Unfaulted
<1>2. b \in Buckets /\ e # NoEntry /\ e \in seen /\ e \in Nat
  BY <1>1, OnChain DEF Positioned, HashtblTypes, Iters
<1>3. iter.en # NoEntry => NoEntry < e /\ e < iter.en /\ iter.en \in ToSet(chains[b])
  BY <1>1 DEF Positioned
<1>4. drop => e \in live \union unfreed /\ Bucket[made[e]] = b
  BY <1>1 DEF Positioned
<1>5. /\ chains \in [Buckets -> Seq(Nat)] /\ iter \in Iters
      /\ \A c \in Buckets : Ascending(chains[c]) /\ ToSet(chains[c]) = {x \in live : Bucket[made[x]] = c}
  BY <1>1 DEF HashtblTypes, Unfaulted, ChainIsLive, Ascending
<1> HIDE DEF b, e
<1>6. /\ chains' \in [Buckets -> Seq(Nat)]
      /\ \A c \in Buckets \ {b} : chains'[c] = chains[c]
      /\ ToSet(chains'[b]) = (IF drop THEN ToSet(chains[b]) \ {e} ELSE ToSet(chains[b])) /\ Ascending(chains'[b])
  <2>1. /\ RemoveFirst(chains[b], e) \in Seq(Nat) /\ ToSet(RemoveFirst(chains[b], e)) = ToSet(chains[b]) \ {e}
        /\ Ascending(RemoveFirst(chains[b], e))
    BY <1>2, <1>5, RemoveAscends
  <2>2. CASE drop
    <3>1. chains' = [chains EXCEPT ![b] = RemoveFirst(@, e)]
      BY <2>2 DEF b, e, Drops
    <3> QED
      BY <1>2, <1>5, <2>1, <2>2, <3>1
  <2>3. CASE ~drop
    BY <1>2, <1>5, <2>3 DEF Drops
  <2> QED
    BY <2>2, <2>3
<1>7. iter.en # NoEntry => iter.en \in ToSet(chains'[b]) /\ iter.en \in Nat
  BY <1>2, <1>3, <1>5, <1>6 DEF Iters
<1>8. /\ behind \in Nat
      /\ behind # NoEntry => iter.en # NoEntry /\ behind \in ToSet(chains'[b]) /\ iter.en < behind
      /\ \A x \in ToSet(chains'[b]) : iter.en # NoEntry /\ iter.en < x => behind # NoEntry /\ behind <= x
  <2>1. CASE iter.en = NoEntry
    BY <2>1 DEF NoEntry
  <2>2. CASE iter.en # NoEntry
    <3>1. chains'[b] \in Seq(Nat) /\ Ascending(chains'[b]) /\ iter.en \in ToSet(chains'[b])
      BY <1>2, <1>6, <1>7, <2>2
    <3> QED
      BY <2>2, <3>1, BehindIsNext
  <2> QED
    BY <2>1, <2>2
<1>9. iter' = [iter EXCEPT !.called = FALSE, !.ep = iter.en, !.en = behind]
  BY DEF NextEntry, b
<1> HIDE DEF behind
<1>10. /\ iter' \in Iters /\ iter'.walk = iter.walk /\ iter'.bp = b /\ iter'.bn = iter.bn
       /\ iter'.ep = iter.en /\ iter'.en = behind /\ iter'.called = FALSE /\ iter'.entry = iter.entry
  BY <1>5, <1>8, <1>9 DEF Iters, b
<1>11. HashtblTypes'
  BY <1>1, <1>5, <1>6, <1>10 DEF HashtblTypes, Iterating, Drops
<1>12. Positioned'
  <2>1. b # Used
    BY <1>2 DEF HashtblAssumption
  <2>2. iter'.en # NoEntry => NoEntry < iter'.ep /\ iter'.ep < iter'.en /\ iter'.en \in ToSet(chains'[b])
    BY <1>2, <1>3, <1>7, <1>8, <1>10 DEF NoEntry
  <2> QED
    BY <1>1, <1>7, <1>10, <2>1, <2>2 DEF Positioned, Iterating
<1>13. ASSUME NEW c \in Buckets
       PROVE  ChainIsLive(c)'
  <2>1. ToSet(chains'[c]) = {x \in live' : Bucket[made'[x]] = c}
    <3>1. CASE c = b
      BY <1>2, <1>5, <1>6, <3>1
        DEF b, e, Drops
    <3>2. CASE c # b
      BY <1>2, <1>4, <1>5, <1>6, <3>2 DEF b, e, Drops
    <3> QED
      BY <3>1, <3>2
  <2>2. Ascending(chains'[c])
    BY <1>5, <1>6
  <2> QED
    BY <2>1, <2>2 DEF ChainIsLive, Ascending
<1>14. ASSUME ~torn'
       PROVE  RingKept' /\ Covered'
  <2>1. RingKept /\ Covered
    BY <1>14 DEF HashtblInv
  <2>2. \A c \in Buckets : chains'[c] # <<>> => chains[c] # <<>>
    <3>1. \A c \in Buckets : ToSet(chains'[c]) \subseteq ToSet(chains[c])
      BY <1>6
    <3>2. \A c \in Buckets : /\ ToSet(chains[c]) = {} <=> chains[c] = <<>>
                             /\ ToSet(chains'[c]) = {} <=> chains'[c] = <<>>
      BY <1>5, <1>6, EmptyChain
    <3> QED
      BY <3>1, <3>2
  <2>3. RingKept'
    BY <1>10, <2>1, <2>2 DEF RingKept, Iterating
  <2>4. ASSUME NEW x \in toCall' \ seen'
        PROVE  x \in live' /\ iter'.bp # Used /\ Ahead(x)'
    <3>1. x \in live /\ iter.bp # Used /\ Ahead(x) /\ x # e
      BY <1>2, <2>1, <2>4 DEF Covered
    <3>2. x \in live' /\ x \in Nat
      BY <1>1, <3>1, OnChain DEF e, HashtblTypes, Drops
    <3>3. CASE Bucket[made[x]] = b /\ iter.en # NoEntry /\ iter.en <= x
      <4>1. x \in ToSet(chains'[b])
        BY <1>2, <1>5, <1>6, <3>1, <3>3
      <4>2. x = iter.en \/ (behind # NoEntry /\ behind <= x)
        BY <1>7, <1>8, <3>2, <3>3, <4>1
      <4> QED
        BY <1>10, <3>1, <3>2, <3>3, <4>2 DEF Ahead, b
    <3>4. CASE Reaches(hooks, iter.bn, Bucket[made[x]])
      BY <1>10, <3>1, <3>2, <3>4 DEF Ahead, b
    <3> QED
      BY <3>1, <3>3, <3>4 DEF Ahead, b
  <2>5. iter'.walk # "reset"
    BY <1>10 DEF Iterating
  <2> QED
    BY <2>3, <2>4, <2>5 DEF Covered
<1> QED
  BY <1>11, <1>12, <1>13, <1>14 DEF HashtblInv, Unfaulted

LEMMA ReturnsKeepsTable ==
    ASSUME HashtblAssumption, HashtblInv, NEW drop \in BOOLEAN, Returns(drop)
    PROVE  HashtblInv'
<1> DEFINE e == iter.ep
           unhash == ~iter.verdict /\ drop
<1>1. /\ iter.walk = "foreach" /\ iter.called /\ UNCHANGED <<hooks, made, toCall, seen, torn>>
      /\ chains' = IF unhash THEN [chains EXCEPT ![iter.bp] = RemoveFirst(@, iter.ep)] ELSE chains
      /\ iter' = NextEntry(chains')
      /\ dropped' = IF iter.verdict \/ drop THEN dropped \union {e} ELSE dropped
      /\ unfreed' = IF iter.verdict \/ drop THEN unfreed \ {e} ELSE unfreed
      /\ live' = IF unhash THEN live \ {e} ELSE live
      /\ fault' = IF iter.verdict /\ e \in live THEN "verdict" ELSE fault
  BY DEF Returns
<1>2. fault = "none" /\ Iterating
  BY <1>1 DEF HashtblInv, HashtblTypes, Iterating
<1>3. HashtblTypes /\ Parted /\ Positioned
  BY <1>2 DEF HashtblInv, Unfaulted
<1>4. e \in live \union unfreed /\ e \in DOMAIN made /\ iter.verdict \in BOOLEAN
  BY <1>1, <1>3 DEF Positioned, HashtblTypes, Iters
<1>5. dropped' \subseteq DOMAIN made /\ unfreed' \subseteq DOMAIN made
  BY <1>1, <1>3, <1>4 DEF HashtblTypes
<1>6. fault' = "none" => Parted'
  BY <1>1, <1>2, <1>3, <1>4 DEF Parted
<1>7. unhash \in BOOLEAN /\ Drops(unhash)
  BY <1>1, <1>4 DEF Drops
<1> HIDE DEF unhash
<1> QED
  BY <1>1, <1>2, <1>5, <1>6, <1>7, NextEntryKeepsTable DEF e

LEMMA FindsKeepsTable ==
    ASSUME HashtblAssumption, HashtblInv, NEW found \in BOOLEAN, Finds(found)
    PROVE  HashtblInv'
<1>1. /\ fault = "none" /\ iter.called /\ Iterating /\ fault' \in {"none", "found"}
      /\ UNCHANGED <<chains, hooks, made, dropped, live, unfreed, torn>>
  BY DEF Finds, Iterating
<1>2. CASE found
  BY <1>1, <1>2, NoWalkKeepsTable DEF Finds
<1>3. CASE ~found
  <2>1. iter' = NextEntry(chains') /\ UNCHANGED <<toCall, seen>> /\ fault' = fault
    BY <1>1, <1>3 DEF Finds
  <2>2. HashtblTypes /\ Parted
    BY <1>1 DEF HashtblInv, Unfaulted
  <2>3. Parted' /\ dropped' \subseteq DOMAIN made /\ unfreed' \subseteq DOMAIN made
    BY <1>1, <2>2 DEF Parted, HashtblTypes
  <2>4. Drops(FALSE)
    BY <1>1 DEF Drops
  <2> QED
    BY <1>1, <2>1, <2>3, <2>4, NextEntryKeepsTable
<1> QED
  BY <1>2, <1>3

LEMMA StartResetKeepsTable ==
    ASSUME HashtblAssumption, HashtblInv, StartReset
    PROVE  HashtblInv'
<1> DEFINE b == hooks.next[Used]
<1>1. /\ fault = "none" /\ iter' = [NoIter EXCEPT !.walk = "reset", !.bp = b, !.bn = hooks.next[b]]
      /\ UNCHANGED <<chains, hooks, made, dropped, live, toCall, seen, unfreed, torn, fault>>
  BY DEF StartReset
<1>2. HashtblTypes /\ Unfaulted
  BY <1>1 DEF HashtblInv
<1>3. hooks \in LinkMaps(BucketHooks) /\ b \in BucketHooks /\ hooks.next[b] \in BucketHooks /\ Used \in BucketHooks
  BY <1>2, RingTypes DEF HashtblTypes
<1> HIDE DEF b
<1>4. /\ iter' \in Iters /\ iter'.walk = "reset" /\ ~iter'.called /\ iter'.ep = NoEntry /\ iter'.en = NoEntry
      /\ iter'.entry = NoEntry /\ iter'.bp = b /\ iter'.bn = hooks.next[b]
  BY <1>1, <1>3 DEF NoIter, Iters, NoEntry
<1>5. HashtblTypes'
  BY <1>1, <1>2, <1>4 DEF HashtblTypes
<1>6. Unfaulted'
  BY <1>1, <1>2, <1>4 DEF Unfaulted, Parted, Positioned, ChainIsLive, Iterating
<1>7. ASSUME ~torn'
      PROVE  RingKept' /\ Covered'
  <2>1. RingKept
    BY <1>1, <1>7 DEF HashtblInv
  <2>2. RingKept'
    BY <1>1, <1>4, <2>1 DEF RingKept, Iterating
  <2>3. OnRing(hooks, b)
    BY DEF OnRing, Reaches, b
  <2>4. ASSUME NEW c \in Buckets, chains[c] # <<>>
        PROVE  b # Used /\ (c = b \/ Reaches(hooks, hooks.next[b], c))
    <3>1. Reaches(hooks, b, c)
      BY <2>1, <2>4 DEF RingKept, OnRing, b
    <3>2. b # Used
      BY <2>4, <3>1, ReachesHead DEF HashtblAssumption
    <3>3. c \in BucketHooks
      BY DEF BucketHooks
    <3> QED
      BY <1>3, <3>1, <3>2, <3>3, ReachesStep
  <2> QED
    BY <1>1, <1>4, <2>2, <2>3, <2>4 DEF Covered, Iterating
<1> QED
  BY <1>5, <1>6, <1>7 DEF HashtblInv

LEMMA ResetBucketKeepsTable ==
    ASSUME HashtblAssumption, HashtblInv, ResetBucket
    PROVE  HashtblInv'
<1> DEFINE b == iter.bp
<1>1. iter.walk = "reset" /\ fault = "none" /\ UNCHANGED <<made, toCall, seen, unfreed, torn, fault>>
  BY DEF ResetBucket, HashtblInv, HashtblTypes
<1>2. CASE b = Used
  <2>1. iter' = NoIter /\ UNCHANGED <<chains, hooks, dropped, live>>
    BY <1>2 DEF ResetBucket
  <2> QED
    BY <1>1, <2>1, NoWalkKeepsTable
<1>3. CASE b # Used
  <2> DEFINE M == ListDelete(hooks, b)
             gone == ToSet(chains[b])
  <2>1. /\ dropped' = dropped \union gone /\ live' = live \ gone
        /\ chains' = [chains EXCEPT ![b] = <<>>] /\ hooks' = M
        /\ iter' = [iter EXCEPT !.bp = iter.bn, !.bn = M.next[iter.bn]]
    BY <1>3 DEF ResetBucket
  <2>2. HashtblTypes /\ Unfaulted /\ Parted /\ Positioned
    BY <1>1 DEF HashtblInv, Unfaulted
  <2>3. /\ iter \in Iters /\ hooks \in LinkMaps(BucketHooks) /\ chains \in [Buckets -> Seq(Nat)]
        /\ b \in Buckets /\ b \in BucketHooks /\ iter.bn \in BucketHooks /\ Used \in BucketHooks
        /\ Buckets \subseteq BucketHooks
    BY <1>3, <2>2 DEF HashtblTypes, Iters, BucketHooks
  <2> HIDE DEF b
  <2>4. M \in LinkMaps(BucketHooks) /\ M.next[iter.bn] \in BucketHooks
    BY <2>3 DEF ListDelete, LinkMaps
  <2>5. gone \subseteq live /\ gone = {x \in live : Bucket[made[x]] = b}
    BY <2>2, <2>3 DEF Unfaulted, ChainIsLive
  <2> HIDE DEF M, gone
  <2>6. /\ iter' \in Iters /\ iter'.walk = "reset" /\ iter'.called = iter.called /\ iter'.ep = iter.ep
        /\ iter'.en = iter.en /\ iter'.entry = iter.entry /\ iter'.bp = iter.bn /\ iter'.bn = M.next[iter.bn]
    BY <1>1, <2>1, <2>3, <2>4 DEF Iters
  <2>7. ~iter.called /\ iter.ep = NoEntry /\ iter.en = NoEntry
    BY <1>1, <2>2, OnChain DEF Positioned, Iterating
  <2>8. chains' \in [Buckets -> Seq(Nat)] /\ chains'[b] = <<>> /\ \A c \in Buckets \ {b} : chains'[c] = chains[c]
    BY <2>1, <2>3
  <2>9. HashtblTypes'
    BY <1>1, <2>1, <2>2, <2>4, <2>5, <2>6, <2>7, <2>8 DEF HashtblTypes
  <2>10. Parted'
    BY <1>1, <2>1, <2>2, <2>5 DEF Parted
  <2>11. Positioned'
    BY <1>1, <2>2, <2>6, <2>7 DEF Positioned, Iterating
  <2>12. ASSUME NEW c \in Buckets
         PROVE  ChainIsLive(c)'
    <3>1. CASE c = b
      <4>1. ToSet(chains'[c]) = {} /\ {x \in live' : Bucket[made'[x]] = c} = {}
        BY <1>1, <2>1, <2>5, <2>8, <3>1 DEF ToSet
      <4> QED
        BY <2>8, <3>1, <4>1 DEF ChainIsLive
    <3>2. CASE c # b
      <4>1. chains'[c] = chains[c] /\ ToSet(chains[c]) = {x \in live : Bucket[made[x]] = c}
        BY <2>2, <2>8, <3>2 DEF Unfaulted, ChainIsLive
      <4>2. ToSet(chains'[c]) = {x \in live' : Bucket[made'[x]] = c}
        BY <1>1, <2>1, <2>5, <3>2, <4>1
      <4> QED
        BY <2>2, <4>1, <4>2 DEF ChainIsLive, Unfaulted
    <3> QED
      BY <3>1, <3>2
  <2>13. ASSUME ~torn'
         PROVE  RingKept' /\ Covered'
    <3>1. RingKept /\ Covered /\ OnRing(hooks, b) /\ iter.bn = hooks.next[b]
      BY <1>1, <2>13 DEF HashtblInv, Covered, b
    <3>2. WellLinked(hooks, BucketHooks) /\ OnRing(hooks, Used)
      BY <3>1 DEF RingKept
    <3>3. iter.bn # b /\ OnRing(hooks, iter.bn)
      BY <1>3, <2>3, <3>1, <3>2, RingNotAlone, RingStep DEF b
    <3>4. /\ WellLinked(M, BucketHooks)
          /\ \A h, x \in BucketHooks \ {b} : Reaches(hooks, h, x) => Reaches(M, h, x)
          /\ \A x \in BucketHooks \ {b} : OnRing(hooks, x) => OnRing(M, x)
      BY <2>3, <3>2, RingDelete DEF M
    <3>5. OnRing(M, iter.bn) /\ OnRing(M, Used)
      BY <1>3, <2>3, <3>2, <3>3, <3>4 DEF b
    <3>6. RingKept'
      BY <2>1, <2>3, <2>6, <2>8, <3>1, <3>4, <3>5 DEF RingKept, Iterating
    <3>7. ASSUME NEW c \in Buckets, chains'[c] # <<>>
          PROVE  iter'.bp # Used /\ (c = iter'.bp \/ Reaches(hooks', iter'.bn, c))
      <4>1. c # b /\ chains[c] # <<>> /\ c \in BucketHooks \ {b} /\ c # Used
        BY <2>3, <2>8, <3>7 DEF HashtblAssumption
      <4>2. Reaches(hooks, iter.bn, c)
        BY <1>1, <3>1, <4>1 DEF Covered, b
      <4>3. iter.bn # Used
        BY <4>1, <4>2, ReachesHead
      <4>4. Reaches(M, iter.bn, c)
        BY <2>3, <3>3, <3>4, <4>1, <4>2
      <4>5. c = iter.bn \/ Reaches(M, M.next[iter.bn], c)
        BY <2>3, <2>4, <4>1, <4>3, <4>4, ReachesStep
      <4> QED
        BY <2>1, <2>6, <4>3, <4>5
    <3> QED
      BY <2>1, <2>6, <3>5, <3>6, <3>7 DEF Covered, Iterating
  <2> QED
    BY <1>1, <2>9, <2>10, <2>11, <2>12, <2>13 DEF HashtblInv, Unfaulted
<1> QED
  BY <1>2, <1>3

LEMMA HashtblInitInv ==
    ASSUME HashtblAssumption, HashtblInit
    PROVE  HashtblInv
<1>1. /\ chains = [b \in Buckets |-> <<>>] /\ hooks = InitLinks(BucketHooks)
      /\ made = <<>> /\ dropped = {} /\ iter = NoIter /\ live = {} /\ unfreed = {} /\ torn = FALSE /\ fault = "none"
  BY DEF HashtblInit
<1>2. /\ iter \in Iters /\ iter.walk = "none" /\ ~iter.called /\ iter.ep = NoEntry /\ iter.en = NoEntry
      /\ iter.entry = NoEntry
  BY <1>1 DEF NoIter, Iters, BucketHooks, NoEntry
<1>3. hooks \in LinkMaps(BucketHooks) /\ WellLinked(hooks, BucketHooks)
  BY <1>1 DEF InitLinks, LinkMaps, WellLinked
<1>4. HashtblTypes /\ DOMAIN made = {}
  <2>1. made \in Seq(Keys) /\ DOMAIN made = {}
    BY <1>1, EmptySeq
  <2>2. chains \in [Buckets -> Seq(Nat)]
    BY <1>1
  <2> QED
    BY <1>1, <1>2, <1>3, <2>1, <2>2 DEF HashtblTypes
<1>5. \A b \in Buckets : chains[b] = <<>> /\ ToSet(chains[b]) = {} /\ DOMAIN chains[b] = {}
  BY <1>1 DEF ToSet
<1>6. Parted /\ Positioned /\ \A b \in Buckets : ChainIsLive(b)
  BY <1>1, <1>2, <1>4, <1>5 DEF Parted, Positioned, ChainIsLive, Iterating
<1>7. OnRing(hooks, Used)
  BY <1>1 DEF OnRing, Reaches, InitLinks, BucketHooks
<1>8. RingKept /\ Covered
  BY <1>2, <1>3, <1>5, <1>7 DEF RingKept, Covered, Iterating
<1> QED
  BY <1>4, <1>6, <1>8 DEF HashtblInv, Unfaulted

LEMMA HashtblStep ==
    ASSUME HashtblAssumption, HashtblInv, [HashtblNext]_hashtblVars
    PROVE  HashtblInv'
<1>1. ASSUME NEW k \in Keys, Insert(k)
      PROVE  HashtblInv'
  BY <1>1, InsertKeepsTable
<1>2. ASSUME NEW k \in Keys, NEW free \in BOOLEAN, RemoveEntry(k, free)
      PROVE  HashtblInv'
  BY <1>2, RemoveEntryKeepsTable
<1>3. ASSUME NEW kind \in {"foreach", "find"}, StartWalk(kind)
      PROVE  HashtblInv'
  BY <1>3, StartWalkKeepsTable
<1>4. CASE Call
  BY <1>4, CallKeepsTable
<1>5. ASSUME NEW drop \in BOOLEAN, Returns(drop)
      PROVE  HashtblInv'
  BY <1>5, ReturnsKeepsTable
<1>6. ASSUME NEW found \in BOOLEAN, Finds(found)
      PROVE  HashtblInv'
  BY <1>6, FindsKeepsTable
<1>7. CASE NextBucket
  BY <1>7, NextBucketKeepsTable
<1>8. CASE WalkEnds
  BY <1>8, NoWalkKeepsTable DEF WalkEnds
<1>9. CASE StartReset
  BY <1>9, StartResetKeepsTable
<1>10. CASE ResetBucket
  BY <1>10, ResetBucketKeepsTable
<1>11. CASE UNCHANGED hashtblVars
  BY <1>11 DEF hashtblVars, HashtblInv, HashtblTypes, Unfaulted, Parted, Positioned, ChainIsLive, RingKept,
               OnRing, Reaches, Covered, Ahead, Iterating
<1> QED
  BY <1>1, <1>2, <1>3, <1>4, <1>5, <1>6, <1>7, <1>8, <1>9, <1>10, <1>11 DEF HashtblNext

LEMMA HashtblInvSound ==
    ASSUME HashtblAssumption, HashtblInv
    PROVE  HashtblIsSound
<1>1. HashtblTypes
  BY DEF HashtblInv
<1>2. fault # "called"
  BY <1>1 DEF HashtblTypes
<1>3. ASSUME fault = "none"
      PROVE  /\ \A b \in Buckets : ChainIsLive(b)
             /\ DOMAIN made = live \cup dropped \cup unfreed
             /\ live \cap dropped = {} /\ unfreed \cap (live \cup dropped) = {}
  BY <1>3 DEF HashtblInv, Unfaulted, Parted
<1>4. ASSUME fault = "none", ~torn
      PROVE  /\ WellLinked(hooks, BucketHooks)
             /\ OnUsed(Used) /\ \A b \in Buckets : chains[b] # <<>> => OnUsed(b)
             /\ Iterating => OnUsed(iter.bn)
             /\ AtEnd => IF Iterating THEN toCall \subseteq seen ELSE live = {}
  <2>1. RingKept /\ Covered
    BY <1>4 DEF HashtblInv
  <2>2. ASSUME AtEnd, Iterating
        PROVE  toCall \subseteq seen
    BY <2>1, <2>2 DEF AtEnd, Covered
  <2>3. ASSUME AtEnd, ~Iterating
        PROVE  live = {}
    <3>1. iter.walk = "reset"
      BY <1>1, <2>3 DEF AtEnd, Iterating, HashtblTypes, Iters
    <3>2. \A c \in Buckets : chains[c] = <<>>
      BY <2>1, <2>3, <3>1 DEF AtEnd, Covered
    <3> QED
      BY <1>4, <3>2, OnChain DEF ToSet
  <2> QED
    BY <2>1, <2>2, <2>3 DEF RingKept, OnRing, OnUsed
<1> QED
  BY <1>2, <1>3, <1>4 DEF HashtblIsSound

(* For any buckets, keys and hash function, and any order of insertions,     *)
(* removals, walks with what their callbacks insert, remove and answer, and  *)
(* resets: the chains hold what was inserted and not removed, no walk calls  *)
(* an entry that was freed, and as long as the list of buckets is not torn a *)
(* walk calls every entry that stayed and a reset leaves none                *)
(* (mrp_htbl_insert, mrp_htbl_remove, mrp_htbl_foreach, mrp_htbl_find and    *)
(* mrp_htbl_reset).                                                          *)
THEOREM HashtblSound == HashtblSpec => []HashtblIsSound
<1>1. HashtblInit => HashtblInv
  BY HashtblInitInv, HashtblAssumption
<1>2. HashtblInv /\ [HashtblNext]_hashtblVars => HashtblInv'
  BY HashtblStep, HashtblAssumption
<1>3. HashtblInv => HashtblIsSound
  BY HashtblInvSound, HashtblAssumption
<1> QED
  BY <1>1, <1>2, <1>3, PTL DEF HashtblSpec

------------------------------------------------------------------------------
(* The allocators of common/mm.c.  What the debug allocator counts is the   *)
(* number and the sum of the headers on its list, and while another one is  *)
(* configured there are none.                                               *)
HeadersAreCounted ==
    /\ IsFiniteSet(DOMAIN headed) /\ DOMAIN headed \subseteq DOMAIN given
    /\ \A b \in DOMAIN headed : headed[b] \in Nat /\ given[b] = headed[b]
    /\ cur_blocks = Cardinality(DOMAIN headed) /\ cur_alloc = SumFunction(headed)

BlocksInv ==
    /\ blockFault # "header" /\ blocksMade \in Nat
    /\ blockFault = "none" =>
         /\ HeadersAreCounted
         /\ DOMAIN given \subseteq 1 .. blocksMade
         /\ mode = "debug" \/ DOMAIN headed = {}
         /\ max_blocks \in Int /\ cur_blocks <= max_blocks
         /\ max_alloc \in Int /\ cur_alloc <= max_alloc

LEMMA HeaderAdded ==
    ASSUME HeadersAreCounted, NEW b, b \notin DOMAIN given, NEW size \in Nat,
           given' = With(given, b, size), headed' = With(headed, b, size),
           cur_blocks' = cur_blocks + 1, cur_alloc' = cur_alloc + size
    PROVE  HeadersAreCounted'
<1>1. /\ DOMAIN headed' = DOMAIN headed \cup {b} /\ b \notin DOMAIN headed
      /\ DOMAIN given' = DOMAIN given \cup {b}
      /\ \A x \in DOMAIN headed' : headed'[x] = IF x = b THEN size ELSE headed[x]
      /\ \A x \in DOMAIN given' : given'[x] = IF x = b THEN size ELSE given[x]
  BY DEF With, HeadersAreCounted
<1>2. /\ IsFiniteSet(DOMAIN headed') /\ Cardinality(DOMAIN headed') = Cardinality(DOMAIN headed) + 1
      /\ Cardinality(DOMAIN headed) \in Nat
  BY <1>1, FS_AddElement, FS_CardinalityType DEF HeadersAreCounted
<1>3. \A x \in DOMAIN headed' : headed'[x] \in Nat /\ given'[x] = headed'[x]
  BY <1>1 DEF HeadersAreCounted
<1>4. SumFunctionOnSet(headed', DOMAIN headed') = size + SumFunctionOnSet(headed, DOMAIN headed)
  <2>1. \A x \in DOMAIN headed' : headed'[x] \in Int
    BY <1>3
  <2>2. (DOMAIN headed') \ {b} = DOMAIN headed /\ b \in DOMAIN headed' /\ headed'[b] = size
    BY <1>1
  <2>3. \A x \in (DOMAIN headed') \ {b} : headed[x] = headed'[x]
    BY <1>1
  <2> QED  BY <1>2, <2>1, <2>2, <2>3, SumFacts
<1>5. SumFunctionOnSet(headed, DOMAIN headed) \in Int
  BY SumFacts DEF HeadersAreCounted
<1>6. cur_alloc' = SumFunction(headed')
  BY <1>4, <1>5 DEF SumFunction, HeadersAreCounted
<1> QED  BY <1>1, <1>2, <1>3, <1>6 DEF HeadersAreCounted

LEMMA HeaderRemoved ==
    ASSUME HeadersAreCounted, NEW b \in DOMAIN headed,
           given' = Without(given, b), headed' = Without(headed, b),
           cur_blocks' = cur_blocks - 1, cur_alloc' = cur_alloc - headed[b]
    PROVE  /\ HeadersAreCounted' /\ cur_blocks' \in Int /\ cur_alloc' \in Int
           /\ cur_blocks' <= cur_blocks /\ cur_alloc' <= cur_alloc
<1>1. /\ DOMAIN headed' = (DOMAIN headed) \ {b} /\ DOMAIN given' = (DOMAIN given) \ {b}
      /\ \A x \in DOMAIN headed' : headed'[x] = headed[x]
      /\ \A x \in DOMAIN given' : given'[x] = given[x]
  BY DEF Without
<1>2. /\ IsFiniteSet(DOMAIN headed') /\ Cardinality(DOMAIN headed') = Cardinality(DOMAIN headed) - 1
      /\ Cardinality(DOMAIN headed) \in Nat
  BY <1>1, FS_RemoveElement, FS_CardinalityType DEF HeadersAreCounted
<1>3. \A x \in DOMAIN headed' : headed'[x] \in Nat /\ given'[x] = headed'[x]
  BY <1>1 DEF HeadersAreCounted
<1>4. \A x \in DOMAIN headed : headed[x] \in Int
  BY DEF HeadersAreCounted
<1>5. SumFunctionOnSet(headed, DOMAIN headed) = headed[b] + SumFunctionOnSet(headed', DOMAIN headed')
  BY <1>1, <1>4, SumFacts DEF HeadersAreCounted
<1>6. SumFunctionOnSet(headed', DOMAIN headed') \in Int
  BY <1>2, <1>3, SumFacts
<1>7. cur_alloc' = SumFunction(headed') /\ cur_alloc' <= cur_alloc /\ cur_alloc' \in Int
  BY <1>5, <1>6 DEF SumFunction, HeadersAreCounted
<1> QED  BY <1>1, <1>2, <1>3, <1>7 DEF HeadersAreCounted

LEMMA HeaderChanged ==
    ASSUME HeadersAreCounted, NEW b \in DOMAIN headed, NEW size \in Nat,
           DOMAIN headed' = DOMAIN headed, DOMAIN given' = DOMAIN given,
           \A x \in DOMAIN headed : headed'[x] = IF x = b THEN size ELSE headed[x],
           \A x \in DOMAIN given : given'[x] = IF x = b THEN size ELSE given[x],
           cur_blocks' = cur_blocks, cur_alloc' = cur_alloc - headed[b] + size
    PROVE  HeadersAreCounted' /\ cur_alloc' \in Int
<1>1. /\ DOMAIN headed' = DOMAIN headed /\ DOMAIN given' = DOMAIN given
      /\ \A x \in DOMAIN headed' : headed'[x] = IF x = b THEN size ELSE headed[x]
      /\ \A x \in DOMAIN given' : given'[x] = IF x = b THEN size ELSE given[x]
  OBVIOUS
<1>2. /\ \A x \in DOMAIN headed' : headed'[x] \in Nat /\ given'[x] = headed'[x]
      /\ \A x \in DOMAIN headed' : headed'[x] \in Int
      /\ \A x \in DOMAIN headed : headed[x] \in Int
  BY <1>1 DEF HeadersAreCounted
<1>3. SumFunctionOnSet(headed, DOMAIN headed) = headed[b] + SumFunctionOnSet(headed, (DOMAIN headed) \ {b})
  BY <1>2, SumFacts DEF HeadersAreCounted
<1>4. SumFunctionOnSet(headed', DOMAIN headed') = size + SumFunctionOnSet(headed, (DOMAIN headed) \ {b})
  <2>1. b \in DOMAIN headed' /\ headed'[b] = size /\ \A x \in (DOMAIN headed') \ {b} : headed[x] = headed'[x]
    BY <1>1
  <2>2. SumFunctionOnSet(headed', DOMAIN headed') = headed'[b] + SumFunctionOnSet(headed, (DOMAIN headed') \ {b})
    <3>1. IsFiniteSet(DOMAIN headed')
      BY <1>1 DEF HeadersAreCounted
    <3>2. \A x \in DOMAIN headed' : headed'[x] \in Int
      BY <1>2
    <3>3. \A h : \A a \in DOMAIN headed' : (\A x \in (DOMAIN headed') \ {a} : h[x] = headed'[x]) =>
              SumFunctionOnSet(headed', DOMAIN headed') = headed'[a] + SumFunctionOnSet(h, (DOMAIN headed') \ {a})
      BY <3>1, <3>2, SumFacts
    <3> QED  BY <2>1, <3>3
  <2> QED  BY <1>1, <2>1, <2>2
<1>5. SumFunctionOnSet(headed, (DOMAIN headed) \ {b}) \in Int
  <2>1. IsFiniteSet((DOMAIN headed) \ {b})
    BY FS_Subset DEF HeadersAreCounted
  <2> QED  BY <1>2, <2>1, SumFacts
<1>6. cur_alloc' = SumFunction(headed') /\ cur_alloc' \in Int
  BY <1>2, <1>3, <1>4, <1>5 DEF SumFunction, HeadersAreCounted
<1> QED  BY <1>1, <1>2, <1>6 DEF HeadersAreCounted

LEMMA HeaderTypes ==
    ASSUME HeadersAreCounted
    PROVE  cur_blocks \in Nat /\ cur_alloc \in Int
<1>1. \A x \in DOMAIN headed : headed[x] \in Int
  BY DEF HeadersAreCounted
<1> QED  BY <1>1, SumFacts, FS_CardinalityType DEF HeadersAreCounted, SumFunction

LEMMA LargerFacts ==
    ASSUME NEW a \in Int, NEW b \in Int
    PROVE  Larger(a, b) \in Int /\ a <= Larger(a, b) /\ b <= Larger(a, b)
BY DEF Larger

LEMMA BlocksInitInv == BlocksInit => BlocksInv
<1> SUFFICES ASSUME BlocksInit PROVE BlocksInv
  OBVIOUS
<1>1. DOMAIN headed = {} /\ DOMAIN given = {} /\ IsFiniteSet({}) /\ Cardinality({}) = 0
  BY FS_EmptySet DEF BlocksInit
<1>2. SumFunctionOnSet(headed, DOMAIN headed) = 0
  <2>1. \A x \in {} : headed[x] \in Int
    OBVIOUS
  <2> QED  BY <1>1, <2>1, SumFacts
<1>3. HeadersAreCounted
  BY <1>1, <1>2 DEF BlocksInit, HeadersAreCounted, SumFunction
<1> QED  BY <1>1, <1>3 DEF BlocksInit, BlocksInv

LEMMA BlockAllocInv ==
    ASSUME BlocksInv, NEW size \in Sizes, BlockAlloc(size)
    PROVE  BlocksInv'
<1>1. /\ HeadersAreCounted /\ blockFault = "none" /\ blockFault' = "none" /\ blocksMade' = blocksMade + 1
      /\ given' = With(given, blocksMade + 1, size) /\ blocksMade \in Nat /\ mode' = mode
      /\ DOMAIN given \subseteq 1 .. blocksMade
  BY DEF BlocksInv, BlockAlloc
<1>2. blocksMade + 1 \notin DOMAIN given /\ DOMAIN given' \subseteq 1 .. blocksMade' /\ blocksMade' \in Nat
  BY <1>1 DEF With
<1>3. size \in Nat
  BY MemoryAssumption
<1>4. CASE mode = "debug"
  <2>1. /\ headed' = With(headed, blocksMade + 1, size)
        /\ cur_blocks' = cur_blocks + 1 /\ cur_alloc' = cur_alloc + size
        /\ max_blocks' = Larger(max_blocks, cur_blocks + 1)
        /\ max_alloc' = Larger(max_alloc, cur_alloc + size)
    BY <1>4 DEF BlockAlloc
  <2>2. HeadersAreCounted'
    BY <1>1, <1>2, <1>3, <2>1, HeaderAdded
  <2>3. cur_blocks + 1 \in Int /\ cur_alloc + size \in Int /\ max_blocks \in Int /\ max_alloc \in Int
    BY <1>1, <1>3, HeaderTypes DEF BlocksInv
  <2>4. max_blocks' \in Int /\ max_alloc' \in Int /\ cur_blocks' <= max_blocks' /\ cur_alloc' <= max_alloc'
    BY <2>1, <2>3, LargerFacts
  <2> QED  BY <1>1, <1>2, <1>4, <2>2, <2>4 DEF BlocksInv
<1>5. CASE mode # "debug"
  <2>1. UNCHANGED <<headed, cur_blocks, cur_alloc, max_blocks, max_alloc>> /\ DOMAIN headed = {}
    BY <1>1, <1>5 DEF BlockAlloc, BlocksInv
  <2>2. HeadersAreCounted'
    BY <1>1, <2>1 DEF HeadersAreCounted
  <2> QED  BY <1>1, <1>2, <2>1, <2>2 DEF BlocksInv
<1> QED  BY <1>4, <1>5

LEMMA BlockResizeInv ==
    ASSUME BlocksInv, NEW b \in DOMAIN given, NEW size \in Sizes, NEW moves \in BOOLEAN, BlockResize(b, size, moves)
    PROVE  BlocksInv'
<1>1. /\ HeadersAreCounted /\ blockFault = "none" /\ blocksMade' = blocksMade
      /\ given' = [given EXCEPT ![b] = size] /\ mode' = mode
      /\ mode = "debug" \/ DOMAIN headed = {}
      /\ UNCHANGED <<cur_blocks, max_blocks>> /\ size \in Nat
  BY MemoryAssumption DEF BlocksInv, BlockResize
<1>2. blockFault' # "header"
  BY <1>1 DEF BlockResize, Misread
<1> SUFFICES ASSUME blockFault' = "none" PROVE BlocksInv'
  BY <1>1, <1>2 DEF BlocksInv
<1>3. Misread(b) = "none"
  BY DEF BlockResize
<1>4. DOMAIN given' = DOMAIN given
  BY <1>1
<1>5. CASE mode = "debug"
  <2>1. /\ headed' = [headed EXCEPT ![b] = size] /\ cur_alloc' = cur_alloc - headed[b] + size
        /\ max_alloc' = Larger(max_alloc, cur_alloc') /\ b \in DOMAIN headed
    BY <1>3, <1>5 DEF BlockResize, Misread
  <2>2. /\ DOMAIN headed' = DOMAIN headed
        /\ \A x \in DOMAIN headed : headed'[x] = IF x = b THEN size ELSE headed[x]
        /\ \A x \in DOMAIN given : given'[x] = IF x = b THEN size ELSE given[x]
    BY <1>1, <2>1
  <2>3. HeadersAreCounted' /\ cur_alloc' \in Int
    BY <1>1, <1>4, <2>1, <2>2, HeaderChanged
  <2>4. max_alloc \in Int
    BY <1>1 DEF BlocksInv
  <2>5. max_alloc' \in Int /\ cur_alloc' <= max_alloc'
    BY <2>1, <2>3, <2>4, LargerFacts
  <2> QED  BY <1>1, <1>4, <1>5, <2>3, <2>5 DEF BlocksInv
<1>6. CASE mode # "debug"
  <2>1. UNCHANGED <<headed, cur_alloc, max_alloc>> /\ DOMAIN headed = {}
    BY <1>1, <1>6 DEF BlockResize
  <2>2. HeadersAreCounted'
    BY <1>1, <1>4, <2>1 DEF HeadersAreCounted
  <2> QED  BY <1>1, <1>4, <2>1, <2>2 DEF BlocksInv
<1> QED  BY <1>5, <1>6

LEMMA BlockFreeInv ==
    ASSUME BlocksInv, NEW b \in DOMAIN given, BlockFree(b)
    PROVE  BlocksInv'
<1>1. /\ HeadersAreCounted /\ blockFault = "none" /\ blocksMade' = blocksMade
      /\ given' = Without(given, b) /\ mode' = mode
      /\ mode = "debug" \/ DOMAIN headed = {}
      /\ UNCHANGED <<max_blocks, max_alloc>> /\ blockFault' = Misread(b)
      /\ max_blocks \in Int /\ max_alloc \in Int /\ cur_blocks <= max_blocks /\ cur_alloc <= max_alloc
      /\ DOMAIN given \subseteq 1 .. blocksMade
  BY DEF BlocksInv, BlockFree
<1>2. blockFault' # "header"
  BY <1>1 DEF Misread
<1> SUFFICES ASSUME blockFault' = "none" PROVE BlocksInv'
  BY <1>1, <1>2 DEF BlocksInv
<1>3. Misread(b) = "none"
  BY <1>1
<1>4. DOMAIN given' = (DOMAIN given) \ {b}
  BY <1>1 DEF Without
<1>5. CASE mode = "debug"
  <2>1. /\ headed' = Without(headed, b) /\ cur_alloc' = cur_alloc - headed[b]
        /\ cur_blocks' = cur_blocks - 1 /\ b \in DOMAIN headed
    BY <1>3, <1>5 DEF BlockFree, Misread
  <2>2. /\ HeadersAreCounted' /\ cur_blocks' \in Int /\ cur_alloc' \in Int
        /\ cur_blocks' <= cur_blocks /\ cur_alloc' <= cur_alloc
    BY <1>1, <2>1, HeaderRemoved
  <2>3. cur_blocks \in Int /\ cur_alloc \in Int /\ cur_blocks' \in Int /\ cur_alloc' \in Int
    BY <1>1, <2>2, HeaderTypes
  <2>4. cur_blocks' <= max_blocks /\ cur_alloc' <= max_alloc
    <3>1. \A x, y, z \in Int : x <= y /\ y <= z => x <= z
      OBVIOUS
    <3> QED  BY <1>1, <2>2, <2>3, <3>1
  <2> QED  BY <1>1, <1>4, <1>5, <2>2, <2>4 DEF BlocksInv
<1>6. CASE mode # "debug"
  <2>1. UNCHANGED <<headed, cur_blocks, cur_alloc>> /\ DOMAIN headed = {}
    BY <1>1, <1>6 DEF BlockFree
  <2>2. HeadersAreCounted'
    BY <1>1, <1>4, <2>1 DEF HeadersAreCounted
  <2> QED  BY <1>1, <1>4, <2>1, <2>2 DEF BlocksInv
<1> QED  BY <1>5, <1>6

LEMMA BlocksNextInv == BlocksInv /\ [BlocksNext]_blockVars => BlocksInv'
<1> SUFFICES ASSUME BlocksInv, [BlocksNext]_blockVars PROVE BlocksInv'
  OBVIOUS
<1>1. ASSUME NEW size \in Sizes, BlockAlloc(size)  PROVE BlocksInv'
  BY <1>1, BlockAllocInv
<1>2. ASSUME NEW b \in DOMAIN given, BlockFree(b)  PROVE BlocksInv'
  BY <1>2, BlockFreeInv
<1>3. ASSUME NEW b \in DOMAIN given, NEW size \in Sizes, NEW moves \in BOOLEAN, BlockResize(b, size, moves)
      PROVE  BlocksInv'
  BY <1>3, BlockResizeInv
<1>4. ASSUME NEW type \in {"passthru", "debug"}, Configure(type)  PROVE BlocksInv'
  <2>1. DOMAIN headed = {}
    <3>1. IsFiniteSet(DOMAIN headed) /\ Cardinality(DOMAIN headed) = 0
      BY <1>4 DEF Configure, BlocksInv, HeadersAreCounted
    <3> QED  BY <3>1, FS_EmptySet
  <2> QED  BY <1>4, <2>1 DEF Configure, BlocksInv, HeadersAreCounted
<1>5. CASE UNCHANGED blockVars
  BY <1>5 DEF blockVars, BlocksInv, HeadersAreCounted
<1> QED  BY <1>1, <1>2, <1>3, <1>4, <1>5 DEF BlocksNext

LEMMA BlocksInvSound == BlocksInv => BlocksAreSound
BY DEF BlocksInv, BlocksAreSound, HeadersAreCounted

------------------------------------------------------------------------------
(* The object pools of common/mm.c.  The invariant says of the chunks what  *)
(* the masks, their caches and the lists have to do with one another        *)
(* (ChunksSound), of the slots in use that each is a client's or that of a  *)
(* callback, and of one of these only (Stack, UseSound), and it counts.     *)
Frames == [kind : {"setup", "cleanup"}, obj : Nat \X Nat, full : BOOLEAN]
Cleanups == {e \in Frames : e.kind = "cleanup"}
ObjsOf(q) == {q[i].obj : i \in DOMAIN q}
Stack(q) == q \in Seq(Frames) /\ \A i, j \in DOMAIN q : q[i].obj = q[j].obj => i = j

PoolSized ==
    /\ pool.nperchunk \in Nat \ {0} /\ pool.limit \in Nat /\ {pool.setup, pool.cleanup} \subseteq BOOLEAN
    /\ MaxChunks * pool.nperchunk < Wrap

IsChunk(chunk) ==
    /\ chunk = [free |-> chunk.free, cache |-> Words(chunk.free)]
    /\ chunk.free \subseteq Slots

ChunksSound ==
    /\ DOMAIN chunks \subseteq 1 .. MaxChunks
    /\ \A c \in DOMAIN chunks : IsChunk(chunks[c])
    /\ space \in Seq(Nat) /\ IsInjective(space) /\ full \in Seq(Nat) /\ IsInjective(full)
    /\ ToSet(space) \cap ToSet(full) = {} /\ ToSet(space) \cup ToSet(full) = DOMAIN chunks
    /\ \A c \in ToSet(space) : chunks[c].free # {}
    /\ "overtaken" \notin flaws => \A c \in ToSet(full) : chunks[c].free = {}

UseSound == Stack(nested) /\ InUse = held \cup ObjsOf(nested) /\ held \cap ObjsOf(nested) = {}

CountSound ==
    /\ nobj \in Nat
    /\ "refused" \notin flaws =>
          /\ nobj = Cardinality(held) + Cardinality(Marked(nested, Cleanups))
          /\ "inner" \notin flaws => pool.limit = 0 \/ Cardinality(InUse) <= pool.limit

PoolInv == PoolSized /\ ChunksSound /\ UseSound /\ CountSound

LEMMA ListCount ==
    ASSUME NEW T, NEW q \in Seq(T), IsInjective(q)
    PROVE  IsFiniteSet(ToSet(q)) /\ Cardinality(ToSet(q)) = Len(q)
<1>1. Len(q) \in Nat /\ DOMAIN q = 1 .. Len(q) /\ q = [i \in 1 .. Len(q) |-> q[i]]
  BY LenProperties
<1>2. q \in [1 .. Len(q) -> ToSet(q)] /\ \A t \in ToSet(q) : \E i \in 1 .. Len(q) : q[i] = t
  BY <1>1 DEF ToSet
<1>3. \A i, j \in 1 .. Len(q) : q[i] = q[j] => i = j
  BY <1>1 DEF IsInjective
<1>4. ExistsBijection(1 .. Len(q), ToSet(q))
  BY <1>2, <1>3 DEF ExistsBijection, Bijection, Injection, Surjection, IsInjective
<1>5. IsFiniteSet(1 .. Len(q)) /\ Cardinality(1 .. Len(q)) = Len(q)
  <2>1. /\ IsFiniteSet(1 .. Len(q))
        /\ Cardinality(1 .. Len(q)) = IF 1 > Len(q) THEN 0 ELSE Len(q) - 1 + 1
    <3>1. Len(q) \in Int
      BY <1>1
    <3> QED  BY <3>1, FS_Interval
  <2>2. (IF 1 > Len(q) THEN 0 ELSE Len(q) - 1 + 1) = Len(q)
    BY <1>1
  <2> QED  BY <2>1, <2>2
<1> QED  BY <1>4, <1>5, FS_Bijection

LEMMA StackCounts ==
    ASSUME NEW q, Stack(q)
    PROVE  IsFiniteSet(ObjsOf(q)) /\ Cardinality(ObjsOf(q)) = Len(q) /\ Len(q) \in Nat
<1> DEFINE o == [i \in 1 .. Len(q) |-> q[i].obj]
<1>1. Len(q) \in Nat /\ DOMAIN q = 1 .. Len(q)
  BY LenProperties DEF Stack
<1>2. o \in Seq(ObjsOf(q)) /\ Len(o) = Len(q)
  <2>1. o \in [1 .. Len(q) -> ObjsOf(q)]
    BY <1>1 DEF ObjsOf
  <2>2. o \in Seq(ObjsOf(q))
    <3> HIDE DEF o
    <3> QED  BY <1>1, <2>1
  <2>3. DOMAIN o = 1 .. Len(q)
    OBVIOUS
  <2> HIDE DEF o
  <2> QED  BY <1>1, <2>2, <2>3, LenProperties
<1>3. IsInjective(o)
  BY <1>1 DEF IsInjective, Stack
<1>4. ToSet(o) = ObjsOf(q)
  BY <1>1 DEF ToSet, ObjsOf
<1> HIDE DEF o
<1> QED  BY <1>1, <1>2, <1>3, <1>4, ListCount

\* A callback is called.
LEMMA PushFacts ==
    ASSUME NEW q, Stack(q), NEW e \in Frames, e.obj \notin ObjsOf(q)
    PROVE  /\ Stack(Append(q, e)) /\ ObjsOf(Append(q, e)) = ObjsOf(q) \cup {e.obj}
           /\ Cardinality(Marked(Append(q, e), Cleanups))
                  = Cardinality(Marked(q, Cleanups)) + (IF e.kind = "cleanup" THEN 1 ELSE 0)
<1> DEFINE a == Append(q, e)
<1>1. /\ a \in Seq(Frames) /\ Len(a) = Len(q) + 1 /\ a[Len(q) + 1] = e /\ Len(q) \in Nat
      /\ \A i \in 1 .. Len(q) : a[i] = q[i]
      /\ DOMAIN q = 1 .. Len(q) /\ DOMAIN a = 1 .. Len(q) + 1
  BY AppendFacts, LenProperties DEF Stack
<1> HIDE DEF a
<1>2. \A i \in DOMAIN a : i = Len(q) + 1 \/ (i \in DOMAIN q /\ a[i] = q[i])
  BY <1>1
<1>3. ObjsOf(a) = ObjsOf(q) \cup {e.obj}
  <2>1. ObjsOf(a) \subseteq ObjsOf(q) \cup {e.obj}
    BY <1>1, <1>2 DEF ObjsOf
  <2>2. \A i \in DOMAIN q : i \in DOMAIN a /\ a[i] = q[i]
    BY <1>1
  <2>3. Len(q) + 1 \in DOMAIN a
    BY <1>1
  <2> QED  BY <1>1, <2>1, <2>2, <2>3 DEF ObjsOf
<1>4. \A i, j \in DOMAIN a : a[i].obj = a[j].obj => i = j
  BY <1>1, <1>2 DEF Stack, ObjsOf
<1>5. e \in Cleanups <=> e.kind = "cleanup"
  BY DEF Cleanups
<1>6. Cardinality(Marked(a, Cleanups)) = Cardinality(Marked(q, Cleanups)) + (IF e \in Cleanups THEN 1 ELSE 0)
  BY AppendCounts DEF a, Stack
<1> QED  BY <1>1, <1>3, <1>4, <1>5, <1>6 DEF Stack, a

\* The callback called last returns.
LEMMA PopFacts ==
    ASSUME NEW q, Stack(q), q # <<>>
    PROVE  /\ q[Len(q)] \in Frames /\ Stack(Front(q)) /\ q[Len(q)].obj \in ObjsOf(q)
           /\ ObjsOf(Front(q)) = ObjsOf(q) \ {q[Len(q)].obj}
           /\ Cardinality(Marked(Front(q), Cleanups))
                  = Cardinality(Marked(q, Cleanups)) - (IF q[Len(q)].kind = "cleanup" THEN 1 ELSE 0)
<1> DEFINE len == Len(q)
           f == Front(q)
<1>1. q \in Seq(Frames) /\ len \in Nat \ {0} /\ DOMAIN q = 1 .. len /\ \A i \in 1 .. len : q[i] \in Frames
  BY LenProperties, EmptySeq, ElementOfSeq DEF Stack
<1>2. f \in Seq(Frames) /\ Len(f) = len - 1 /\ \A i \in 1 .. len - 1 : f[i] = q[i]
  <2>1. /\ SubSeq(q, 1, len - 1) \in Seq(Frames)
        /\ Len(SubSeq(q, 1, len - 1)) = IF 1 <= len - 1 THEN (len - 1) - 1 + 1 ELSE 0
        /\ \A i \in 1 .. (len - 1) - 1 + 1 : SubSeq(q, 1, len - 1)[i] = q[1 + i - 1]
    BY <1>1, SubSeqProperties
  <2>2. (len - 1) - 1 + 1 = len - 1 /\ (~(1 <= len - 1) => len - 1 = 0) /\ \A i \in 1 .. len - 1 : 1 + i - 1 = i
    BY <1>1
  <2> QED  BY <2>1, <2>2 DEF Front
<1>3. f = RemoveAt(q, len)
  <2> DEFINE r == RemoveAt(q, len)
  <2>1. /\ r \in Seq(Frames) /\ Len(r) = len - 1
        /\ \A i \in 1 .. len - 1 : r[i] = IF i < len THEN q[i] ELSE q[i + 1]
    <3>1. len \in 1 .. Len(q)
      BY <1>1
    <3> QED  BY <1>1, <3>1, RemoveAtElements
  <2> HIDE DEF r, f
  <2>2. \A i \in 1 .. len - 1 : f[i] = r[i]
    BY <1>1, <1>2, <2>1
  <2> QED  BY <1>2, <2>1, <2>2, SeqEqual DEF r
<1>4. DOMAIN f = 1 .. len - 1
  BY <1>2, LenProperties
<1>5. Cardinality(Marked(f, Cleanups)) = Cardinality(Marked(q, Cleanups)) - (IF q[len] \in Cleanups THEN 1 ELSE 0)
  BY <1>1, <1>3, RemoveAtCounts
<1>6. q[len] \in Cleanups <=> q[len].kind = "cleanup"
  BY <1>1 DEF Cleanups
<1> HIDE DEF f
<1>7. len \in DOMAIN q /\ \A i \in DOMAIN q : i = len \/ (i \in DOMAIN f /\ f[i] = q[i])
  BY <1>1, <1>2, <1>4
<1>8. \A i \in DOMAIN f : i \in DOMAIN q /\ i # len /\ f[i] = q[i]
  BY <1>1, <1>2, <1>4
<1>9. Stack(f) /\ ObjsOf(f) = ObjsOf(q) \ {q[len].obj} /\ q[len].obj \in ObjsOf(q)
  <2> HIDE DEF len
  <2>1. Stack(f)
    BY <1>2, <1>8 DEF Stack
  <2>2. ObjsOf(f) \subseteq ObjsOf(q) \ {q[len].obj}
    BY <1>7, <1>8 DEF Stack, ObjsOf
  <2>3. ObjsOf(q) \ {q[len].obj} \subseteq ObjsOf(f)
    BY <1>7 DEF ObjsOf
  <2> QED  BY <1>7, <2>1, <2>2, <2>3 DEF ObjsOf
<1> QED  BY <1>1, <1>5, <1>6, <1>9 DEF f

\* What there are of slots in use.
LEMMA InUseFacts ==
    ASSUME PoolSized, ChunksSound, UseSound
    PROVE  /\ IsFiniteSet(InUse) /\ Cardinality(InUse) = Cardinality(held) + Len(nested)
           /\ IsFiniteSet(held) /\ Cardinality(held) \in Nat /\ Len(nested) \in Nat
<1>1. IsFiniteSet(DOMAIN chunks)
  <2>1. IsFiniteSet(1 .. MaxChunks)
    BY MemoryAssumption, FS_Interval
  <2> QED  BY <2>1, FS_Subset DEF ChunksSound
<1>2. IsFiniteSet(Slots)
  <2>1. 0 \in Int /\ pool.nperchunk - 1 \in Int
    BY DEF PoolSized
  <2> QED  BY <2>1, FS_Interval DEF Slots
<1>3. IsFiniteSet(InUse)
  <2>1. IsFiniteSet((DOMAIN chunks) \X Slots)
    BY <1>1, <1>2, FS_Product
  <2> QED  BY <2>1, FS_Subset DEF InUse
<1>4. IsFiniteSet(ObjsOf(nested)) /\ Cardinality(ObjsOf(nested)) = Len(nested) /\ Len(nested) \in Nat
  BY StackCounts DEF UseSound
<1>5. held \subseteq InUse
  BY DEF UseSound
<1>6. IsFiniteSet(held) /\ Cardinality(held) \in Nat
  BY <1>3, <1>5, FS_Subset, FS_CardinalityType
<1>7. Cardinality(InUse) = Cardinality(held) + Cardinality(ObjsOf(nested)) - Cardinality(held \cap ObjsOf(nested))
  BY <1>4, <1>6, FS_Union DEF UseSound
<1>8. Cardinality(held \cap ObjsOf(nested)) = 0
  BY FS_EmptySet DEF UseSound
<1> QED  BY <1>3, <1>4, <1>6, <1>7, <1>8

\* There is room for one more where a slot is free.
LEMMA RoomFacts ==
    ASSUME PoolSized, NEW U, NEW C, C \subseteq 1 .. MaxChunks, U \subseteq C \X Slots
    PROVE  IsFiniteSet(U) /\ Cardinality(U) \in Nat /\ Cardinality(U) < Wrap
<1> DEFINE A == (1 .. MaxChunks) \X Slots
<1>1. MaxChunks \in Nat /\ Wrap \in Nat /\ pool.nperchunk \in Nat \ {0} /\ MaxChunks * pool.nperchunk < Wrap
  BY MemoryAssumption DEF PoolSized
<1>2. IsFiniteSet(1 .. MaxChunks) /\ Cardinality(1 .. MaxChunks) = MaxChunks
  <2>1. /\ IsFiniteSet(1 .. MaxChunks)
        /\ Cardinality(1 .. MaxChunks) = IF 1 > MaxChunks THEN 0 ELSE MaxChunks - 1 + 1
    BY <1>1, FS_Interval
  <2>2. (IF 1 > MaxChunks THEN 0 ELSE MaxChunks - 1 + 1) = MaxChunks
    BY <1>1
  <2> QED  BY <2>1, <2>2
<1>3. IsFiniteSet(Slots) /\ Cardinality(Slots) = pool.nperchunk
  <2>1. 0 \in Int /\ pool.nperchunk - 1 \in Int
    BY <1>1
  <2>2. /\ IsFiniteSet(Slots)
        /\ Cardinality(Slots) = IF 0 > pool.nperchunk - 1 THEN 0 ELSE (pool.nperchunk - 1) - 0 + 1
    BY <2>1, FS_Interval DEF Slots
  <2>3. (IF 0 > pool.nperchunk - 1 THEN 0 ELSE (pool.nperchunk - 1) - 0 + 1) = pool.nperchunk
    BY <1>1
  <2> QED  BY <2>2, <2>3
<1>4. IsFiniteSet(A) /\ Cardinality(A) = MaxChunks * pool.nperchunk
  <2>1. IsFiniteSet(A) /\ Cardinality(A) = Cardinality(1 .. MaxChunks) * Cardinality(Slots)
    BY <1>2, <1>3, FS_Product
  <2> HIDE DEF A
  <2> QED  BY <1>2, <1>3, <2>1
<1>5. U \subseteq A
  OBVIOUS
<1> HIDE DEF A
<1>6. IsFiniteSet(U) /\ Cardinality(U) <= Cardinality(A)
  BY <1>4, <1>5, FS_Subset
<1>7. Cardinality(U) \in Nat /\ Cardinality(A) \in Nat
  BY <1>4, <1>6, FS_CardinalityType
<1>8. \A x, y, z \in Int : x <= y /\ y < z => x < z
  OBVIOUS
<1> QED  BY <1>1, <1>4, <1>6, <1>7, <1>8

LEMMA CounterFacts ==
    ASSUME NEW len \in Nat, Wrap \in Nat
    PROVE  /\ len + 1 < Wrap => (len + 1) % Wrap = len + 1
           /\ 0 < Wrap => (len + 1) % Wrap \in Nat
<1>1. len + 1 < Wrap => (len + 1) % Wrap = len + 1
  OBVIOUS
<1>2. 0 < Wrap => (len + 1) % Wrap \in Nat
  OBVIOUS
<1> QED  BY <1>1, <1>2

LEMMA LeastFacts ==
    ASSUME NEW S \in SUBSET Nat, S # {}
    PROVE  Least(S) \in S
BY NatMinimum DEF Least

LEMMA WordsFacts ==
    ASSUME NEW F \in SUBSET Nat
    PROVE  Words(F) \subseteq Nat /\ (Words(F) = {} <=> F = {})
<1>1. \A s \in F : s \div MaskBits \in Nat
  <2> SUFFICES ASSUME NEW s \in F PROVE s \div MaskBits \in Nat
    OBVIOUS
  <2>1. s \in Nat /\ MaskBits \in Nat \ {0}
    BY MemoryAssumption
  <2> QED  BY <2>1
<1> QED  BY <1>1 DEF Words

LEMMA SlotsAreNumbers == PoolSized => Slots \subseteq Nat
BY DEF PoolSized, Slots

\* mrp_list_delete of what may not be on the list.
LEMMA RemoveFirstAny ==
    ASSUME NEW T, NEW q \in Seq(T), IsInjective(q), NEW e
    PROVE  /\ RemoveFirst(q, e) \in Seq(T) /\ IsInjective(RemoveFirst(q, e))
           /\ ToSet(RemoveFirst(q, e)) = ToSet(q) \ {e}
<1>1. CASE e \in ToSet(q)
  BY <1>1, RemoveFirstFacts
<1>2. CASE e \notin ToSet(q)
  <2>1. ~\E i \in 1 .. Len(q) : q[i] = e
    BY <1>2, LenProperties DEF ToSet
  <2>2. RemoveFirst(q, e) = q
    BY <2>1 DEF RemoveFirst
  <2> QED  BY <1>2, <2>2
<1> QED  BY <1>1, <1>2

LEMMA PoolInitInv == PoolInit => PoolInv
<1> SUFFICES ASSUME PoolInit PROVE PoolInv
  OBVIOUS
<1>1. PICK sz \in PoolSizes : pool = [sz EXCEPT !.limit = RoundUp(sz.limit, sz.nperchunk) * sz.nperchunk]
  BY DEF PoolInit
<1>2. /\ sz \in [nperchunk : Nat \ {0}, limit : Nat, setup : BOOLEAN, cleanup : BOOLEAN]
      /\ MaxChunks * sz.nperchunk < Wrap
  BY MemoryAssumption
<1>3. RoundUp(sz.limit, sz.nperchunk) * sz.nperchunk \in Nat
  <2>1. sz.nperchunk \in Nat \ {0} /\ sz.limit + sz.nperchunk - 1 \in Nat
    BY <1>2
  <2>2. RoundUp(sz.limit, sz.nperchunk) \in Nat
    BY <2>1 DEF RoundUp
  <2>3. \A x, y \in Nat : x * y \in Nat
    OBVIOUS
  <2> QED  BY <2>1, <2>2, <2>3
<1>4. PoolSized
  BY <1>1, <1>2, <1>3 DEF PoolSized
<1>5. ChunksSound
  <2>1. <<>> \in Seq(Nat) /\ IsInjective(<<>>) /\ ToSet(<<>>) = {}
    BY DEF IsInjective, ToSet
  <2> QED  BY <2>1 DEF PoolInit, ChunksSound
<1>6. InUse = {} /\ held = {} /\ ObjsOf(nested) = {} /\ Stack(nested) /\ Marked(nested, Cleanups) = {}
  BY DEF PoolInit, InUse, ObjsOf, Stack, Marked
<1>7. CountSound
  <2>1. Cardinality({}) = 0
    BY FS_EmptySet
  <2>2. Cardinality(held) = 0 /\ Cardinality(Marked(nested, Cleanups)) = 0 /\ Cardinality(InUse) = 0
    BY <1>6, <2>1
  <2>3. nobj = 0 /\ pool.limit \in Nat
    BY <1>4 DEF PoolInit, PoolSized
  <2> QED  BY <2>2, <2>3 DEF CountSound
<1> QED  BY <1>4, <1>5, <1>6, <1>7 DEF PoolInv, UseSound

\* mrp_objpool_alloc takes a slot that is not in use.
LEMMA AllocFacts ==
    ASSUME PoolInv, Alloc
    PROVE  /\ ChunksSound' /\ DOMAIN chunks' \subseteq 1 .. MaxChunks /\ InUse' \subseteq (DOMAIN chunks') \X Slots
           /\ \E obj \in Nat \X Nat :
                 /\ obj \notin InUse /\ InUse' = InUse \cup {obj}
                 /\ IF pool.setup
                    THEN /\ nested' = Append(nested, [kind |-> "setup", obj |-> obj, full |-> FALSE])
                         /\ UNCHANGED <<nobj, held>>
                    ELSE nobj' = (nobj + 1) % Wrap /\ held' = held \cup {obj} /\ UNCHANGED nested
<1> DEFINE grow == space = <<>>
           c == IF grow THEN Least(Spare) ELSE Head(space)
           chunk == IF grow THEN NewChunk ELSE chunks[c]
           word == Least(chunk.cache)
           slot == Least({s \in chunk.free : s \div MaskBits = word})
           left == [free |-> chunk.free \ {slot}, cache |-> Words(chunk.free \ {slot})]
           exhausted == left.cache = {}
           listed == IF grow THEN <<c>> ELSE space
           obj == <<c, slot>>
<1>1. /\ grow => Spare # {}
      /\ chunks' = [x \in DOMAIN chunks \cup {c} |-> IF x = c THEN left ELSE chunks[x]]
      /\ space' = IF exhausted THEN Tail(listed) ELSE listed
      /\ full' = IF exhausted THEN Append(full, c) ELSE full
      /\ IF pool.setup
         THEN /\ nested' = Append(nested, [kind |-> "setup", obj |-> obj, full |-> FALSE])
              /\ UNCHANGED <<nobj, held>>
         ELSE nobj' = (nobj + 1) % Wrap /\ held' = held \cup {obj} /\ UNCHANGED nested
      /\ flaws' = IF \E i \in DOMAIN nested : nested[i].kind = "setup" THEN flaws \cup {"inner"} ELSE flaws
      /\ pool' = pool
  BY DEF Alloc
<1>2. ChunksSound /\ PoolSized /\ Slots \subseteq Nat
  BY SlotsAreNumbers DEF PoolInv
<1>3. /\ c \in 1 .. MaxChunks /\ c \in Nat /\ (grow <=> c \notin DOMAIN chunks)
      /\ listed \in Seq(Nat) /\ IsInjective(listed) /\ listed # <<>> /\ Head(listed) = c
      /\ ToSet(listed) \cap ToSet(full) = {} /\ ToSet(listed) \cup ToSet(full) = DOMAIN chunks \cup {c}
  <2>1. CASE grow
    <3>1. Spare \subseteq Nat /\ Spare \subseteq 1 .. MaxChunks /\ Spare \cap DOMAIN chunks = {} /\ Spare # {}
      BY <1>1, <2>1, MemoryAssumption DEF Spare
    <3>2. c \in Spare
      BY <2>1, <3>1, LeastFacts
    <3> HIDE DEF c
    <3>3. listed = <<c>> /\ Head(<<c>>) = c /\ <<c>> \in Seq(Nat) /\ <<c>> # <<>>
      BY <2>1, <3>1, <3>2
    <3>4. ToSet(<<c>>) = {c} /\ IsInjective(<<c>>)
      BY DEF ToSet, IsInjective
    <3>5. ToSet(space) = {}
      BY <2>1 DEF ToSet
    <3>6. ToSet(full) = DOMAIN chunks
      BY <1>2, <3>5 DEF ChunksSound
    <3> QED  BY <2>1, <3>1, <3>2, <3>3, <3>4, <3>6
  <2>2. CASE ~grow
    <3>1. Head(space) \in ToSet(space) /\ Head(space) \in Nat
      BY <1>2, <2>2, TailFacts DEF ChunksSound
    <3>2. c = Head(space) /\ listed = space
      BY <2>2
    <3> HIDE DEF c, listed
    <3> QED  BY <1>2, <2>2, <3>1, <3>2 DEF ChunksSound
  <2> QED  BY <2>1, <2>2
<1>4. IsChunk(chunk) /\ chunk.free # {} /\ \A s \in Slots : s \notin chunk.free => ~grow /\ s \notin chunks[c].free
  <2>1. CASE grow
    <3>1. 0 \in Slots
      BY <1>2 DEF PoolSized, Slots
    <3>2. chunk = NewChunk
      BY <2>1
    <3> HIDE DEF chunk
    <3> QED  BY <3>1, <3>2 DEF NewChunk, IsChunk
  <2>2. CASE ~grow
    <3>1. c \in ToSet(space)
      BY <1>2, <2>2, TailFacts DEF ChunksSound
    <3>2. chunk = chunks[c] /\ c \in DOMAIN chunks
      BY <1>3, <2>2
    <3> HIDE DEF chunk, c
    <3> QED  BY <1>2, <2>2, <3>1, <3>2 DEF ChunksSound
  <2> QED  BY <2>1, <2>2
<1>5. slot \in chunk.free /\ slot \in Slots /\ slot \in Nat
  <2> HIDE DEF chunk
  <2>1. chunk.free \subseteq Nat /\ chunk.cache = Words(chunk.free)
    BY <1>2, <1>4 DEF IsChunk
  <2>2. chunk.cache \subseteq Nat /\ chunk.cache # {}
    BY <1>4, <2>1, WordsFacts
  <2>3. word \in Words(chunk.free)
    BY <2>1, <2>2, LeastFacts
  <2>4. {s \in chunk.free : s \div MaskBits = word} # {}
    BY <2>3 DEF Words
  <2>5. slot \in {s \in chunk.free : s \div MaskBits = word}
    <3>1. {s \in chunk.free : s \div MaskBits = word} \in SUBSET Nat
      BY <2>1
    <3> HIDE DEF word
    <3> QED  BY <2>4, <3>1, LeastFacts
  <2> QED  BY <1>2, <1>4, <2>5 DEF IsChunk
<1>6. IsChunk(left) /\ (exhausted <=> left.free = {}) /\ left.free = chunk.free \ {slot}
  <2> HIDE DEF chunk, slot
  <2>1. chunk.free \ {slot} \in SUBSET Nat /\ chunk.free \subseteq Slots
    BY <1>2, <1>4 DEF IsChunk
  <2> QED  BY <2>1, WordsFacts DEF IsChunk
<1> HIDE DEF grow, c, chunk, word, slot, left, exhausted, listed
<1>7. DOMAIN chunks' = DOMAIN chunks \cup {c} /\ chunks'[c] = left /\ \A x \in DOMAIN chunks : x # c => chunks'[x] = chunks[x]
  BY <1>1
<1>8. Slots' = Slots
  BY <1>1 DEF Slots
<1>9. \A x : IsChunk(x)' <=> IsChunk(x)
  BY <1>8 DEF IsChunk, Words
<1>10. ToSet(listed) \ {c} = ToSet(space) \ {c}
  <2>1. CASE grow
    <3>1. listed = <<c>> /\ space = <<>>
      BY <2>1 DEF listed, grow
    <3> QED  BY <3>1 DEF ToSet
  <2>2. CASE ~grow
    BY <2>2 DEF listed
  <2> QED  BY <2>1, <2>2
<1>11. ChunksSound'
  <2>1. \A x \in DOMAIN chunks' : IsChunk(chunks'[x])
    BY <1>2, <1>6, <1>7 DEF ChunksSound
  <2>2. CASE exhausted
    <3>1. space' = Tail(listed) /\ full' = Append(full, c)
      BY <1>1, <2>2
    <3>2. Tail(listed) \in Seq(Nat) /\ ToSet(Tail(listed)) = ToSet(listed) \ {c} /\ IsInjective(Tail(listed))
      BY <1>3, TailFacts
    <3>3. c \notin ToSet(full) /\ c \in ToSet(listed)
      BY <1>3, TailFacts
    <3>4. Append(full, c) \in Seq(Nat) /\ ToSet(Append(full, c)) = ToSet(full) \cup {c} /\ IsInjective(Append(full, c))
      BY <1>2, <1>3, <3>3, AppendFacts DEF ChunksSound
    <3>5. \A x \in ToSet(space') : chunks'[x].free # {}
      BY <1>2, <1>7, <1>10, <3>1, <3>2 DEF ChunksSound
    <3>6. "overtaken" \notin flaws' => \A x \in ToSet(full') : chunks'[x].free = {}
      BY <1>1, <1>2, <1>6, <1>7, <2>2, <3>1, <3>3, <3>4 DEF ChunksSound
    <3>7. ToSet(space') \cap ToSet(full') = {} /\ ToSet(space') \cup ToSet(full') = DOMAIN chunks'
      BY <1>3, <1>7, <3>1, <3>2, <3>3, <3>4
    <3>8. space' \in Seq(Nat) /\ IsInjective(space') /\ full' \in Seq(Nat) /\ IsInjective(full')
      BY <3>1, <3>2, <3>4
    <3> QED  BY <1>2, <1>3, <1>7, <1>9, <2>1, <3>5, <3>6, <3>7, <3>8 DEF ChunksSound
  <2>3. CASE ~exhausted
    <3>1. space' = listed /\ full' = full
      BY <1>1, <2>3
    <3>2. c \notin ToSet(full)
      BY <1>3, TailFacts
    <3>3. \A x \in ToSet(space') : chunks'[x].free # {}
      BY <1>2, <1>6, <1>7, <1>10, <2>3, <3>1 DEF ChunksSound
    <3>4. "overtaken" \notin flaws' => \A x \in ToSet(full') : chunks'[x].free = {}
      BY <1>1, <1>2, <1>7, <3>1, <3>2 DEF ChunksSound
    <3>5. full \in Seq(Nat) /\ IsInjective(full) /\ DOMAIN chunks' \subseteq 1 .. MaxChunks
      BY <1>2, <1>3, <1>7 DEF ChunksSound
    <3> QED  BY <1>3, <1>7, <1>9, <2>1, <3>1, <3>3, <3>4, <3>5 DEF ChunksSound
  <2> QED  BY <2>2, <2>3
<1>12. obj \notin InUse /\ obj \in Nat \X Nat
  <2>1. obj \in Nat \X Nat /\ obj[1] = c /\ obj[2] = slot
    BY <1>3, <1>5
  <2>2. CASE grow
    BY <1>3, <2>1, <2>2 DEF InUse
  <2>3. CASE ~grow
    <3>1. slot \in chunks[c].free
      BY <1>5, <2>3 DEF chunk
    <3> QED  BY <2>1, <3>1 DEF InUse
  <2> QED  BY <2>1, <2>2, <2>3
<1>13. InUse' = InUse \cup {obj}
  <2>1. InUse' = {o \in (DOMAIN chunks') \X Slots : o[2] \notin chunks'[o[1]].free}
    BY <1>8 DEF InUse
  <2>2. ASSUME NEW x \in DOMAIN chunks \cup {c}, NEW s \in Slots
        PROVE  s \notin chunks'[x].free <=> (<<x, s>> \in InUse \/ <<x, s>> = obj)
    <3>1. <<x, s>> \in InUse <=> x \in DOMAIN chunks /\ s \notin chunks[x].free
      BY DEF InUse
    <3>2. CASE x # c
      BY <1>7, <3>1, <3>2
    <3>3. CASE x = c
      <4>1. chunks'[x].free = chunk.free \ {slot}
        BY <1>6, <1>7, <3>3
      <4>2. CASE grow
        <5>1. chunk.free = Slots
          BY <4>2 DEF chunk, NewChunk
        <5>2. c \notin DOMAIN chunks
          BY <1>3, <4>2
        <5> QED  BY <1>5, <3>1, <3>3, <4>1, <5>1, <5>2
      <4>3. CASE ~grow
        <5>1. chunk.free = chunks[c].free /\ c \in DOMAIN chunks
          BY <1>3, <4>3 DEF chunk
        <5> QED  BY <3>1, <3>3, <4>1, <5>1
      <4> QED  BY <4>2, <4>3
    <3> QED  BY <3>2, <3>3
  <2>3. InUse \cup {obj} \subseteq (DOMAIN chunks') \X Slots
    BY <1>5, <1>7 DEF InUse
  <2>4. ASSUME NEW o \in (DOMAIN chunks') \X Slots
        PROVE  o \in InUse' <=> o \in InUse \cup {obj}
    <3>1. PICK x \in DOMAIN chunks \cup {c}, s \in Slots : o = <<x, s>>
      BY <1>7
    <3> QED  BY <2>1, <2>2, <3>1
  <2>5. InUse' \subseteq (DOMAIN chunks') \X Slots
    BY <2>1
  <2> HIDE DEF obj
  <2> QED  BY <2>3, <2>4, <2>5
<1>14. InUse' \subseteq (DOMAIN chunks') \X Slots /\ DOMAIN chunks' \subseteq 1 .. MaxChunks
  BY <1>2, <1>3, <1>7, <1>8 DEF InUse, ChunksSound
<1> QED  BY <1>1, <1>11, <1>12, <1>13, <1>14

\* What mrp_objpool_free does once its callback has returned.
LEMMA ReleaseFacts ==
    ASSUME PoolSized, ChunksSound, NEW obj \in InUse, NEW wasFull, Release(obj, wasFull), pool' = pool,
           flaws \subseteq flaws',
           "overtaken" \notin flaws' => (wasFull <=> chunks[obj[1]].cache = {})
    PROVE  ChunksSound' /\ InUse' = InUse \ {obj}
<1> DEFINE c == obj[1]
           s == obj[2]
           free == chunks[c].free \cup {s}
<1>1. /\ chunks' = [chunks EXCEPT ![c] = [free |-> @.free \cup {s}, cache |-> @.cache \cup {s \div MaskBits}]]
      /\ IF wasFull
         THEN full' = RemoveFirst(full, c) /\ space' = Append(RemoveFirst(space, c), c)
         ELSE UNCHANGED <<space, full>>
  BY DEF Release
<1>2. c \in DOMAIN chunks /\ s \in Slots /\ s \notin chunks[c].free /\ obj = <<c, s>>
  BY DEF InUse
<1> HIDE DEF c, s
<1>3. chunks[c] = [free |-> chunks[c].free, cache |-> Words(chunks[c].free)] /\ chunks[c].free \subseteq Slots
  BY <1>2 DEF ChunksSound, IsChunk
<1>4. /\ DOMAIN chunks' = DOMAIN chunks /\ \A x \in DOMAIN chunks : x # c => chunks'[x] = chunks[x]
      /\ chunks'[c] = [free |-> free, cache |-> chunks[c].cache \cup {s \div MaskBits}]
  BY <1>1, <1>2
<1>5. chunks'[c] = [free |-> free, cache |-> Words(free)]
  <2>1. chunks[c].cache = Words(chunks[c].free)
    BY <1>3
  <2>2. Words(free) = Words(chunks[c].free) \cup {s \div MaskBits}
    BY DEF Words
  <2> QED  BY <1>4, <2>1, <2>2
<1>6. chunks'[c].free = free /\ free # {} /\ free \subseteq Slots
  BY <1>2, <1>3, <1>5
<1>7. Slots' = Slots /\ \A x : IsChunk(x)' <=> IsChunk(x)
  BY DEF Slots, IsChunk, Words
<1>8. \A x \in DOMAIN chunks' : IsChunk(chunks'[x])
  <2>1. IsChunk(chunks'[c])
    <3> HIDE DEF free
    <3> QED  BY <1>5, <1>6 DEF IsChunk
  <2> QED  BY <1>4, <2>1 DEF ChunksSound
<1>9. c \in Nat
  BY <1>2, MemoryAssumption DEF ChunksSound
<1>10. chunks[c].cache = {} <=> chunks[c].free = {}
  <2>1. chunks[c].free \in SUBSET Nat
    BY <1>3, SlotsAreNumbers
  <2> QED  BY <1>3, <2>1, WordsFacts
<1>11. ChunksSound'
  <2>1. CASE wasFull
    <3>1. /\ full' \in Seq(Nat) /\ IsInjective(full') /\ ToSet(full') = ToSet(full) \ {c}
          /\ RemoveFirst(space, c) \in Seq(Nat) /\ IsInjective(RemoveFirst(space, c))
          /\ ToSet(RemoveFirst(space, c)) = ToSet(space) \ {c}
      BY <1>1, <2>1, RemoveFirstAny DEF ChunksSound
    <3>2. space' \in Seq(Nat) /\ IsInjective(space') /\ ToSet(space') = (ToSet(space) \ {c}) \cup {c}
      <4> DEFINE r == RemoveFirst(space, c)
      <4>1. r \in Seq(Nat) /\ IsInjective(r) /\ ToSet(r) = ToSet(space) \ {c} /\ c \notin ToSet(r)
        BY <3>1
      <4>2. space' = Append(r, c)
        BY <1>1, <2>1
      <4> HIDE DEF r
      <4> QED  BY <1>9, <4>1, <4>2, AppendFacts
    <3>3. \A x \in ToSet(space') : chunks'[x].free # {}
      BY <1>4, <1>6, <3>2 DEF ChunksSound
    <3>4. "overtaken" \notin flaws' => \A x \in ToSet(full') : chunks'[x].free = {}
      BY <1>4, <3>1 DEF ChunksSound
    <3>5. ToSet(space') \cap ToSet(full') = {} /\ ToSet(space') \cup ToSet(full') = DOMAIN chunks'
      <4>1. /\ ToSet(space) \cap ToSet(full) = {} /\ ToSet(space) \cup ToSet(full) = DOMAIN chunks
            /\ DOMAIN chunks' = DOMAIN chunks /\ c \in DOMAIN chunks
        BY <1>2, <1>4 DEF ChunksSound
      <4> QED  BY <3>1, <3>2, <4>1
    <3>6. DOMAIN chunks' \subseteq 1 .. MaxChunks
      BY <1>4 DEF ChunksSound
    <3> QED  BY <1>7, <1>8, <3>1, <3>2, <3>3, <3>4, <3>5, <3>6 DEF ChunksSound
  <2>2. CASE ~wasFull
    <3>1. space' = space /\ full' = full
      BY <1>1, <2>2
    <3>2. \A x \in ToSet(space) : chunks'[x].free # {}
      BY <1>4, <1>6 DEF ChunksSound
    <3>3. ASSUME "overtaken" \notin flaws'  PROVE \A x \in ToSet(full) : chunks'[x].free = {}
      <4>1. chunks[c].free # {}
        BY <1>10, <2>2, <3>3 DEF c
      <4>2. c \notin ToSet(full)
        BY <3>3, <4>1 DEF ChunksSound
      <4> QED  BY <1>4, <3>3, <4>2 DEF ChunksSound
    <3> QED  BY <1>4, <1>7, <1>8, <3>1, <3>2, <3>3 DEF ChunksSound
  <2> QED  BY <2>1, <2>2
<1>12. InUse' = InUse \ {obj}
  <2>1. InUse' = {o \in (DOMAIN chunks) \X Slots : o[2] \notin chunks'[o[1]].free}
    BY <1>4, <1>7 DEF InUse
  <2>2. ASSUME NEW x \in DOMAIN chunks, NEW t \in Slots
        PROVE  t \notin chunks'[x].free <=> (t \notin chunks[x].free /\ <<x, t>> # obj)
    BY <1>2, <1>4, <1>6
  <2>3. ASSUME NEW o \in (DOMAIN chunks) \X Slots
        PROVE  o \in InUse' <=> o \in InUse \ {obj}
    <3>1. PICK x \in DOMAIN chunks, t \in Slots : o = <<x, t>>
      OBVIOUS
    <3> QED  BY <2>1, <2>2, <3>1 DEF InUse
  <2>4. InUse' \subseteq (DOMAIN chunks) \X Slots /\ InUse \subseteq (DOMAIN chunks) \X Slots
    BY <2>1 DEF InUse
  <2> QED  BY <2>3, <2>4
<1> QED  BY <1>11, <1>12

\* pool_grow: the new chunks have no slot in use.
LEMMA GrowInv ==
    ASSUME PoolInv, NEW len, Grow(len)
    PROVE  ChunksSound' /\ InUse' = InUse
<1>0. PICK got \in 1 .. RoundUp(len, pool.nperchunk) : \E new \in [1 .. got -> Spare] :
         /\ Got(new)
         /\ space' = space \o new
         /\ chunks' = [c \in DOMAIN chunks \cup ToSet(new) |-> IF c \in DOMAIN chunks THEN chunks[c] ELSE NewChunk]
  BY DEF Grow
<1>1. PICK new \in [1 .. got -> Spare] :
         /\ Got(new)
         /\ space' = space \o new
         /\ chunks' = [c \in DOMAIN chunks \cup ToSet(new) |-> IF c \in DOMAIN chunks THEN chunks[c] ELSE NewChunk]
  BY <1>0
<1>2. UNCHANGED <<pool, full, nobj, nested, held, flaws>> /\ ChunksSound /\ PoolSized
  BY DEF Grow, PoolInv
<1>3. Spare \subseteq 1 .. MaxChunks /\ Spare \subseteq Nat /\ Spare \cap DOMAIN chunks = {} /\ got \in Nat
  BY MemoryAssumption DEF Spare
<1>4. new \in Seq(Nat) /\ Len(new) = got /\ DOMAIN new = 1 .. got
  <2>1. new \in [1 .. got -> Nat] /\ got \in Nat
    BY <1>3
  <2>2. new \in Seq(Nat)
    BY <2>1
  <2> QED  BY <2>1, <2>2, LenProperties
<1>5. \A i, j \in 1 .. got : new[i] = new[j] => i = j
  <2> SUFFICES ASSUME NEW i \in 1 .. got, NEW j \in 1 .. got, new[i] = new[j], i # j  PROVE FALSE
    OBVIOUS
  <2>1. i < j \/ j < i
    BY <1>3
  <2>2. new[i] \in Nat /\ new[j] \in Nat /\ (new[i] < new[j] \/ new[j] < new[i])
    BY <1>1, <1>3, <1>4, <2>1 DEF Got
  <2> QED  BY <2>2
<1>6. ToSet(new) \subseteq Spare
  BY <1>4 DEF ToSet
<1>7. /\ DOMAIN chunks' = DOMAIN chunks \cup ToSet(new)
      /\ \A c \in DOMAIN chunks : chunks'[c] = chunks[c]
      /\ \A c \in ToSet(new) : chunks'[c] = NewChunk
  BY <1>1, <1>3, <1>6
<1>8. Slots' = Slots /\ \A x : IsChunk(x)' <=> IsChunk(x)
  BY <1>2 DEF Slots, IsChunk, Words
<1>9. IsChunk(NewChunk) /\ NewChunk.free = Slots /\ Slots # {}
  <2>1. 0 \in Slots
    BY <1>2 DEF PoolSized, Slots
  <2> QED  BY <2>1 DEF NewChunk, IsChunk
<1>10. /\ space' \in Seq(Nat) /\ IsInjective(space') /\ ToSet(space') = ToSet(space) \cup ToSet(new)
  <2> DEFINE a == space
             m == Len(space)
             r == space \o new
  <2>1. space \in Seq(Nat) /\ m \in Nat /\ DOMAIN space = 1 .. m /\ IsInjective(space)
    BY <1>2, LenProperties DEF ChunksSound
  <2>2. /\ r \in Seq(Nat) /\ Len(r) = m + got
        /\ \A i \in 1 .. m + got : r[i] = IF i <= m THEN space[i] ELSE new[i - m]
    BY <1>4, <2>1, ConcatProperties
  <2>3. DOMAIN r = 1 .. m + got
    BY <2>2, LenProperties
  <2> HIDE DEF r, m
  <2>4. \A i \in DOMAIN r : (i \in 1 .. m /\ r[i] = space[i]) \/ (i - m \in 1 .. got /\ ~(i <= m) /\ r[i] = new[i - m])
    BY <1>3, <2>1, <2>2, <2>3
  <2>5. ToSet(space) \cap ToSet(new) = {}
    BY <1>2, <1>3, <1>6 DEF ChunksSound
  <2>6. ToSet(r) = ToSet(space) \cup ToSet(new)
    <3>1. ToSet(r) \subseteq ToSet(space) \cup ToSet(new)
      BY <1>4, <2>1, <2>4 DEF ToSet
    <3>2. ToSet(space) \subseteq ToSet(r)
      <4> SUFFICES ASSUME NEW i \in 1 .. m PROVE space[i] \in ToSet(r)
        BY <2>1 DEF ToSet
      <4>1. i \in 1 .. m + got /\ i <= m
        BY <1>3, <2>1
      <4> QED  BY <2>2, <2>3, <4>1 DEF ToSet
    <3>3. ToSet(new) \subseteq ToSet(r)
      <4> SUFFICES ASSUME NEW i \in 1 .. got PROVE new[i] \in ToSet(r)
        BY <1>4 DEF ToSet
      <4>1. m + i \in 1 .. m + got /\ ~(m + i <= m) /\ (m + i) - m = i
        BY <1>3, <2>1
      <4> QED  BY <2>2, <2>3, <4>1 DEF ToSet
    <3> QED  BY <3>1, <3>2, <3>3
  <2>7. IsInjective(r)
    <3> SUFFICES ASSUME NEW i \in DOMAIN r, NEW j \in DOMAIN r, r[i] = r[j]  PROVE i = j
      BY DEF IsInjective
    <3>1. CASE i \in 1 .. m /\ j \in 1 .. m
      BY <1>3, <2>1, <2>4, <3>1 DEF IsInjective
    <3>2. CASE ~(i <= m) /\ ~(j <= m)
      <4>1. i - m = j - m
        BY <1>5, <2>1, <2>4, <3>2
      <4> QED  BY <2>1, <2>3, <4>1
    <3>3. CASE i \in 1 .. m /\ ~(j <= m)
      <4>1. space[i] = new[j - m] /\ j - m \in 1 .. got
        BY <2>1, <2>4, <3>3
      <4> QED  BY <1>4, <2>1, <2>5, <3>3, <4>1 DEF ToSet
    <3>4. CASE ~(i <= m) /\ j \in 1 .. m
      <4>1. space[j] = new[i - m] /\ i - m \in 1 .. got
        BY <2>1, <2>4, <3>4
      <4> QED  BY <1>4, <2>1, <2>5, <3>4, <4>1 DEF ToSet
    <3> QED  BY <2>4, <3>1, <3>2, <3>3, <3>4
  <2> QED  BY <1>1, <2>2, <2>6, <2>7 DEF r
<1>11. ChunksSound'
  <2>1. \A x \in DOMAIN chunks' : IsChunk(chunks'[x])
    BY <1>2, <1>7, <1>9 DEF ChunksSound
  <2>2. \A x \in ToSet(space') : chunks'[x].free # {}
    BY <1>2, <1>7, <1>9, <1>10 DEF ChunksSound
  <2>3. "overtaken" \notin flaws' => \A x \in ToSet(full') : chunks'[x].free = {}
    BY <1>2, <1>7 DEF ChunksSound
  <2>4. ToSet(space') \cap ToSet(full') = {} /\ ToSet(space') \cup ToSet(full') = DOMAIN chunks'
    BY <1>2, <1>3, <1>6, <1>7, <1>10 DEF ChunksSound
  <2>5. DOMAIN chunks' \subseteq 1 .. MaxChunks /\ full' \in Seq(Nat) /\ IsInjective(full')
    BY <1>2, <1>3, <1>6, <1>7 DEF ChunksSound
  <2> QED  BY <1>8, <1>10, <2>1, <2>2, <2>3, <2>4, <2>5 DEF ChunksSound
<1>12. InUse' = InUse
  <2>1. InUse' = {o \in (DOMAIN chunks') \X Slots : o[2] \notin chunks'[o[1]].free}
    BY <1>8 DEF InUse
  <2>2. ASSUME NEW x \in DOMAIN chunks', NEW t \in Slots
        PROVE  t \notin chunks'[x].free <=> x \in DOMAIN chunks /\ t \notin chunks[x].free
    BY <1>3, <1>6, <1>7, <1>9
  <2>3. ASSUME NEW o \in (DOMAIN chunks') \X Slots
        PROVE  o \in InUse' <=> o \in InUse
    <3>1. PICK x \in DOMAIN chunks', t \in Slots : o = <<x, t>>
      OBVIOUS
    <3> QED  BY <2>1, <2>2, <3>1 DEF InUse
  <2>4. InUse' \subseteq (DOMAIN chunks') \X Slots /\ InUse \subseteq (DOMAIN chunks') \X Slots
    BY <1>7, <2>1 DEF InUse
  <2> QED  BY <2>3, <2>4
<1> QED  BY <1>11, <1>12

\* What pool_shrink has kept and freed after k chunks.
IsShrunk(k, r) ==
    /\ r \in [left : Seq(Nat), gone : SUBSET Nat]
    /\ IsInjective(r.left) /\ ToSet(r.left) \cap r.gone = {}
    /\ ToSet(r.left) \cup r.gone = {space[j] : j \in 1 .. k}
    /\ \A c \in r.gone : chunks[c].free = Slots

LEMMA ShrinkStep ==
    ASSUME ChunksSound, NEW want, NEW k \in Nat, k + 1 \in 1 .. Len(space), NEW r, IsShrunk(k, r)
    PROVE  IsShrunk(k + 1, Visited(r, k + 1, want))
<1> DEFINE c == space[k + 1]
           a == [left |-> r.left, gone |-> r.gone \cup {c}]
           b == [left |-> Append(r.left, c), gone |-> r.gone]
<1>1. space \in Seq(Nat) /\ Len(space) \in Nat /\ DOMAIN space = 1 .. Len(space) /\ IsInjective(space) /\ c \in Nat
  BY LenProperties, ElementOfSeq DEF ChunksSound
<1>2. r.left \in Seq(Nat) /\ r.gone \in SUBSET Nat
  BY DEF IsShrunk
<1>3. {space[j] : j \in 1 .. k + 1} = {space[j] : j \in 1 .. k} \cup {c}
  <2>1. \A j : j \in 1 .. k + 1 <=> j \in 1 .. k \/ j = k + 1
    OBVIOUS
  <2> QED  BY <2>1
<1>4. c \notin ToSet(r.left) /\ c \notin r.gone
  <2>1. \A j \in 1 .. k : j \in 1 .. Len(space) /\ j # k + 1
    BY <1>1
  <2>2. c \notin {space[j] : j \in 1 .. k}
    BY <1>1, <2>1 DEF IsInjective
  <2> QED  BY <2>2 DEF IsShrunk
<1>5. CASE Visited(r, k + 1, want) = a /\ ChunkEmpty(c)
  <2>1. a \in [left : Seq(Nat), gone : SUBSET Nat] /\ a.left = r.left /\ a.gone = r.gone \cup {c}
    BY <1>1, <1>2
  <2>2. chunks[c].free = Slots
    BY <1>5 DEF ChunkEmpty
  <2> HIDE DEF a, c
  <2>3. IsShrunk(k + 1, a)
    BY <1>3, <1>4, <2>1, <2>2 DEF IsShrunk
  <2> QED  BY <1>5, <2>3
<1>6. CASE Visited(r, k + 1, want) = b
  <2>1. /\ Append(r.left, c) \in Seq(Nat) /\ IsInjective(Append(r.left, c))
        /\ ToSet(Append(r.left, c)) = ToSet(r.left) \cup {c}
    BY <1>1, <1>2, <1>4, AppendFacts DEF IsShrunk
  <2>2. b \in [left : Seq(Nat), gone : SUBSET Nat] /\ b.left = Append(r.left, c) /\ b.gone = r.gone
    BY <1>2, <2>1
  <2> HIDE DEF b, c
  <2>3. IsShrunk(k + 1, b)
    BY <1>3, <1>4, <2>1, <2>2 DEF IsShrunk
  <2> QED  BY <1>6, <2>3
<1> QED  BY <1>5, <1>6 DEF Visited

LEMMA ShrunkFacts ==
    ASSUME ChunksSound, NEW want
    PROVE  IsShrunk(Len(space), Shrunk(want))
<1> DEFINE len == Len(space)
           V == [left : Seq(Nat), gone : SUBSET Nat]
           v == [left |-> <<>>, gone |-> {}]
           step == [r \in (1 .. len) \X V |-> Visited(r[2], r[1], want)]
           B(f) == [i \in 0 .. len |-> IF i = 0 THEN v ELSE Visited(f[i - 1], i, want)]
<1>1. len \in Nat /\ v \in V
  BY LenProperties DEF ChunksSound
<1>2. ASSUME NEW k \in 1 .. len, NEW r \in V  PROVE Visited(r, k, want) \in V
  <2>1. space[k] \in Nat /\ r.left \in Seq(Nat) /\ r.gone \in SUBSET Nat
    BY <1>1, ElementOfSeq DEF ChunksSound
  <2>2. Append(r.left, space[k]) \in Seq(Nat) /\ r.gone \cup {space[k]} \in SUBSET Nat
    BY <2>1
  <2> QED  BY <2>1, <2>2 DEF Visited
<1>3. step \in [(1 .. len) \X V -> V]
  BY <1>2
<1> HIDE DEF V
<1>4. PICK f \in [0 .. len -> V] : f[0] = v /\ \A k \in 1 .. len : f[k] = step[<<k, f[k - 1]>>]
  <2>1. IsStep(len, V, v, step)
    BY <1>1, <1>3 DEF IsStep
  <2> HIDE DEF step, v, len
  <2> QED  BY <2>1, StepsExist
<1>5. f = B(f)
  <2>1. ASSUME NEW k \in 0 .. len, k # 0  PROVE step[<<k, f[k - 1]>>] = Visited(f[k - 1], k, want)
    <3>1. k \in 1 .. len /\ k - 1 \in 0 .. len
      BY <1>1, <2>1
    <3>2. f[k - 1] \in V
      BY <3>1
    <3>3. <<k, f[k - 1]>> \in (1 .. len) \X V
      BY <3>1, <3>2
    <3> QED  BY <3>3
  <2>2. \A k \in 0 .. len : k # 0 => k \in 1 .. len
    BY <1>1
  <2>3. \A k \in 0 .. len : f[k] = IF k = 0 THEN v ELSE Visited(f[k - 1], k, want)
    BY <1>4, <2>1, <2>2
  <2>4. f = [k \in 0 .. len |-> f[k]]
    OBVIOUS
  <2> HIDE DEF v, len
  <2> QED  BY <2>3, <2>4
<1> DEFINE h == CHOOSE h : h = B(h)
<1>6. h = B(h)
  BY <1>5
<1>7. Shrunk(want) = h[len]
  BY Zenon DEF Shrunk
<1> HIDE DEF h
<1> DEFINE S == {k \in 0 .. len : IsShrunk(k, h[k])}
<1>8. 0 \in S
  <2>1. h[0] = v /\ v \in V /\ v.left = <<>> /\ v.gone = {}
    BY <1>1, <1>6
  <2>2. IsInjective(<<>>) /\ ToSet(<<>>) = {}
    BY DEF IsInjective, ToSet
  <2>3. {space[j] : j \in 1 .. 0} = {}
    OBVIOUS
  <2> HIDE DEF v
  <2> QED  BY <1>1, <2>1, <2>2, <2>3 DEF IsShrunk, V
<1>9. ASSUME NEW k \in 0 .. len - 1, k \in S  PROVE k + 1 \in S
  <2>1. k + 1 \in 0 .. len /\ k + 1 # 0 /\ (k + 1) - 1 = k /\ k + 1 \in 1 .. Len(space) /\ k \in Nat
    BY <1>1
  <2>2. h[k + 1] = Visited(h[k], k + 1, want)
    BY <1>6, <2>1
  <2>3. IsShrunk(k + 1, Visited(h[k], k + 1, want))
    BY <1>9, <2>1, ShrinkStep
  <2> QED  BY <2>1, <2>2, <2>3
<1>10. len \in S
  <2>1. \A k \in 0 .. len - 1 : k \in S => k + 1 \in S
    BY <1>9
  <2>2. len \in 0 .. len
    BY <1>1
  <2> HIDE DEF S, len
  <2>3. 0 .. len \subseteq S
    BY <1>1, <1>8, <2>1, CountingUp
  <2> QED  BY <2>2, <2>3
<1> QED  BY <1>7, <1>10

\* pool_shrink: a chunk that goes has no slot in use.
LEMMA ShrinkInv ==
    ASSUME PoolInv, NEW len, Shrink(len)
    PROVE  ChunksSound' /\ InUse' = InUse
<1> DEFINE r == Shrunk(RoundUp(len, pool.nperchunk))
<1>1. space' = r.left /\ chunks' = [c \in DOMAIN chunks \ r.gone |-> chunks[c]]
  BY DEF Shrink
<1>2. UNCHANGED <<pool, full, nobj, nested, held, flaws>> /\ ChunksSound /\ PoolSized
  BY DEF Shrink, PoolInv
<1>3. IsShrunk(Len(space), r)
  BY <1>2, ShrunkFacts
<1> HIDE DEF r
<1>4. /\ r.left \in Seq(Nat) /\ IsInjective(r.left) /\ ToSet(r.left) = ToSet(space) \ r.gone
      /\ r.gone \subseteq ToSet(space) /\ \A c \in r.gone : chunks[c].free = Slots
  <2>1. DOMAIN space = 1 .. Len(space)
    BY <1>2, LenProperties DEF ChunksSound
  <2>2. {space[j] : j \in 1 .. Len(space)} = ToSet(space)
    BY <2>1 DEF ToSet
  <2> QED  BY <1>3, <2>2 DEF IsShrunk
<1>5. DOMAIN chunks' = DOMAIN chunks \ r.gone /\ \A c \in DOMAIN chunks' : chunks'[c] = chunks[c]
  BY <1>1
<1>6. Slots' = Slots /\ \A x : IsChunk(x)' <=> IsChunk(x)
  BY <1>2 DEF Slots, IsChunk, Words
<1>7. ChunksSound'
  <2>1. \A x \in DOMAIN chunks' : IsChunk(chunks'[x])
    BY <1>2, <1>5 DEF ChunksSound
  <2>2. ToSet(space) \cap ToSet(full) = {} /\ ToSet(space) \cup ToSet(full) = DOMAIN chunks
    BY <1>2 DEF ChunksSound
  <2>3. ToSet(space') \cap ToSet(full') = {} /\ ToSet(space') \cup ToSet(full') = DOMAIN chunks'
    BY <1>1, <1>2, <1>4, <1>5, <2>2
  <2>4. ToSet(space') \subseteq ToSet(space) /\ ToSet(full') = ToSet(full)
        /\ ToSet(space') \subseteq DOMAIN chunks' /\ ToSet(full') \subseteq DOMAIN chunks'
    BY <1>1, <1>2, <1>4, <2>3
  <2>5. \A x \in ToSet(space') : chunks'[x].free # {}
    BY <1>2, <1>5, <2>4 DEF ChunksSound
  <2>6. "overtaken" \notin flaws' => \A x \in ToSet(full') : chunks'[x].free = {}
    BY <1>2, <1>5, <2>4 DEF ChunksSound
  <2>7. DOMAIN chunks' \subseteq 1 .. MaxChunks /\ full' \in Seq(Nat) /\ IsInjective(full')
    BY <1>2, <1>5 DEF ChunksSound
  <2>8. space' \in Seq(Nat) /\ IsInjective(space')
    BY <1>1, <1>4
  <2> QED  BY <1>6, <2>1, <2>3, <2>5, <2>6, <2>7, <2>8 DEF ChunksSound
<1>8. InUse' = InUse
  <2>1. InUse' = {o \in (DOMAIN chunks') \X Slots : o[2] \notin chunks'[o[1]].free}
    BY <1>6 DEF InUse
  <2>2. ASSUME NEW x \in DOMAIN chunks, NEW t \in Slots
        PROVE  (x \in DOMAIN chunks' /\ t \notin chunks'[x].free) <=> t \notin chunks[x].free
    BY <1>4, <1>5
  <2>3. ASSUME NEW o \in (DOMAIN chunks) \X Slots
        PROVE  o \in InUse' <=> o \in InUse
    <3>1. PICK x \in DOMAIN chunks, t \in Slots : o = <<x, t>>
      OBVIOUS
    <3> QED  BY <2>1, <2>2, <3>1 DEF InUse
  <2>4. InUse' \subseteq (DOMAIN chunks) \X Slots /\ InUse \subseteq (DOMAIN chunks) \X Slots
    BY <1>5, <2>1 DEF InUse
  <2> QED  BY <2>3, <2>4
<1> QED  BY <1>7, <1>8

\* How many callbacks clean up.
LEMMA CleanupCounts ==
    ASSUME NEW q, Stack(q)
    PROVE  /\ Cardinality(Marked(q, Cleanups)) \in Nat /\ Len(q) \in Nat
           /\ Cardinality(Marked(q, Cleanups)) <= Len(q)
           /\ (~\E i \in DOMAIN q : q[i].kind = "setup") => Cardinality(Marked(q, Cleanups)) = Len(q)
<1>1. Len(q) \in Nat /\ DOMAIN q = 1 .. Len(q) /\ \A i \in DOMAIN q : q[i] \in Frames
  BY LenProperties, ElementOfSeq DEF Stack
<1>2. IsFiniteSet(1 .. Len(q)) /\ Cardinality(1 .. Len(q)) = Len(q)
  <2>1. /\ IsFiniteSet(1 .. Len(q))
        /\ Cardinality(1 .. Len(q)) = IF 1 > Len(q) THEN 0 ELSE Len(q) - 1 + 1
    BY <1>1, FS_Interval
  <2>2. (IF 1 > Len(q) THEN 0 ELSE Len(q) - 1 + 1) = Len(q)
    BY <1>1
  <2> QED  BY <2>1, <2>2
<1>3. Marked(q, Cleanups) \subseteq 1 .. Len(q)
  BY <1>1 DEF Marked
<1>4. (~\E i \in DOMAIN q : q[i].kind = "setup") => Marked(q, Cleanups) = 1 .. Len(q)
  BY <1>1 DEF Marked, Cleanups, Frames
<1>5. /\ IsFiniteSet(Marked(q, Cleanups)) /\ Cardinality(Marked(q, Cleanups)) \in Nat
      /\ Cardinality(Marked(q, Cleanups)) <= Cardinality(1 .. Len(q))
  BY <1>2, <1>3, FS_Subset, FS_CardinalityType
<1> QED  BY <1>1, <1>2, <1>4, <1>5

\* There are never so many objects that the counter wraps.
LEMMA CountFacts ==
    ASSUME PoolInv
    PROVE  /\ IsFiniteSet(InUse) /\ IsFiniteSet(held) /\ Cardinality(held) \in Nat
           /\ Cardinality(InUse) = Cardinality(held) + Len(nested) /\ Len(nested) \in Nat
           /\ Cardinality(InUse) \in Nat /\ Cardinality(InUse) < Wrap /\ Wrap \in Nat
           /\ InUse \subseteq Nat \X Nat /\ pool.limit \in Nat
<1>1. PoolSized /\ ChunksSound /\ UseSound /\ Slots \subseteq Nat
  BY SlotsAreNumbers DEF PoolInv
<1>2. InUse \subseteq (DOMAIN chunks) \X Slots /\ DOMAIN chunks \subseteq 1 .. MaxChunks
  BY <1>1 DEF InUse, ChunksSound
<1>3. Cardinality(InUse) \in Nat /\ Cardinality(InUse) < Wrap
  BY <1>1, <1>2, RoomFacts
<1>4. InUse \subseteq Nat \X Nat
  <2>1. DOMAIN chunks \subseteq Nat
    BY <1>2, MemoryAssumption
  <2>2. \A A, B \in SUBSET Nat : A \X B \subseteq Nat \X Nat
    OBVIOUS
  <2> QED  BY <1>1, <1>2, <2>1, <2>2
<1> QED  BY <1>1, <1>3, <1>4, InUseFacts, MemoryAssumption DEF PoolSized

LEMMA AllocInv == ASSUME PoolInv, Alloc PROVE PoolInv'
<1>1. PICK obj \in Nat \X Nat :
         /\ obj \notin InUse /\ InUse' = InUse \cup {obj}
         /\ IF pool.setup
            THEN /\ nested' = Append(nested, [kind |-> "setup", obj |-> obj, full |-> FALSE])
                 /\ UNCHANGED <<nobj, held>>
            ELSE nobj' = (nobj + 1) % Wrap /\ held' = held \cup {obj} /\ UNCHANGED nested
  BY AllocFacts
<1>2. ChunksSound' /\ DOMAIN chunks' \subseteq 1 .. MaxChunks /\ InUse' \subseteq (DOMAIN chunks') \X Slots
  BY AllocFacts
<1>3. /\ pool' = pool /\ PoolSized /\ UseSound /\ CountSound /\ (pool.limit = 0 \/ nobj < pool.limit)
      /\ flaws' = IF \E i \in DOMAIN nested : nested[i].kind = "setup" THEN flaws \cup {"inner"} ELSE flaws
  BY DEF Alloc, PoolInv
<1>4. /\ IsFiniteSet(InUse) /\ IsFiniteSet(held) /\ Cardinality(held) \in Nat
      /\ Cardinality(InUse) = Cardinality(held) + Len(nested) /\ Len(nested) \in Nat
      /\ Cardinality(InUse) \in Nat /\ Cardinality(InUse) < Wrap /\ Wrap \in Nat /\ pool.limit \in Nat
  BY CountFacts
<1>5. Cardinality(InUse') = Cardinality(InUse) + 1
  BY <1>1, <1>4, FS_AddElement
<1>6. Cardinality(InUse') < Wrap
  BY <1>2, <1>3, RoomFacts
<1>7. obj \notin held /\ obj \notin ObjsOf(nested)
  BY <1>1, <1>3 DEF UseSound
<1>8. /\ Cardinality(Marked(nested, Cleanups)) \in Nat /\ Cardinality(Marked(nested, Cleanups)) <= Len(nested)
      /\ (~\E i \in DOMAIN nested : nested[i].kind = "setup") => Cardinality(Marked(nested, Cleanups)) = Len(nested)
  BY <1>3, CleanupCounts DEF UseSound
<1>9. PoolSized'
  BY <1>3 DEF PoolSized
<1>10. nobj \in Nat
  BY <1>3 DEF CountSound
<1>11. \/ "refused" \in flaws' \/ "inner" \in flaws' \/ pool.limit = 0
       \/ Cardinality(InUse') <= pool.limit
  <2> SUFFICES ASSUME "refused" \notin flaws', "inner" \notin flaws', pool.limit # 0
               PROVE  Cardinality(InUse') <= pool.limit
    OBVIOUS
  <2>1. "refused" \notin flaws /\ ~\E i \in DOMAIN nested : nested[i].kind = "setup"
    BY <1>3
  <2>2. nobj = Cardinality(held) + Cardinality(Marked(nested, Cleanups))
    BY <1>3, <2>1 DEF CountSound
  <2>3. Cardinality(Marked(nested, Cleanups)) = Len(nested) /\ nobj < pool.limit
    BY <1>3, <1>8, <2>1
  <2> QED  BY <1>4, <1>5, <1>10, <2>2, <2>3
<1>12. "refused" \notin flaws' => "refused" \notin flaws
  BY <1>3
<1>13. CASE pool.setup
  <2> DEFINE e == [kind |-> "setup", obj |-> obj, full |-> FALSE]
  <2>1. e \in Frames /\ e.obj = obj /\ e.kind = "setup"
    BY DEF Frames
  <2>2. nested' = Append(nested, e) /\ nobj' = nobj /\ held' = held
    BY <1>1, <1>13
  <2> HIDE DEF e
  <2>3. Stack(nested') /\ ObjsOf(nested') = ObjsOf(nested) \cup {obj}
        /\ Cardinality(Marked(nested', Cleanups)) = Cardinality(Marked(nested, Cleanups)) + 0
    <3>1. Stack(nested) /\ e.obj \notin ObjsOf(nested)
      BY <1>3, <1>7, <2>1 DEF UseSound
    <3> QED  BY <2>1, <2>2, <3>1, PushFacts
  <2>4. UseSound'
    BY <1>1, <1>3, <1>7, <2>2, <2>3 DEF UseSound
  <2>5. Cardinality(Marked(nested', Cleanups)) = Cardinality(Marked(nested, Cleanups))
    BY <1>8, <2>3
  <2>6. CountSound'
    BY <1>3, <1>11, <1>12, <2>2, <2>5 DEF CountSound
  <2> QED  BY <1>2, <1>9, <2>4, <2>6 DEF PoolInv
<1>14. CASE ~pool.setup
  <2>1. nobj' = (nobj + 1) % Wrap /\ held' = held \cup {obj} /\ nested' = nested
    BY <1>1, <1>14
  <2>2. UseSound'
    BY <1>1, <1>3, <1>7, <2>1 DEF UseSound
  <2>3. Cardinality(held') = Cardinality(held) + 1
    BY <1>4, <1>7, <2>1, FS_AddElement
  <2>4. nobj' \in Nat
    BY <1>4, <1>10, <2>1, CounterFacts
  <2>5. ASSUME "refused" \notin flaws'
        PROVE  nobj' = Cardinality(held') + Cardinality(Marked(nested', Cleanups))
    <3>1. nobj = Cardinality(held) + Cardinality(Marked(nested, Cleanups))
      BY <1>3, <1>12, <2>5 DEF CountSound
    <3>2. nobj + 1 < Wrap
      BY <1>4, <1>5, <1>6, <1>8, <1>10, <3>1
    <3>3. nobj' = nobj + 1
      BY <1>4, <1>10, <2>1, <3>2, CounterFacts
    <3> QED  BY <1>4, <1>8, <2>1, <2>3, <3>1, <3>3
  <2>6. CountSound'
    BY <1>3, <1>11, <2>4, <2>5 DEF CountSound
  <2> QED  BY <1>2, <1>9, <2>2, <2>6 DEF PoolInv
<1> QED  BY <1>13, <1>14

\* mrp_objpool_free either calls back or goes on at once.
LEMMA CleanupFacts ==
    ASSUME PoolSized, ChunksSound, NEW stack, Stack(stack), NEW obj \in InUse, obj \notin ObjsOf(stack),
           Cleanup(stack, obj), pool' = pool, flaws \subseteq flaws'
    PROVE  /\ ChunksSound' /\ Stack(nested')
           /\ \/ /\ ObjsOf(nested') = ObjsOf(stack) \cup {obj} /\ InUse' = InUse /\ nobj' = nobj
                 /\ Cardinality(Marked(nested', Cleanups)) = Cardinality(Marked(stack, Cleanups)) + 1
              \/ /\ nested' = stack /\ InUse' = InUse \ {obj}
                 /\ nobj' = IF nobj = 0 THEN Wrap - 1 ELSE nobj - 1
<1>1. CASE pool.cleanup
  <2> DEFINE e == [kind |-> "cleanup", obj |-> obj, full |-> chunks[obj[1]].cache = {}]
  <2>1. nested' = Append(stack, e) /\ UNCHANGED <<chunks, space, full, nobj>>
    BY <1>1 DEF Cleanup
  <2>2. obj \in Nat \X Nat
    BY SlotsAreNumbers, MemoryAssumption DEF InUse, ChunksSound
  <2>3. e \in Frames /\ e.obj = obj /\ e.kind = "cleanup"
    BY <2>2 DEF Frames
  <2> HIDE DEF e
  <2>4. Stack(nested') /\ ObjsOf(nested') = ObjsOf(stack) \cup {obj}
        /\ Cardinality(Marked(nested', Cleanups)) = Cardinality(Marked(stack, Cleanups)) + 1
    <3>1. e.obj \notin ObjsOf(stack)
      BY <2>3
    <3> QED  BY <2>1, <2>3, <3>1, PushFacts
  <2>5. InUse' = InUse
    BY <2>1 DEF InUse, Slots
  <2>6. ChunksSound'
    BY <2>1 DEF ChunksSound, IsChunk, Words, Slots
  <2> QED  BY <2>1, <2>4, <2>5, <2>6
<1>2. CASE ~pool.cleanup
  <2> DEFINE wasFull == chunks[obj[1]].cache = {}
  <2>1. nested' = stack /\ Release(obj, wasFull)
    BY <1>2 DEF Cleanup
  <2>2. nobj' = IF nobj = 0 THEN Wrap - 1 ELSE nobj - 1
    BY <2>1 DEF Release
  <2>3. ChunksSound' /\ InUse' = InUse \ {obj}
    <3>1. wasFull <=> chunks[obj[1]].cache = {}
      OBVIOUS
    <3> HIDE DEF wasFull
    <3> QED  BY <2>1, <3>1, ReleaseFacts
  <2> QED  BY <2>1, <2>2, <2>3
<1> QED  BY <1>1, <1>2

LEMMA FreeInv == ASSUME PoolInv, NEW obj \in held, Free(obj) PROVE PoolInv'
<1>1. held' = held \ {obj} /\ Cleanup(nested, obj) /\ pool' = pool /\ flaws' = flaws
  BY DEF Free
<1>2. PoolSized /\ ChunksSound /\ UseSound /\ CountSound
  BY DEF PoolInv
<1>3. obj \in InUse /\ obj \notin ObjsOf(nested) /\ Stack(nested)
  BY <1>2 DEF UseSound
<1>4. /\ ChunksSound' /\ Stack(nested')
      /\ \/ /\ ObjsOf(nested') = ObjsOf(nested) \cup {obj} /\ InUse' = InUse /\ nobj' = nobj
            /\ Cardinality(Marked(nested', Cleanups)) = Cardinality(Marked(nested, Cleanups)) + 1
         \/ /\ nested' = nested /\ InUse' = InUse \ {obj}
            /\ nobj' = IF nobj = 0 THEN Wrap - 1 ELSE nobj - 1
  <2>1. flaws \subseteq flaws'
    BY <1>1
  <2> QED  BY <1>1, <1>2, <1>3, <2>1, CleanupFacts
<1>5. PoolSized'
  BY <1>1, <1>2 DEF PoolSized
<1>6. UseSound'
  BY <1>1, <1>2, <1>4 DEF UseSound
<1>7. /\ IsFiniteSet(InUse) /\ IsFiniteSet(held) /\ Cardinality(held) \in Nat /\ Cardinality(InUse) \in Nat
      /\ Cardinality(InUse) < Wrap /\ Wrap \in Nat /\ pool.limit \in Nat
  BY CountFacts DEF PoolInv
<1>8. Cardinality(held') = Cardinality(held) - 1 /\ Cardinality(held') \in Nat
  <2>1. IsFiniteSet(held') /\ Cardinality(held') = Cardinality(held) - 1
    BY <1>1, <1>7, FS_RemoveElement
  <2> QED  BY <2>1, FS_CardinalityType
<1>9. Cardinality(Marked(nested, Cleanups)) \in Nat /\ nobj \in Nat
  BY <1>2, <1>3, CleanupCounts DEF CountSound
<1>10. Cardinality(InUse') <= Cardinality(InUse) /\ Cardinality(InUse') \in Nat
  <2>1. InUse' \subseteq InUse
    BY <1>4
  <2> QED  BY <1>7, <2>1, FS_Subset, FS_CardinalityType
<1>11. nobj' \in Nat
  BY <1>4, <1>7, <1>9
<1>12. ASSUME "refused" \notin flaws
       PROVE  nobj' = Cardinality(held') + Cardinality(Marked(nested', Cleanups))
  <2>1. nobj = Cardinality(held) + Cardinality(Marked(nested, Cleanups))
    BY <1>2, <1>12 DEF CountSound
  <2>2. CASE nobj' = nobj /\ Cardinality(Marked(nested', Cleanups)) = Cardinality(Marked(nested, Cleanups)) + 1
    BY <1>7, <1>8, <1>9, <2>1, <2>2
  <2>3. CASE nested' = nested /\ nobj' = IF nobj = 0 THEN Wrap - 1 ELSE nobj - 1
    <3>1. nobj # 0
      BY <1>7, <1>8, <1>9, <2>1
    <3> QED  BY <1>7, <1>8, <1>9, <2>1, <2>3, <3>1
  <2> QED  BY <1>4, <2>2, <2>3
<1>13. CountSound'
  <2>1. ASSUME "refused" \notin flaws, "inner" \notin flaws, pool.limit # 0
        PROVE  Cardinality(InUse') <= pool.limit
    <3>1. Cardinality(InUse) <= pool.limit
      BY <1>2, <2>1 DEF CountSound
    <3> QED  BY <1>7, <1>10, <3>1
  <2> QED  BY <1>1, <1>11, <1>12, <2>1 DEF CountSound
<1> QED  BY <1>4, <1>5, <1>6, <1>13 DEF PoolInv

\* What a call goes on with when its callback returns.
LEMMA TopFacts ==
    ASSUME PoolInv, nested # <<>>
    PROVE  /\ Top \in Frames /\ Stack(Front(nested)) /\ Top.obj \in InUse /\ Top.obj \notin held
           /\ Top.obj \notin ObjsOf(Front(nested))
           /\ ObjsOf(Front(nested)) = ObjsOf(nested) \ {Top.obj}
           /\ Cardinality(Marked(Front(nested), Cleanups)) \in Nat
           /\ Cardinality(Marked(Front(nested), Cleanups)) <= Len(nested) - 1
           /\ Cardinality(Marked(nested, Cleanups))
                  = Cardinality(Marked(Front(nested), Cleanups)) + (IF Top.kind = "cleanup" THEN 1 ELSE 0)
<1>1. UseSound
  BY DEF PoolInv
<1>2. /\ Top \in Frames /\ Stack(Front(nested)) /\ Top.obj \in ObjsOf(nested)
      /\ ObjsOf(Front(nested)) = ObjsOf(nested) \ {Top.obj}
      /\ Cardinality(Marked(Front(nested), Cleanups))
             = Cardinality(Marked(nested, Cleanups)) - (IF Top.kind = "cleanup" THEN 1 ELSE 0)
  BY <1>1, PopFacts DEF UseSound, Top
<1>3. /\ Cardinality(Marked(Front(nested), Cleanups)) \in Nat
      /\ Cardinality(Marked(Front(nested), Cleanups)) <= Len(Front(nested)) /\ Len(Front(nested)) \in Nat
  BY <1>2, CleanupCounts
<1>4. Cardinality(Marked(nested, Cleanups)) \in Nat /\ Len(nested) \in Nat
  BY <1>1, CleanupCounts DEF UseSound
<1>5. Len(Front(nested)) = Len(nested) - 1
  <2>1. Cardinality(ObjsOf(Front(nested))) = Len(Front(nested))
    BY <1>2, StackCounts
  <2>2. IsFiniteSet(ObjsOf(nested)) /\ Cardinality(ObjsOf(nested)) = Len(nested)
    BY <1>1, StackCounts DEF UseSound
  <2>3. Cardinality(ObjsOf(Front(nested))) = Cardinality(ObjsOf(nested)) - 1
    BY <1>2, <2>2, FS_RemoveElement
  <2> QED  BY <2>1, <2>2, <2>3
<1> QED  BY <1>1, <1>2, <1>3, <1>4, <1>5 DEF UseSound

LEMMA CleanupReturnsInv == ASSUME PoolInv, CleanupReturns PROVE PoolInv'
<1> DEFINE obj == Top.obj
<1>1. /\ nested # <<>> /\ Top.kind = "cleanup" /\ nested' = Front(nested) /\ Release(obj, Top.full)
      /\ flaws' = IF Top.full # (chunks[obj[1]].cache = {}) THEN flaws \cup {"overtaken"} ELSE flaws
      /\ pool' = pool /\ held' = held
  BY DEF CleanupReturns, Running
<1>2. PoolSized /\ ChunksSound /\ UseSound /\ CountSound
  BY DEF PoolInv
<1>3. /\ Top \in Frames /\ Stack(Front(nested)) /\ obj \in InUse /\ obj \notin held
      /\ ObjsOf(Front(nested)) = ObjsOf(nested) \ {obj}
      /\ Cardinality(Marked(Front(nested), Cleanups)) \in Nat
      /\ Cardinality(Marked(nested, Cleanups)) = Cardinality(Marked(Front(nested), Cleanups)) + 1
  BY <1>1, TopFacts
<1>4. nobj' = IF nobj = 0 THEN Wrap - 1 ELSE nobj - 1
  BY <1>1 DEF Release
<1> HIDE DEF obj
<1>5. ChunksSound' /\ InUse' = InUse \ {obj}
  <2>1. flaws \subseteq flaws' /\ ("overtaken" \notin flaws' => (Top.full <=> chunks[obj[1]].cache = {}))
    <3>1. Top.full \in BOOLEAN
      BY <1>3 DEF Frames
    <3> QED  BY <1>1, <3>1
  <2> DEFINE wasFull == Top.full
  <2>2. Release(obj, wasFull) /\ ("overtaken" \notin flaws' => (wasFull <=> chunks[obj[1]].cache = {}))
    BY <1>1, <2>1
  <2> HIDE DEF wasFull
  <2> QED  BY <1>1, <1>2, <1>3, <2>1, <2>2, ReleaseFacts
<1>6. PoolSized'
  BY <1>1, <1>2 DEF PoolSized
<1>7. UseSound'
  BY <1>1, <1>2, <1>3, <1>5 DEF UseSound
<1>8. /\ IsFiniteSet(InUse) /\ Cardinality(held) \in Nat /\ Cardinality(InUse) \in Nat
      /\ Cardinality(InUse) < Wrap /\ Wrap \in Nat /\ pool.limit \in Nat
  BY CountFacts
<1>9. Cardinality(InUse') <= Cardinality(InUse) /\ Cardinality(InUse') \in Nat
  <2>1. InUse' \subseteq InUse
    BY <1>5
  <2> QED  BY <1>8, <2>1, FS_Subset, FS_CardinalityType
<1>10. nobj \in Nat /\ ("refused" \notin flaws' => "refused" \notin flaws) /\ ("inner" \notin flaws' => "inner" \notin flaws)
  BY <1>1, <1>2 DEF CountSound
<1>11. nobj' \in Nat
  BY <1>4, <1>8, <1>10
<1>12. ASSUME "refused" \notin flaws'
       PROVE  nobj' = Cardinality(held') + Cardinality(Marked(nested', Cleanups))
  <2>1. nobj = Cardinality(held) + Cardinality(Marked(nested, Cleanups))
    BY <1>2, <1>10, <1>12 DEF CountSound
  <2> QED  BY <1>1, <1>3, <1>4, <1>8, <1>10, <2>1
<1>13. CountSound'
  <2>1. ASSUME "refused" \notin flaws', "inner" \notin flaws', pool.limit # 0
        PROVE  Cardinality(InUse') <= pool.limit
    <3>1. Cardinality(InUse) <= pool.limit
      BY <1>2, <1>10, <2>1 DEF CountSound
    <3> QED  BY <1>8, <1>9, <3>1
  <2> QED  BY <1>1, <1>11, <1>12, <2>1 DEF CountSound
<1> QED  BY <1>5, <1>6, <1>7, <1>13 DEF PoolInv

LEMMA SetupReturnsInv == ASSUME PoolInv, NEW ok \in BOOLEAN, SetupReturns(ok) PROVE PoolInv'
<1> DEFINE obj == Top.obj
           stack == Front(nested)
<1>1. /\ nested # <<>> /\ Top.kind = "setup" /\ pool' = pool
      /\ IF ok THEN /\ nested' = stack /\ nobj' = (nobj + 1) % Wrap /\ held' = held \cup {obj}
                    /\ UNCHANGED <<chunks, space, full, flaws>>
         ELSE Cleanup(stack, obj) /\ flaws' = flaws \cup {"refused"} /\ UNCHANGED held
  BY DEF SetupReturns, Running
<1>2. PoolSized /\ ChunksSound /\ UseSound /\ CountSound
  BY DEF PoolInv
<1>3. /\ Stack(stack) /\ obj \in InUse /\ obj \notin held /\ obj \notin ObjsOf(stack)
      /\ ObjsOf(stack) = ObjsOf(nested) \ {obj} /\ ObjsOf(nested) = ObjsOf(stack) \cup {obj}
      /\ Cardinality(Marked(stack, Cleanups)) \in Nat
      /\ Cardinality(Marked(stack, Cleanups)) <= Len(nested) - 1
      /\ Cardinality(Marked(nested, Cleanups)) = Cardinality(Marked(stack, Cleanups))
  <2>1. obj \in ObjsOf(nested)
    BY <1>1, <1>2, PopFacts DEF UseSound, Top
  <2> QED  BY <1>1, <2>1, TopFacts
<1>4. PoolSized'
  BY <1>1, <1>2 DEF PoolSized
<1>5. /\ IsFiniteSet(held) /\ Cardinality(held) \in Nat /\ Cardinality(InUse) \in Nat
      /\ Cardinality(InUse) = Cardinality(held) + Len(nested) /\ Len(nested) \in Nat
      /\ Cardinality(InUse) < Wrap /\ Wrap \in Nat
  BY CountFacts
<1>6. nobj \in Nat
  BY <1>2 DEF CountSound
<1> HIDE DEF obj, stack
<1>7. CASE ok
  <2>1. /\ nested' = stack /\ nobj' = (nobj + 1) % Wrap /\ held' = held \cup {obj}
        /\ UNCHANGED <<chunks, space, full, flaws>>
    BY <1>1, <1>7
  <2>2. ChunksSound' /\ InUse' = InUse
    BY <1>1, <1>2, <2>1 DEF ChunksSound, IsChunk, Words, Slots, InUse
  <2>3. UseSound'
    BY <1>2, <1>3, <2>1, <2>2 DEF UseSound
  <2>4. Cardinality(held') = Cardinality(held) + 1
    BY <1>3, <1>5, <2>1, FS_AddElement
  <2>5. nobj' \in Nat
    BY <1>5, <1>6, <2>1, CounterFacts
  <2>6. ASSUME "refused" \notin flaws
        PROVE  nobj' = Cardinality(held') + Cardinality(Marked(nested', Cleanups))
    <3>1. nobj = Cardinality(held) + Cardinality(Marked(nested, Cleanups))
      BY <1>2, <2>6 DEF CountSound
    <3>2. nobj + 1 < Wrap
      BY <1>3, <1>5, <1>6, <3>1
    <3>3. nobj' = nobj + 1
      BY <1>5, <1>6, <2>1, <3>2, CounterFacts
    <3> QED  BY <1>3, <1>5, <2>1, <2>4, <3>1, <3>3
  <2>7. CountSound'
    BY <1>1, <1>2, <2>1, <2>2, <2>5, <2>6 DEF CountSound
  <2> QED  BY <1>4, <2>2, <2>3, <2>7 DEF PoolInv
<1>8. CASE ~ok
  <2>1. Cleanup(stack, obj) /\ flaws' = flaws \cup {"refused"} /\ held' = held
    BY <1>1, <1>8
  <2>2. /\ ChunksSound' /\ Stack(nested')
        /\ \/ /\ ObjsOf(nested') = ObjsOf(stack) \cup {obj} /\ InUse' = InUse /\ nobj' = nobj
           \/ /\ nested' = stack /\ InUse' = InUse \ {obj}
              /\ nobj' = IF nobj = 0 THEN Wrap - 1 ELSE nobj - 1
    <3>1. flaws \subseteq flaws'
      BY <2>1
    <3> QED  BY <1>1, <1>2, <1>3, <2>1, <3>1, CleanupFacts
  <2>3. UseSound'
    BY <1>2, <1>3, <2>1, <2>2 DEF UseSound
  <2>4. nobj' \in Nat
    BY <1>5, <1>6, <2>2
  <2>5. CountSound'
    BY <2>1, <2>4 DEF CountSound
  <2> QED  BY <1>4, <2>2, <2>3, <2>5 DEF PoolInv
<1> QED  BY <1>7, <1>8

LEMMA PoolNextInv == PoolInv /\ [PoolNext]_poolVars => PoolInv'
<1> SUFFICES ASSUME PoolInv, [PoolNext]_poolVars PROVE PoolInv'
  OBVIOUS
<1>1. CASE Alloc
  BY <1>1, AllocInv
<1>2. CASE \E obj \in held : Free(obj)
  BY <1>2, FreeInv
<1>3. CASE CleanupReturns
  BY <1>3, CleanupReturnsInv
<1>4. CASE \E ok \in BOOLEAN : SetupReturns(ok)
  BY <1>4, SetupReturnsInv
<1>5. ASSUME ChunksSound', InUse' = InUse, UNCHANGED <<pool, nobj, nested, held, flaws>>  PROVE PoolInv'
  <2>1. PoolSized' /\ UseSound' /\ CountSound'
    BY <1>5 DEF PoolInv, PoolSized, UseSound, CountSound
  <2> QED  BY <1>5, <2>1 DEF PoolInv
<1>6. CASE \E len \in {0, 1, pool.nperchunk + 1} : (len > 0 /\ Grow(len)) \/ Shrink(len)
  <2>1. PICK len : Grow(len) \/ Shrink(len)
    BY <1>6
  <2>2. ChunksSound' /\ InUse' = InUse
    BY <2>1, GrowInv, ShrinkInv
  <2>3. UNCHANGED <<pool, nobj, nested, held, flaws>>
    BY <2>1 DEF Grow, Shrink
  <2> QED  BY <1>5, <2>2, <2>3
<1>7. CASE UNCHANGED poolVars
  <2>1. UNCHANGED <<pool, chunks, space, full, nobj, nested, held, flaws>>
    BY <1>7 DEF poolVars
  <2>2. ChunksSound' /\ InUse' = InUse
    BY <2>1 DEF PoolInv, ChunksSound, IsChunk, Words, Slots, InUse
  <2> QED  BY <1>5, <2>1, <2>2
<1> QED  BY <1>1, <1>2, <1>3, <1>4, <1>6, <1>7 DEF PoolNext

LEMMA PoolInvSound == PoolInv => PoolIsSound
<1> SUFFICES ASSUME PoolInv PROVE PoolIsSound
  OBVIOUS
<1>1. PoolSized /\ ChunksSound /\ UseSound /\ CountSound
  BY DEF PoolInv
<1>2. InUse = held \cup {nested[i].obj : i \in DOMAIN nested} /\ Cardinality(InUse) = Cardinality(held) + Len(nested)
  BY <1>1, CountFacts DEF UseSound, ObjsOf
<1>3. ToSet(space \o full) = DOMAIN chunks
  <2> DEFINE m == Len(space)
             k == Len(full)
             r == space \o full
  <2>1. /\ space \in Seq(Nat) /\ full \in Seq(Nat) /\ m \in Nat /\ k \in Nat
        /\ DOMAIN space = 1 .. m /\ DOMAIN full = 1 .. k
    BY <1>1, LenProperties DEF ChunksSound
  <2>2. /\ r \in Seq(Nat) /\ Len(r) = m + k
        /\ \A i \in 1 .. m + k : r[i] = IF i <= m THEN space[i] ELSE full[i - m]
    BY <2>1, ConcatProperties
  <2>3. DOMAIN r = 1 .. m + k
    BY <2>2, LenProperties
  <2> HIDE DEF r, m, k
  <2>4. ToSet(r) \subseteq ToSet(space) \cup ToSet(full)
    <3>1. \A i \in DOMAIN r : (i \in 1 .. m /\ r[i] = space[i]) \/ (i - m \in 1 .. k /\ r[i] = full[i - m])
      BY <2>1, <2>2, <2>3
    <3> QED  BY <2>1, <3>1 DEF ToSet
  <2>5. ToSet(space) \subseteq ToSet(r)
    <3> SUFFICES ASSUME NEW i \in 1 .. m PROVE space[i] \in ToSet(r)
      BY <2>1 DEF ToSet
    <3>1. i \in 1 .. m + k /\ i <= m
      BY <2>1
    <3> QED  BY <2>2, <2>3, <3>1 DEF ToSet
  <2>6. ToSet(full) \subseteq ToSet(r)
    <3> SUFFICES ASSUME NEW i \in 1 .. k PROVE full[i] \in ToSet(r)
      BY <2>1 DEF ToSet
    <3>1. m + i \in 1 .. m + k /\ ~(m + i <= m) /\ (m + i) - m = i
      BY <2>1
    <3> QED  BY <2>2, <2>3, <3>1 DEF ToSet
  <2>7. ToSet(r) = ToSet(space) \cup ToSet(full)
    BY <2>4, <2>5, <2>6
  <2> QED  BY <1>1, <2>7 DEF ChunksSound, r
<1>4. Len(space) + Len(full) = Cardinality(DOMAIN chunks)
  <2>1. IsFiniteSet(ToSet(space)) /\ Cardinality(ToSet(space)) = Len(space)
    BY <1>1, ListCount DEF ChunksSound
  <2>2. IsFiniteSet(ToSet(full)) /\ Cardinality(ToSet(full)) = Len(full)
    BY <1>1, ListCount DEF ChunksSound
  <2>3. ToSet(space) \cap ToSet(full) = {} /\ ToSet(space) \cup ToSet(full) = DOMAIN chunks
    BY <1>1 DEF ChunksSound
  <2>4. Cardinality(ToSet(space) \cap ToSet(full)) = 0
    BY <2>3, FS_EmptySet
  <2>5. Cardinality(ToSet(space) \cup ToSet(full))
            = Cardinality(ToSet(space)) + Cardinality(ToSet(full)) - Cardinality(ToSet(space) \cap ToSet(full))
    BY <2>1, <2>2, FS_Union
  <2>6. Len(space) \in Nat /\ Len(full) \in Nat
    BY <1>1, LenProperties DEF ChunksSound
  <2> QED  BY <2>1, <2>2, <2>3, <2>4, <2>5, <2>6
<1>5. \A c \in DOMAIN chunks : chunks[c].cache = Words(chunks[c].free)
  BY <1>1 DEF ChunksSound, IsChunk
<1>6. ToSet(space) \subseteq DOMAIN chunks /\ ToSet(full) \subseteq DOMAIN chunks
  BY <1>1 DEF ChunksSound
<1>7. \A c \in ToSet(space) : chunks[c].free # {} /\ chunks[c].cache = Words(chunks[c].free)
  BY <1>1, <1>5, <1>6 DEF ChunksSound
<1>8. "overtaken" \notin flaws => \A c \in ToSet(full) : chunks[c].free = {} /\ chunks[c].cache = {}
  <2>1. Words({}) = {}
    BY DEF Words
  <2> QED  BY <1>1, <1>5, <1>6, <2>1 DEF ChunksSound
<1>9. Marked(nested, Cleanups) = {i \in DOMAIN nested : nested[i].kind = "cleanup"}
  <2>1. \A i \in DOMAIN nested : nested[i] \in Frames
    BY <1>1, LenProperties, ElementOfSeq DEF UseSound, Stack
  <2> QED  BY <2>1 DEF Marked, Cleanups
<1> QED  BY <1>1, <1>2, <1>3, <1>4, <1>7, <1>8, <1>9 DEF CountSound, PoolIsSound

(* For any sizes of blocks and of pools, and any order of calls, those of    *)
(* the callbacks of a pool included: no block with a header is given to the  *)
(* allocator that knows of none, and the debug allocator counts what is out; *)
(* no slot is handed out twice and no chunk is freed with one in use, every  *)
(* chunk is on the list it belongs on, and the objects are counted and       *)
(* within the limit (memblk_alloc, memblk_resize, memblk_free,               *)
(* mrp_mm_config, mrp_objpool_alloc, mrp_objpool_free, pool_grow and         *)
(* pool_shrink).                                                             *)
THEOREM MemorySound == MemorySpec => []MemoryIsSound
<1> DEFINE Inv == BlocksInv /\ PoolInv
<1>1. MemoryInit => Inv
  BY BlocksInitInv, PoolInitInv DEF MemoryInit
<1>2. Inv /\ [MemoryNext]_<<blockVars, poolVars>> => Inv'
  <2>1. [MemoryNext]_<<blockVars, poolVars>> => [BlocksNext]_blockVars /\ [PoolNext]_poolVars
    BY DEF MemoryNext
  <2> QED  BY <2>1, BlocksNextInv, PoolNextInv
<1>3. Inv => MemoryIsSound
  BY BlocksInvSound, PoolInvSound DEF MemoryIsSound
<1> QED
  BY <1>1, <1>2, <1>3, PTL DEF MemorySpec
=============================================================================
