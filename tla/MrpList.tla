------------------------------ MODULE MrpList ------------------------------
(***************************************************************************)
(* The intrusive, circular, doubly linked list of src/common/list.h.       *)
(*                                                                         *)
(* A hook is both a list head and the link embedded in an object, so a     *)
(* heap of hooks is one pair of pointer maps and every list is a ring in   *)
(* it.  The operators return the new pair of maps; nothing here knows      *)
(* which ring a hook is in, exactly like the C code, and appending a hook  *)
(* that is still linked elsewhere corrupts both rings, exactly like the C  *)
(* code.                                                                   *)
(***************************************************************************)

(***************************************************************************)
(* mrp_list_init on every hook of the set H: each is alone in its ring.    *)
(***************************************************************************)
InitLinks(H) == [prev |-> [h \in H |-> h], next |-> [h \in H |-> h]]

LinkMaps(H) == [prev : [H -> H], next : [H -> H]]

ListInit(L, h) == [prev |-> [L.prev EXCEPT ![h] = h],
                   next |-> [L.next EXCEPT ![h] = h]]

ListEmpty(L, h) == L.next[h] = L.prev[h] /\ L.next[h] = h

(***************************************************************************)
(* mrp_list_append and mrp_list_prepend.  The C code has a branch of its   *)
(* own for the empty list; its assignments are what the general case does  *)
(* when prev (next) of the head is the head itself.                        *)
(***************************************************************************)
ListAppend(L, list, item) ==
    [next |-> [L.next EXCEPT ![L.prev[list]] = item, ![item] = list],
     prev |-> [L.prev EXCEPT ![item] = L.prev[list], ![list] = item]]

ListPrepend(L, list, item) ==
    [next |-> [L.next EXCEPT ![list] = item, ![item] = L.next[list]],
     prev |-> [L.prev EXCEPT ![item] = list, ![L.next[list]] = item]]

(***************************************************************************)
(* mrp_list_delete.  Deleting a hook that is alone in its ring changes     *)
(* nothing, which is what the guard of the C code says.                    *)
(***************************************************************************)
ListDelete(L, item) ==
    [next |-> [L.next EXCEPT ![L.prev[item]] = L.next[item], ![item] = item],
     prev |-> [L.prev EXCEPT ![L.next[item]] = L.prev[item], ![item] = item]]

(***************************************************************************)
(* Move item from the ring it is in to the end of list: the delete/append  *)
(* pair the main loop uses to change the list an object is on.             *)
(***************************************************************************)
ListMove(L, list, item) == ListAppend(ListDelete(L, item), list, item)

-----------------------------------------------------------------------------
(***************************************************************************)
(* next and prev are each other's inverse: no ring is torn.                *)
(***************************************************************************)
WellLinked(L, H) ==
    \A h \in H : L.next[L.prev[h]] = h /\ L.prev[L.next[h]] = h

(***************************************************************************)
(* home labels every hook with the head of the ring it is in (with itself  *)
(* when it is alone): following a link never changes the label.            *)
(***************************************************************************)
SameRing(L, H, home) == \A h \in H : home[L.next[h]] = home[h]
=============================================================================
