------------------------------ MODULE DataCodec ------------------------------
(****************************************************************************)
(* Custom data types of common/msg.c: registering a descriptor, encoding a  *)
(* C structure by it, decoding and freeing it at the other end.             *)
(*                                                                          *)
(* A descriptor is [tag, fields]; a member is [offs, base, array, guard,    *)
(* u32], where u32 is the sentinel of a guarded array and otherwise the     *)
(* offset of the member that counts it.  The two ends register descriptors  *)
(* of their own.  A structure is one sequence per member: of its number or  *)
(* string or blob, or the items of its array (with the sentinel).  Indices  *)
(* are 0-based as in the code: Field(d, k).  A string is one item of the    *)
(* frame, its length and its bytes.                                         *)
(****************************************************************************)
EXTENDS Integers, Sequences, SequencesExt

CONSTANTS Descriptors,   \* Descriptors[side]: what the client of a side registers
          Values(_),     \* the structures a client has of a descriptor
          NDIRECT_TYPE   \* tags up to this one are indexed directly

VARIABLES direct, others,  \* per end: the types found by index and by search
          tried,           \* per end: the descriptors the client registered
          phase, sent,     \* what goes on; the structure that was sent
          wire, pos,       \* the items of the frame, and how many were read
          turn, data,      \* the decoder's loop counter; the members it has, by tag
          heap             \* the heap blocks of what it decodes

dataVars == <<direct, others, tried, phase, sent, wire, pos, turn, data, heap>>

Sides  == {"sender", "receiver"}
NoType == [tag |-> 0, fields |-> <<>>, allocated |-> {}]
Boxed  == {"string", "blob"}   \* bases with a heap block
Counts == {"u8", "s8", "u16", "s16", "u32", "s32"}

Field(d, k) == d.fields[k + 1]
Indices(d)  == 0..Len(d.fields) - 1

DataInit == /\ direct = [e \in Sides |-> [t \in 1..NDIRECT_TYPE |-> NoType]]
            /\ others = [e \in Sides |-> <<>>] /\ tried = [e \in Sides |-> {}]
            /\ phase = "idle" /\ sent = [descr |-> NoType, vals |-> <<>>]
            /\ wire = <<>> /\ pos = 0 /\ turn = 0 /\ data = <<>> /\ heap = {}

------------------------------------------------------------------------------
(* Registration.                                                            *)

(* The member an array counts its items by: the first one at that offset.   *)
CountOf(d, k) == {j \in Indices(d) : /\ Field(d, j).offs = Field(d, k).u32
                                     /\ \A h \in 0..j - 1 : Field(d, h).offs # Field(d, k).u32}

ArrayOK(d, k) ==
    \/ Field(d, k).guard
    \/ \E j \in CountOf(d, k) : j < k /\ ~Field(d, j).array /\ Field(d, j).base \in Counts

Registrable(d) == d.tag # 0 /\ \A k \in Indices(d) : Field(d, k).array => ArrayOK(d, k)

(* Registered, the arrays name their count by its index; blobs still by     *)
(* its offset.                                                              *)
Enumerated(d) ==
    [tag |-> d.tag,
     fields |-> [n \in DOMAIN d.fields |->
                   IF d.fields[n].array /\ ~d.fields[n].guard
                   THEN [d.fields[n] EXCEPT !.u32 = CHOOSE j \in CountOf(d, n - 1) : TRUE]
                   ELSE d.fields[n]],
     allocated |-> {k \in Indices(d) : Field(d, k).array \/ Field(d, k).base \in Boxed}]

RegisterType(e, d) ==
    /\ phase = "idle" /\ d \notin tried[e]
    /\ tried' = [tried EXCEPT ![e] = @ \cup {d}]
    /\ IF ~Registrable(d) THEN UNCHANGED <<direct, others>>
       ELSE IF d.tag <= NDIRECT_TYPE
            THEN /\ direct' = IF direct[e][d.tag] = NoType
                              THEN [direct EXCEPT ![e][d.tag] = Enumerated(d)] ELSE direct
                 /\ UNCHANGED others
            ELSE /\ others' = [others EXCEPT ![e] = Append(@, Enumerated(d))]
                 /\ UNCHANGED direct
    /\ UNCHANGED <<phase, sent, wire, pos, turn, data, heap>>

FindType(e, tag) ==
    IF tag = 0 THEN NoType
    ELSE IF tag <= NDIRECT_TYPE THEN direct[e][tag]
    ELSE LET hits == {i \in DOMAIN others[e] : others[e][i].tag = tag}
         IN  IF hits = {} THEN NoType
             ELSE others[e][CHOOSE i \in hits : \A j \in hits : i <= j]

------------------------------------------------------------------------------
(* How many items an array or a blob has; -1 when that is not known.        *)
Count(d, k, vals) == IF Field(d, k).base \in Counts /\ ~Field(d, k).array
                     THEN vals[k + 1][1] ELSE -1

GuardedSizeExclusive(f, items) ==
    CHOOSE n \in 0..Len(items) - 1 : items[n + 1] = f.u32 /\ \A j \in 1..n : items[j] # f.u32

(* The position of the sentinel, which is counted.                          *)
GuardedSize(f, items) == CHOOSE n \in 1..Len(items) :
                            items[n] = f.u32 /\ \A j \in 1..n - 1 : items[j] # f.u32

ArraySize(d, k, vals) ==
    LET f == Field(d, k) IN
    IF ~(k \in Indices(d) \ {0} /\ f.array) THEN -1
    ELSE IF f.guard THEN IF f.base = "blob" THEN -1 ELSE GuardedSize(f, vals[k + 1])
    ELSE IF f.u32 \in Indices(d) THEN Count(d, f.u32, vals) ELSE -1

BlobSize(d, k, vals) ==
    IF k \in Indices(d) \ {0} /\ Field(d, k).u32 \in Indices(d)
    THEN Count(d, Field(d, k).u32, vals) ELSE -1

------------------------------------------------------------------------------
(* What clients see to.  A sentinel is a value of the items of its array (a *)
(* string is compared by its address, which means nothing at the other end),*)
(* and it ends its array and is nowhere else in it; an array has as many    *)
(* items as its count says.  Under one tag, the members that both sides     *)
(* have are of one type.                                                    *)
IsDescriptor(d) ==
    /\ d = [tag |-> d.tag, fields |-> d.fields] /\ d.tag \in Nat /\ d.fields \in Seq(ToSet(d.fields))
    /\ \A f \in ToSet(d.fields) :
          /\ f = [offs |-> f.offs, base |-> f.base, array |-> f.array, guard |-> f.guard, u32 |-> f.u32]
          /\ f.array \in BOOLEAN /\ f.guard \in BOOLEAN
          /\ f.array /\ f.guard => f.base # "string"

Alike(d, r) ==
    \A n \in DOMAIN d.fields \cap DOMAIN r.fields :
        LET f == d.fields[n]
            g == r.fields[n]
        IN  f.base = g.base /\ f.array = g.array /\ f.guard = g.guard /\ (f.guard => f.u32 = g.u32)

IsStructure(d, vals) ==
    /\ vals \in Seq(ToSet(vals)) /\ Len(vals) = Len(d.fields)
    /\ \A k \in Indices(d) :
          LET f == Field(d, k)
              v == vals[k + 1]
          IN  /\ v \in Seq(ToSet(v))
              /\ ~f.array => Len(v) = 1 /\ (f.base \in Counts => v[1] \in Int)
              /\ f.array /\ f.guard => /\ v # <<>> /\ v[Len(v)] = f.u32
                                       /\ \A j \in 1..Len(v) - 1 : v[j] # f.u32
              /\ f.array /\ ~f.guard /\ Count(d, f.u32, vals) >= 0 => Len(v) = Count(d, f.u32, vals)

ASSUME DataCodecAssumption ==
    /\ NDIRECT_TYPE \in Nat
    /\ \A s \in Sides : \A d \in Descriptors[s] : IsDescriptor(d)
    /\ \A d \in Descriptors["sender"] : Registrable(d) =>
          /\ \A r \in Descriptors["receiver"] : Registrable(r) /\ r.tag = d.tag => Alike(d, r)
          /\ \A vals \in Values(Enumerated(d)) : IsStructure(Enumerated(d), vals)

------------------------------------------------------------------------------
(* mrp_data_encode.  The length of a blob is written as the low half of the *)
(* pointer to it, which is more than a frame has.                           *)
EncodeMember(d, k, vals) ==
    LET f == Field(d, k)
        n == ArraySize(d, k, vals)
    IN  <<k + 1>> \o (IF f.array THEN <<n>> \o SubSeq(vals[k + 1], 1, n)
                      ELSE IF f.base = "blob" THEN <<"address">> ELSE vals[k + 1])

(* It gives up on a member without a size and on an array of blobs that is  *)
(* not empty; a blob whose size is below -1 is copied all the same.         *)
Troubles(d, vals) ==
    {k \in Indices(d) : IF Field(d, k).array
                        THEN LET n == ArraySize(d, k, vals) IN n < 0 \/ (n > 0 /\ Field(d, k).base = "blob")
                        ELSE Field(d, k).base = "blob" /\ BlobSize(d, k, vals) < 0}

Send(d, vals) ==
    /\ phase = "idle" /\ d # NoType /\ Troubles(d, vals) = {}
    /\ sent' = [descr |-> d, vals |-> vals]
    /\ wire' = FlattenSeq([n \in DOMAIN d.fields |-> EncodeMember(d, n - 1, vals)])
    /\ pos' = 0 /\ phase' = "sent"
    /\ UNCHANGED <<direct, others, tried, turn, data, heap>>

(* The first such member decides.                                           *)
SendFails(d, vals) ==
    /\ phase = "idle" /\ d # NoType
    /\ \E k \in Troubles(d, vals) :
          /\ \A j \in Troubles(d, vals) : k <= j
          /\ phase' = IF ~Field(d, k).array /\ BlobSize(d, k, vals) < -1 THEN "crashed" ELSE "refused"
    /\ UNCHANGED <<direct, others, tried, sent, wire, pos, turn, data, heap>>

------------------------------------------------------------------------------
(* mrp_data_decode, by the receiver's descriptor of the tag.                *)
Descr == FindType("receiver", sent.descr.tag)

(* The heap blocks of a structure and of its member n.                      *)
Whole == <<0, 0>>
Blocks(n, f, v) ==
    IF f.array THEN {<<n, 0>>} \cup (IF f.base = "string" THEN {<<n, j>> : j \in 1..Len(v)} ELSE {})
    ELSE IF f.base \in Boxed THEN {<<n, 0>>} ELSE {}

Receive ==
    /\ phase = "sent"
    /\ IF Descr = NoType THEN phase' = "failed" /\ UNCHANGED heap
       ELSE phase' = "decode" /\ heap' = {Whole}
    /\ turn' = 0 /\ data' = <<>>
    /\ UNCHANGED <<direct, others, tried, sent, wire, pos>>

(* A failed decode frees the strings and blobs, and not the arrays.         *)
DataFail ==
    /\ heap' = heap \ ({Whole} \cup {<<n, 0>> : n \in {m \in DOMAIN Descr.fields :
                                       ~Descr.fields[m].array /\ Descr.fields[m].base \in Boxed}})
    /\ phase' = "failed" /\ UNCHANGED <<pos, turn, data>>

(* A frame of the same members is never short of their items.               *)
StoreMember(n, f, v, p) ==
    /\ data' = [m \in DOMAIN data \cup {n} |-> IF m = n THEN v ELSE data[m]]
    /\ heap' = heap \cup Blocks(n, f, v)
    /\ pos' = p /\ turn' = turn + 1 /\ UNCHANGED phase

(* The end of the frame, or a member the receiver's descriptor lacks.       *)
NoMember == pos < Len(wire) => wire[pos + 1] \notin DOMAIN Descr.fields

DataUnknown == /\ phase = "decode" /\ turn < Len(Descr.fields) /\ NoMember
               /\ DataFail
               /\ UNCHANGED <<direct, others, tried, sent, wire>>

DataMember ==
    /\ phase = "decode" /\ turn < Len(Descr.fields) /\ ~NoMember
    /\ LET n == wire[pos + 1]
           f == Descr.fields[n]
       IN  /\ ~f.array
           /\ IF f.base = "blob" THEN DataFail
              ELSE StoreMember(n, f, <<wire[pos + 2]>>, pos + 2)
    /\ UNCHANGED <<direct, others, tried, sent, wire>>

(* An array that is not guarded must have the size its count, decoded       *)
(* before, announces; the size is looked up by the turn of the loop.        *)
DataArray ==
    /\ phase = "decode" /\ turn < Len(Descr.fields) /\ ~NoMember
    /\ LET n == wire[pos + 1]
           f == Descr.fields[n]
           c == wire[pos + 2]
       IN  /\ f.array
           /\ IF f.base # "blob" /\ (f.guard \/ ArraySize(Descr, turn, data) = c)
              THEN StoreMember(n, f, SubSeq(wire, pos + 3, pos + 2 + c), pos + 2 + c)
              ELSE DataFail
    /\ UNCHANGED <<direct, others, tried, sent, wire>>

DataDone == /\ phase = "decode" /\ turn = Len(Descr.fields) /\ phase' = "done"
            /\ UNCHANGED <<direct, others, tried, sent, wire, pos, turn, data, heap>>

(* The heap blocks mrp_data_free gives back for an array, string or blob.   *)
Freed(d, k) ==
    {<<k + 1, 0>>} \cup (IF Field(d, k).array /\ Field(d, k).base = "string"
                         THEN {<<k + 1, j>> : j \in 1..ArraySize(d, k, data)} ELSE {})

DataFree ==
    /\ phase = "done"
    /\ heap' = heap \ ({Whole} \cup UNION {Freed(Descr, k) : k \in Descr.allocated})
    /\ phase' = "freed"
    /\ UNCHANGED <<direct, others, tried, sent, wire, pos, turn, data>>

DataNext == \/ \E e \in Sides : \E d \in Descriptors[e] : RegisterType(e, d)
            \/ \E d \in Descriptors["sender"] :
                  LET t == FindType("sender", d.tag)
                  IN  \E vals \in Values(t) : Send(t, vals) \/ SendFails(t, vals)
            \/ Receive \/ DataUnknown \/ DataMember \/ DataArray \/ DataDone
            \/ DataFree

DataSpec == DataInit /\ [][DataNext]_dataVars

------------------------------------------------------------------------------
Same == Descr = sent.descr
Blobless(d) == \A k \in Indices(d) : Field(d, k).base # "blob"

(* Between ends that agree on the descriptor, a structure without blobs is  *)
(* decoded, and every member, counts and sentinels included, is what was    *)
(* sent; between ends that do not, no structure comes out with an array     *)
(* longer or shorter than its count says.                                   *)
DataArrives ==
    /\ phase # "idle" /\ Same /\ Blobless(sent.descr) => phase # "failed"
    /\ phase = "done" /\ Same => data = sent.vals
    /\ phase = "done" => \A k \in Indices(Descr) :
          Field(Descr, k).array => ArraySize(Descr, k, data) = Len(data[k + 1])

(* A structure is freed to its last block; what a failed decode loses is    *)
(* its arrays and their strings.                                            *)
StructureFreed ==
    /\ phase = "freed" => heap = {}
    /\ phase = "failed" => heap = UNION {Blocks(n, Descr.fields[n], data[n]) :
                                           n \in {m \in DOMAIN data : Descr.fields[m].array}}

(* A structure arrives as it was sent or not at all, and is freed whole.    *)
StructuresArrive == DataArrives /\ StructureFreed
==============================================================================
