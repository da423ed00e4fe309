------------------------------ MODULE DbusCodec ------------------------------
(****************************************************************************)
(* What common/dbus-transport.c puts on the bus and takes off it: generic   *)
(* messages, custom data and raw data, as the arguments of a method call.   *)
(*                                                                          *)
(* A field is [tag, base, array, vals]; an argument is [t, v] with its      *)
(* D-Bus type and value, an array also has the type e of its elements.  A   *)
(* structure is its tag and its members as fields, tagged 1, 2, ... when    *)
(* their type is registered, and the members whose size is not known.       *)
(* libdbus is external: it hands over the arguments as they were appended.  *)
(* The arrays of a frame fit the stack.                                     *)
(****************************************************************************)
EXTENDS Integers, Sequences, SequencesExt

CONSTANTS Messages,    \* the field sequences that are sent
          Structures,  \* the structures that are sent: [tag, members, unsized]
          Known(_),    \* the types of a structure's members at the receiver; <<>>: none
          Foreign      \* calls by other programs: [kind, args]

VARIABLES kind, src,   \* "msg", "data" or "raw"; what was sent, if by us
          frame,       \* its arguments
          at, turn,    \* the decoder: arguments read, turns of its loop
          got, lost,   \* what it has decoded; heap blocks of it that are forgotten
          st

codecVars == <<kind, src, frame, at, turn, got, lost, st>>

(* The D-Bus type of each of ours: there is no signed byte, and unsigned    *)
(* ones travel as 16 bits too.                                              *)
DbusType == [string |-> "s", bool |-> "b", u8 |-> "q", s8 |-> "n", u16 |-> "q", s16 |-> "n",
             u32 |-> "u", s32 |-> "i", u64 |-> "t", s64 |-> "x", double |-> "d", blob |-> "y"]

IsBlob(ty) == ~ty.array /\ ty.base = "blob"

(* A field has its values, one if it is neither array nor blob; no message  *)
(* has an array of blobs, but a structure may, and it has a member; what a  *)
(* frame announces is a number.                                             *)
WellFormed(f) == /\ f = [tag |-> f.tag, base |-> f.base, array |-> f.array, vals |-> f.vals]
                 /\ f.array \in BOOLEAN /\ f.vals \in Seq(ToSet(f.vals))
                 /\ ~f.array /\ f.base # "blob" => Len(f.vals) = 1

Says(r)      == 2 \in DOMAIN r.args /\ r.args[2].t = "q"
ArrivingTags == {s.tag : s \in Structures} \cup {r.args[2].v : r \in {r \in Foreign : r.kind = "data" /\ Says(r)}}

ASSUME DbusCodecAssumption ==
    /\ \A fs \in Messages :
          /\ fs \in Seq(ToSet(fs))
          /\ \A k \in DOMAIN fs : WellFormed(fs[k]) /\ ~(fs[k].array /\ fs[k].base = "blob")
    /\ \A s \in Structures :
          /\ s.members \in Seq(ToSet(s.members)) /\ s.members # <<>>
          /\ \A k \in DOMAIN s.members : WellFormed(s.members[k]) /\ s.members[k].tag = k
    /\ \A r \in Foreign : /\ r.kind \in {"msg", "data", "raw"}
                          /\ r.kind = "msg" /\ Says(r) => r.args[2].v \in Nat
    /\ \A t \in ArrivingTags : Known(t) \in Seq(ToSet(Known(t)))

NotOurs == [ours |-> FALSE, tag |-> 0, fields |-> <<>>]

CodecInit == /\ kind = "none" /\ src = NotOurs /\ frame = <<>> /\ at = 0 /\ turn = 0
             /\ got = <<>> /\ lost = 0 /\ st = "idle"

------------------------------------------------------------------------------
(* Encoding.                                                                *)
Arg(t, v) == [t |-> t, v |-> v]
ArrayArg(base, vs) == [t |-> "a", e |-> DbusType[base], v |-> vs]

EncodeValues(f) ==
    IF f.array THEN <<Arg("u", Len(f.vals)), ArrayArg(f.base, f.vals)>>
    ELSE IF f.base = "blob" THEN <<ArrayArg("blob", f.vals)>>
    ELSE <<Arg(DbusType[f.base], f.vals[1])>>
EncodeField(f) == <<Arg("q", f.tag), Arg("q", [base |-> f.base, array |-> f.array])>> \o EncodeValues(f)

EncodeFields(fs) == FlattenSeq([k \in DOMAIN fs |-> EncodeField(fs[k])])

(* The loop over the elements has no case for these.                        *)
NoArrayOf == {"s64", "blob"}
Encodable(f) == ~(f.array /\ f.base \in NoArrayOf /\ f.vals # <<>>)

Encode(k, tag, fs, result, args) ==
    /\ st = "idle" /\ kind' = k /\ src' = [ours |-> TRUE, tag |-> tag, fields |-> fs] /\ st' = result
    /\ frame' = IF result = "sent" THEN <<Arg("o", "sender")>> \o args ELSE frame
    /\ UNCHANGED <<at, turn, got, lost>>

EncodeMsg(fs) == Encode("msg", 0, fs, IF \A k \in DOMAIN fs : Encodable(fs[k]) THEN "sent" ELSE "refused",
                        <<Arg("q", Len(fs))>> \o EncodeFields(fs))

(* A blob is taken from its descriptor instead of the structure, where the  *)
(* offset of its count is; an array of unknown size has 2^32 - 1 items.  The *)
(* first member that cannot be encoded decides.                             *)
Troubles(s) == {k \in DOMAIN s.members : \/ k \in s.unsized \/ ~Encodable(s.members[k])
                                         \/ IsBlob(s.members[k]) /\ s.members[k].vals # <<>>}
Crashes(s, k) == IF s.members[k].array THEN k \in s.unsized /\ s.members[k].base \notin NoArrayOf
                                       ELSE k \notin s.unsized
Result(s) ==
    IF Troubles(s) = {} THEN "sent"
    ELSE IF \E k \in Troubles(s) : Crashes(s, k) /\ \A j \in Troubles(s) : k <= j THEN "crashed"
    ELSE "refused"
EncodeData(s) == Encode("data", s.tag, s.members, Result(s),
                        <<Arg("q", s.tag), Arg("q", Len(s.members))>> \o EncodeFields(s.members))
EncodeRaw     == Encode("raw", 0, <<1, 2>>, "sent", <<ArrayArg("blob", <<1, 2>>)>>)

(* A method call of a program that is not ours, to our transport's path.    *)
Receive(k, args) == st = "idle" /\ kind' = k /\ src' = NotOurs /\ frame' = args /\ st' = "sent"
                    /\ UNCHANGED <<at, turn, got, lost>>

------------------------------------------------------------------------------
(* Decoding.                                                                *)
Is(p, t) == p \in DOMAIN frame /\ frame[p].t = t

Members == IF Is(2, "q") THEN Known(frame[2].v) ELSE <<>>
NField  == IF kind = "msg" THEN frame[2].v ELSE Len(Members)

(* Heap blocks of a decoded member.                                         *)
Blocks(f) == IF f.array THEN 1 + (IF f.base = "string" THEN Len(f.vals) ELSE 0)
             ELSE IF f.base \in {"string", "blob"} THEN 1 ELSE 0
SumBlocks(fs) == FoldLeft(LAMBDA n, f : n + Blocks(f), 0, fs)

(* data_decode frees what it has by the tag it read last.  Before it has    *)
(* anything it frees a null pointer, by a tag that may never have been set; *)
(* later by the tag of a member, as a structure of that tag if there is one.*)
Owned   == {k \in DOMAIN Members : Members[k].array \/ Members[k].base \in {"string", "blob"}}
LastTag == IF Is(at + 1, "q") THEN frame[at + 1].v
           ELSE IF turn = 1 THEN frame[2].v ELSE got[turn - 1].tag

FreeNull   == /\ IF Is(1, "o") /\ Is(2, "q") THEN st' = IF Owned # {} THEN "crashed" ELSE "failed"
                                             ELSE st' \in {"failed", "crashed"}
              /\ UNCHANGED lost
FreeByLast == IF Known(LastTag) = <<>> THEN st' = "failed" /\ lost' = 1 + SumBlocks(got)
              ELSE st' \in {"failed", "crashed"} /\ lost' \in 0 .. 1 + SumBlocks(got)

Fail == /\ IF kind # "data" THEN st' = "failed" /\ UNCHANGED lost
           ELSE IF turn = 0 THEN FreeNull ELSE FreeByLast
        /\ got' = <<>> /\ UNCHANGED <<at, turn>>

(* What happens when it asks an iterator that it never set.                 *)
Crash == st' = "crashed" /\ got' = <<>> /\ UNCHANGED <<at, turn, lost>>

HeaderOK == /\ Is(1, "o")
            /\ CASE kind = "msg"  -> Is(2, "q")
                 [] kind = "data" -> Members # <<>> /\ Is(3, "q") /\ frame[3].v = Len(Members)
                 [] OTHER         -> Is(2, "a")

(* data_decode reads 16 bits of the number of members into an int it has    *)
(* not set; raw_decode asks the iterator of the array before it sets it.    *)
DecodeStart ==
    /\ st = "sent"
    /\ \/ (~HeaderOK \/ kind # "msg") /\ Fail
       \/ kind = "raw" /\ Is(1, "o") /\ Crash
       \/ HeaderOK /\ kind = "raw" /\ st' = "done" /\ got' = frame[2].v /\ UNCHANGED <<at, turn, lost>>
       \/ /\ HeaderOK /\ kind # "raw" /\ st' = "decode" /\ turn' = 1
          /\ at' = (IF kind = "msg" THEN 2 ELSE 3) /\ UNCHANGED <<got, lost>>
    /\ UNCHANGED <<kind, src, frame>>

(* The value of type ty that starts after argument p: the arguments it      *)
(* takes and its items, or ok |-> FALSE when they are not what they should. *)
Bad == [ok |-> FALSE, n |-> 0, vals |-> <<>>]
TakeArrayShort(ty, p) ==
    IF ~Is(p + 1, "u") \/ ~Is(p + 2, "a") THEN Bad
    ELSE LET n == frame[p + 1].v
         IN  IF n > Len(frame[p + 2].v) THEN Bad
             ELSE [ok |-> TRUE, n |-> 2, vals |-> SubSeq(frame[p + 2].v, 1, n - 1)]

TakeArray(ty, p) ==
    IF ~Is(p + 1, "u") \/ ~Is(p + 2, "a") THEN Bad
    ELSE LET n == frame[p + 1].v
             a == frame[p + 2]
         IN  IF ty.base = "blob" \/ n > Len(a.v)
                \/ (n > 0 /\ a.e # DbusType[ty.base]) THEN Bad
             ELSE [ok |-> TRUE, n |-> 2, vals |-> SubSeq(a.v, 1, n)]

TakeBasic(ty, p) ==
    IF ty.base = "blob"
    THEN IF Is(p + 1, "a") /\ frame[p + 1].e = "y"
         THEN [ok |-> TRUE, n |-> 1, vals |-> frame[p + 1].v] ELSE Bad
    ELSE IF Is(p + 1, DbusType[ty.base]) THEN [ok |-> TRUE, n |-> 1, vals |-> <<frame[p + 1].v>>]
    ELSE Bad

Take(ty, p) == IF ty.array THEN TakeArray(ty, p) ELSE TakeBasic(ty, p)

(* One turn of the loop over the fields.  A structure's member is decoded   *)
(* as the type on the wire says, an array only if it is one; a blob asks an *)
(* iterator that is not set, and what is a string here is copied as one.    *)
FieldTag  == frame[at + 1].v
FieldType == frame[at + 2].v
Ours      == kind = "data" => FieldTag \in DOMAIN Members /\ (FieldType.array => Members[FieldTag].array)
IsString(ty) == ~ty.array /\ ty.base = "string"
CopiedAsString == /\ kind = "data" /\ FieldTag \in DOMAIN Members
                  /\ IsString(Members[FieldTag]) /\ ~IsString(FieldType)

DecodeField ==
    LET header == Is(at + 1, "q") /\ Is(at + 2, "q")
        x == Take(FieldType, at + 2)
        fits == header /\ Ours /\ x.ok
    IN  /\ st = "decode" /\ turn <= NField
        /\ \/ ~fits /\ Fail
           \/ fits /\ ((kind = "data" /\ IsBlob(FieldType)) \/ CopiedAsString) /\ (Fail \/ Crash)
           \/ /\ fits /\ ~CopiedAsString
              /\ got' = Append(got, [tag |-> FieldTag, base |-> FieldType.base,
                                     array |-> FieldType.array, vals |-> x.vals])
              /\ at' = at + 2 + x.n /\ turn' = turn + 1 /\ UNCHANGED <<st, lost>>
        /\ UNCHANGED <<kind, src, frame>>

DecodeDone == /\ st = "decode" /\ turn > NField /\ st' = "done"
              /\ UNCHANGED <<kind, src, frame, at, turn, got, lost>>

CodecNext == \/ \E fs \in Messages : EncodeMsg(fs)
             \/ \E s \in Structures : EncodeData(s)
             \/ \E r \in Foreign : Receive(r.kind, r.args)
             \/ EncodeRaw \/ DecodeStart \/ DecodeField \/ DecodeDone

CodecSpec == CodecInit /\ [][CodecNext]_codecVars

------------------------------------------------------------------------------
(* A message that can be encoded arrives, and is what was sent, wherever    *)
(* its arrays are and whatever their lengths; so does a structure between   *)
(* ends that have the same members, once its header is accepted and unless  *)
(* it has blobs.                                                            *)
Type(f) == [base |-> f.base, array |-> f.array]
Sent == src.fields
Agreed == kind = "data" => Known(src.tag) = [k \in DOMAIN Sent |-> Type(Sent[k])]
BusArrives ==
    src.ours =>
       /\ st \in {"failed", "crashed"} =>
             /\ kind # "msg"
             /\ turn > 0 => (\E k \in DOMAIN Sent : Sent[k].base = "blob") \/ ~Agreed
       /\ st = "done" /\ Agreed => got = Sent

(* Whatever arrives, the client gets all the fields the frame announces or  *)
(* nothing; nothing but a structure is ever lost, and no message takes the  *)
(* daemon down.                                                             *)
BusAllOrNothing ==
    /\ st = "done" /\ kind # "raw" => Len(got) = NField
    /\ st \in {"failed", "crashed"} => got = <<>>
    /\ lost > 0 => kind = "data" /\ st \in {"failed", "crashed"}
    /\ st = "crashed" => kind # "msg"

(* What is put on the bus arrives as it was sent, or nothing does.          *)
BusFramesArrive == BusArrives /\ BusAllOrNothing
==============================================================================
