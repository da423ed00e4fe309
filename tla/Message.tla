------------------------------- MODULE Message -------------------------------
(****************************************************************************)
(* Generic messages of common/msg.c: building a message field by field, its *)
(* reference count, the growing buffer the default encoder writes, and the  *)
(* default decoder at the other end.                                        *)
(*                                                                          *)
(* A field is a record [tag, base, array, vals].  A string or a blob stands *)
(* for its length, the other values are opaque; a plain field has one value *)
(* in vals.  The wire is a sequence of items [w, v], w bytes wide.  Memory  *)
(* is never exhausted.                                                      *)
(****************************************************************************)
EXTENDS Integers, Sequences, SequencesExt, Functions

CONSTANTS AskedFields, \* the fields a client asks for, ill-typed ones included
          MaxFields,   \* bound on the fields of a message
          MaxRefs      \* bound on the references to a message

VARIABLES msg,      \* msg["sent"], msg["got"]: the fields of the two messages
          refs,     \* their reference counts; 0: no such message
          blocks,   \* heap blocks allocated for messages and not freed
          lost,     \* blocks that nothing points to any more
          stage,    \* what is going on
          mb,       \* the message buffer: what was written, its size, room left
          orig,     \* the message as it was when it was encoded
          counter,  \* the loop counter of the encoder, then of the decoder
          rd        \* the decoder: next item of the wire, bytes left, error

messageVars == <<msg, refs, blocks, lost, stage, mb, orig, counter, rd>>

MSG_MIN_CHUNK == 32
Sized == {"string", "blob"}
Width == [bool |-> 4, u8 |-> 1, u16 |-> 2, u32 |-> 4, u64 |-> 8]
Ends  == {"sent", "got"}

(* What create_field refuses: an unknown type, an array of blobs.           *)
Valid(r) == IF r.array THEN r.base \in {"string"} \cup DOMAIN Width
                       ELSE r.base \in Sized \cup DOMAIN Width

(* Heap blocks of a field: itself, its value, the strings of its array.     *)
FieldBlocks(f) ==
    1 + (IF f.array \/ f.base \in Sized THEN 1 ELSE 0)
      + (IF f.array /\ f.base = "string" THEN Len(f.vals) ELSE 0)

MsgBlocks(fs) == 1 + SumFunction([k \in DOMAIN fs |-> FieldBlocks(fs[k])])

(* A field has its values, one if it is no array; a length is a number.      *)
ASSUME MessageAssumption ==
    \A r \in AskedFields :
        /\ r = [tag |-> r.tag, base |-> r.base, array |-> r.array, vals |-> r.vals]
        /\ r.array \in BOOLEAN /\ r.vals \in Seq(ToSet(r.vals))
        /\ ~r.array => Len(r.vals) = 1
        /\ r.base \in Sized => ToSet(r.vals) \subseteq Nat

MessageInit ==
        /\ msg = [e \in Ends |-> <<>>] /\ refs = [e \in Ends |-> 0]
        /\ blocks = 0 /\ lost = 0 /\ stage = "idle" /\ orig = <<>> /\ counter = 0
        /\ mb = [items |-> <<>>, size |-> 0, l |-> 0]
        /\ rd = [at |-> 0, l |-> 0, err |-> FALSE, val |-> 0]

------------------------------------------------------------------------------
(* Messages and their fields.                                               *)

(* create_field allocates a field, forgets it, and allocates another one.   *)
CreateField(r) == /\ lost' = lost + 1
                  /\ blocks' = IF Valid(r) THEN blocks + FieldBlocks(r) ELSE blocks

(* mrp_msg_create with at most one field; msg_destroy when it is ill-typed. *)
CreateEmpty == /\ blocks' = blocks + 1 /\ UNCHANGED lost
               /\ msg' = [msg EXCEPT !.sent = <<>>]
               /\ refs' = [refs EXCEPT !.sent = 1] /\ stage' = "build"

CreateWith(r) ==
    /\ lost' = lost + 1
    /\ IF Valid(r)
       THEN /\ msg' = [msg EXCEPT !.sent = <<r>>] /\ blocks' = blocks + MsgBlocks(<<r>>)
            /\ refs' = [refs EXCEPT !.sent = 1] /\ stage' = "build"
       ELSE UNCHANGED <<msg, blocks, refs, stage>>

Create == /\ stage = "idle" /\ lost < MaxFields
          /\ CreateEmpty \/ \E r \in AskedFields : CreateWith(r)
          /\ UNCHANGED <<mb, orig, counter, rd>>

Add(r, fs) == /\ stage = "build" /\ refs.sent > 0 /\ lost < MaxFields
              /\ CreateField(r)
              /\ msg' = IF Valid(r) THEN [msg EXCEPT !.sent = fs] ELSE msg
              /\ UNCHANGED <<refs, stage, mb, orig, counter, rd>>

MsgAppend(r)  == Add(r, Append(msg.sent, r))
MsgPrepend(r) == Add(r, <<r>> \o msg.sent)

MsgDestroy(e) == blocks' = blocks - MsgBlocks(msg[e])

(* Nothing is referenced or released while it is encoded or decoded.        *)
AtRest == stage \in {"build", "sent", "done", "failed"}

Ref(e) == /\ AtRest /\ refs[e] \in 1..MaxRefs - 1
          /\ refs' = [refs EXCEPT ![e] = @ + 1]
          /\ UNCHANGED <<msg, blocks, lost, stage, mb, orig, counter, rd>>

Unref(e) == /\ AtRest /\ refs[e] > 0
            /\ refs' = [refs EXCEPT ![e] = @ - 1]
            /\ IF refs[e] = 1 THEN MsgDestroy(e) /\ msg' = [msg EXCEPT ![e] = <<>>]
                              ELSE UNCHANGED <<blocks, msg>>
            /\ UNCHANGED <<lost, stage, mb, orig, counter, rd>>

------------------------------------------------------------------------------
(* The buffer and the default encoder.                                      *)
Item(w, v) == [w |-> w, v |-> v]
Bytes(items) == SumFunction([k \in DOMAIN items |-> items[k].w])

EnsureChunk(b, n) ==
    IF n > b.l THEN [b EXCEPT !.size = @ + MSG_MIN_CHUNK, !.l = @ + MSG_MIN_CHUNK] ELSE b

Ensure(b, n) ==
    LET need == n - b.l
        diff == IF need < MSG_MIN_CHUNK THEN MSG_MIN_CHUNK ELSE need
    IN  IF need > 0 THEN [b EXCEPT !.size = @ + diff, !.l = @ + diff] ELSE b

(* MRP_MSGBUF_PUSH and MRP_MSGBUF_PUSH_DATA; the codec aligns to 1.         *)
Push(b, it) == LET e == Ensure(b, it.w)
               IN  [e EXCEPT !.l = @ - it.w, !.items = Append(@, it)]

PushAll(b, its) ==
    LET pushed[k \in 0 .. Len(its)] == IF k = 0 THEN b ELSE Push(pushed[k - 1], its[k])
    IN  pushed[Len(its)]

(* A string or a blob is its length and then that many bytes.               *)
WireValues(base, vals) ==
    IF base \in Sized
    THEN [k \in 1 .. 2 * Len(vals) |-> LET v == vals[(k + 1) \div 2] IN Item(IF k % 2 = 1 THEN 4 ELSE v, v)]
    ELSE [k \in 1 .. Len(vals) |-> Item(Width[base], vals[k])]

WireField(f) ==
    <<Item(2, f.tag), Item(2, [base |-> f.base, array |-> f.array])>>
    \o (IF f.array THEN <<Item(4, Len(f.vals))>> ELSE <<>>) \o WireValues(f.base, f.vals)

EncodeStart ==
    LET room == 12 * Len(msg.sent) IN
    /\ stage = "build" /\ refs.sent > 0
    /\ stage' = "encode" /\ orig' = msg.sent /\ counter' = 0
    /\ mb' = PushAll([items |-> <<>>, size |-> room, l |-> room],
                     <<Item(2, 0), Item(2, Len(msg.sent))>>)
    /\ UNCHANGED <<msg, refs, blocks, lost, rd>>

EncodeField == /\ stage = "encode" /\ counter < Len(msg.sent)
               /\ mb' = PushAll(mb, WireField(msg.sent[counter + 1]))
               /\ counter' = counter + 1
               /\ UNCHANGED <<msg, refs, blocks, lost, stage, orig, rd>>

EncodeDone == /\ stage = "encode" /\ counter = Len(msg.sent) /\ stage' = "sent"
              /\ UNCHANGED <<msg, refs, blocks, lost, mb, orig, counter, rd>>

------------------------------------------------------------------------------
(* The default decoder, on the frame a transport delivers.                  *)

(* mrp_msgbuf_pull of w bytes; past the end it fails and stays where it is. *)
Pull(r, w) ==
    IF r.err \/ r.l < w THEN [r EXCEPT !.err = TRUE]
    ELSE [r EXCEPT !.at = @ + 1, !.l = @ - w, !.val = mb.items[r.at + 1].v]

PullValue(r, base) == IF base \in Sized THEN LET n == Pull(r, 4) IN Pull(n, n.val)
                                        ELSE Pull(r, Width[base])

(* Reads n values one after the other and collects them.                    *)
PullValues(r, base, n) ==
    LET more(s) == LET p == PullValue(s.r, base) IN [r |-> p, vals |-> Append(s.vals, p.val)]
        pulled[k \in 0 .. n] == IF k = 0 THEN [r |-> r, vals |-> <<>>] ELSE more(pulled[k - 1])
    IN  pulled[n]

(* The transport has taken the type tag off; then the number of fields.     *)
DecodeStart ==
    /\ stage = "sent" /\ refs.got = 0
    /\ rd' = Pull([at |-> 1, l |-> Bytes(mb.items) - 2, err |-> FALSE, val |-> 0], 2)
    /\ counter' = 0 /\ stage' = "decode"
    /\ refs' = [refs EXCEPT !.got = 1] /\ blocks' = blocks + 1
    /\ UNCHANGED <<msg, lost, mb, orig>>

NField == mb.items[2].v

(* What one turn of the loop reads: the header, and the count of an array.  *)
Header == LET t == Pull(rd, 2)
              y == Pull(t, 2)
          IN  [tag |-> t.val, type |-> y.val, r |-> y]

DecodeFail == /\ stage' = "failed" /\ refs' = [refs EXCEPT !.got = 0]
              /\ MsgDestroy("got") /\ msg' = [msg EXCEPT !.got = <<>>]
              /\ UNCHANGED <<lost, mb, orig, counter, rd>>

NoHeader == /\ stage = "decode" /\ counter < NField
            /\ Header.r.err /\ DecodeFail

AppendDecoded(h, s, j) ==
    LET f == [tag |-> h.tag, base |-> h.type.base, array |-> h.type.array,
              vals |-> s.vals]
    IN  IF s.r.err THEN DecodeFail
        ELSE /\ msg' = [msg EXCEPT !.got = Append(@, f)]
             /\ CreateField(f) /\ rd' = s.r /\ counter' = j
             /\ UNCHANGED <<refs, stage, mb, orig>>

DecodeBasic ==
    LET h == Header IN
    /\ stage = "decode" /\ counter < NField /\ ~h.r.err /\ ~h.type.array
    /\ AppendDecoded(h, PullValues(h.r, h.type.base, 1), counter + 1)

(* The loop over the n elements counts with the counter of the outer loop,  *)
(* which goes on from n.                                                    *)
DecodeArray ==
    LET h == Header
        c == Pull(h.r, 4)
    IN  /\ stage = "decode" /\ counter < NField /\ ~h.r.err /\ h.type.array
        /\ AppendDecoded(h, PullValues(c, h.type.base, c.val), c.val + 1)

DecodeDone == /\ stage = "decode" /\ counter >= NField /\ stage' = "done"
              /\ UNCHANGED <<msg, refs, blocks, lost, mb, orig, counter, rd>>

MessageNext == \/ Create \/ EncodeStart \/ EncodeField \/ EncodeDone
        \/ DecodeStart \/ NoHeader \/ DecodeBasic \/ DecodeArray \/ DecodeDone
        \/ \E r \in AskedFields : MsgAppend(r) \/ MsgPrepend(r)
        \/ \E e \in Ends : Ref(e) \/ Unref(e)

MessageSpec == MessageInit /\ [][MessageNext]_messageVars

------------------------------------------------------------------------------
(* The buffer never holds more than was allocated, and the room it believes *)
(* to have left is the room there is, whatever sizes the fields have.       *)
BufferSound == mb.l >= 0 /\ mb.l = mb.size - Bytes(mb.items)

(* A decoded message never has a field that was not sent, nor one out of    *)
(* order: it is always a beginning of what was sent.                        *)
DecodedIsPrefix == refs.got > 0 => IsPrefix(msg.got, orig)

(* A message whose arrays all have as many elements as fields before them   *)
(* (none at all, in particular) is decoded and is what was sent.            *)
Lucky == \A k \in DOMAIN orig : orig[k].array => Len(orig[k].vals) = k - 1
LuckyArrives ==
    Lucky => /\ stage # "failed"
             /\ stage = "done" /\ refs.got > 0 => msg.got = orig

(* Every heap block of a message is freed with it: those left belong to a   *)
(* message somebody still refers to.                                        *)
MessageFreed ==
    LET held(e) == IF refs[e] > 0 THEN MsgBlocks(msg[e]) ELSE 0
    IN  blocks = held("sent") + held("got")

(* The buffer, what is decoded and the blocks of a message are sound.       *)
MessagesAreSound == BufferSound /\ DecodedIsPrefix /\ LuckyArrives /\ MessageFreed
==============================================================================
