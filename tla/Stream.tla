------------------------------- MODULE Stream -------------------------------
(* A connected stream transport: the generic layer of common/transport.c    *)
(* (busy, destroyed, connected) over common/stream-transport.c, which cuts  *)
(* the bytes it reads into messages, with the peer at the other end of the  *)
(* socket.                                                                  *)
(*                                                                          *)
(* The unit is a byte of the stream: <<i, j>> is the j-th byte of message   *)
(* i, which is a header, the size, and a payload.  Encoding is left out: a  *)
(* message is `good' if it decodes once it is cut out at the right place.   *)
(* The socket is non-blocking, the user's calls and callbacks run in the    *)
(* thread of the main loop, and the main loop calls no deleted watch.       *)
EXTENDS Naturals, Sequences, SequencesExt

CONSTANTS HeaderSize,   \* sizeof(uint32_t)
          DefaultSize,  \* DEFAULT_SIZE of the input buffer
          Sizes,        \* payload sizes the peer sends
          MaxMsgs,      \* bound: messages the peer sends
          SocketSize,   \* what the socket holds before a write falls short
          RecvFrom      \* has the user given a recvmsgfrom callback?

ASSUME StreamAssumption ==
  /\ HeaderSize \in Nat \ {0}
  /\ DefaultSize \in Nat /\ DefaultSize > HeaderSize
  /\ \A size \in Sizes : size \in Nat /\ size > 0
  /\ MaxMsgs \in Nat /\ SocketSize \in Nat
  /\ RecvFrom \in BOOLEAN

VARIABLES sent,       \* history: the messages the peer began to send, in order
          whole,      \* history: how many of them it sent to the end
          wire,       \* bytes in the socket
          peerOpen,   \* has the peer not closed its end?
          connected, destroyed, busy, freed,   \* fields of mrp_transport_t
          watch,      \* is there an I/O watch for the socket?
          shut,       \* has our end been shut down or closed?
          isize,      \* size of the input buffer
          ibuf,       \* bytes in the input buffer
          pc,         \* where strm_recv_cb is, "idle" outside of it
          hup,        \* did the event being handled include a hangup?
          got,        \* has this call of strm_recv_cb read anything?
          delivered,  \* history: the messages given to the user, in order
          closed      \* history: how the closed callback was told of the end

peer == <<sent, whole, wire, peerOpen>>
transport == <<connected, destroyed, busy, freed, watch, shut>>
buffer == <<isize, ibuf>>
loop == <<pc, hup, got>>
history == <<delivered, closed>>
vars == <<peer, transport, buffer, loop, history>>
-----------------------------------------------------------------------------
Bytes(i, size) == [j \in 1 .. (HeaderSize + size) |-> <<i, j>>]

\* Every message a stream starts with, as the receiver finds it.
Header(buf) == sent[buf[1][1]]
Whole(buf) ==
  Len(buf) >= HeaderSize /\ Len(buf) >= HeaderSize + Header(buf).size

\* The connection has been accepted, or connect has succeeded.
Init ==
  /\ sent = <<>> /\ whole = 0 /\ wire = <<>> /\ peerOpen = TRUE
  /\ connected = TRUE /\ destroyed = FALSE /\ busy = 0 /\ freed = FALSE
  /\ watch = TRUE /\ shut = FALSE /\ isize = 0 /\ ibuf = <<>>
  /\ pc = "idle" /\ hup = FALSE /\ got = FALSE
  /\ delivered = <<>> /\ closed = "open"
-----------------------------------------------------------------------------
(* The peer.                                                                *)

\* strm_send: writev takes n bytes of the message.  When that is not all of
\* it strm_send fails, and the peer, which cannot go on in the middle of a
\* message, closes.
Send(m, n) ==
  LET all == HeaderSize + m.size IN
  /\ peerOpen /\ ~shut /\ Len(sent) < MaxMsgs
  /\ n <= all /\ Len(wire) + n <= SocketSize
  /\ sent' = Append(sent, m)
  /\ whole' = IF n = all THEN whole + 1 ELSE whole
  /\ wire' = wire \o SubSeq(Bytes(Len(sent) + 1, m.size), 1, n)
  /\ peerOpen' = (n = all)
  /\ UNCHANGED <<transport, buffer, loop, history>>

PeerClose ==
  /\ peerOpen
  /\ peerOpen' = FALSE
  /\ UNCHANGED <<sent, whole, wire, transport, buffer, loop, history>>

Messages == [size : Sizes, good : BOOLEAN]

Peer == PeerClose \/ \E m \in Messages, n \in 0 .. SocketSize : Send(m, n)
-----------------------------------------------------------------------------
(* The user's calls, between events or from the callbacks.                  *)

InCallback == pc \in {"received", "closing"}
UserMay == ~freed /\ ~destroyed /\ (pc = "idle" \/ InCallback)

\* purge_destroyed, given the fields as the caller leaves them.
PurgeFreesBusy(isDestroyed, isBusy) ==     \* mutant: does not look at busy
  freed' = (freed \/ isDestroyed)

Purge(isDestroyed, isBusy) == freed' = (freed \/ (isDestroyed /\ isBusy = 0))

\* mrp_transport_disconnect and strm_disconnect.
Disconnect ==
  /\ UserMay
  /\ connected
  /\ watch' = FALSE
  /\ shut' = TRUE
  /\ connected' = FALSE
  /\ UNCHANGED <<peer, destroyed, busy, freed, buffer, loop, history>>

\* mrp_transport_destroy, strm_disconnect and strm_close.
Destroy ==
  /\ UserMay
  /\ destroyed' = TRUE
  /\ watch' = FALSE
  /\ shut' = TRUE
  /\ isize' = 0 /\ ibuf' = <<>>
  /\ Purge(TRUE, busy)
  /\ UNCHANGED <<peer, connected, busy, loop, history>>

User == Disconnect \/ Destroy
-----------------------------------------------------------------------------
(* strm_recv_cb.                                                            *)

\* The main loop calls it when there are bytes, or the end, to be read.
Event ==
  /\ pc = "idle" /\ watch
  /\ wire # <<>> \/ ~peerOpen
  /\ hup' = ~peerOpen
  /\ got' = FALSE
  /\ pc' = "space"
  /\ UNCHANGED <<peer, transport, buffer, history>>

\* A full buffer is enlarged to hold the message it starts with.
EnlargeByPayload ==     \* mutant: forgets the header
  /\ pc = "space"
  /\ isize' = IF Len(ibuf) < isize THEN isize
              ELSE IF isize > HeaderSize THEN Header(ibuf).size
              ELSE DefaultSize
  /\ pc' = "read"
  /\ UNCHANGED <<peer, transport, ibuf, hup, got, history>>

Enlarge ==
  /\ pc = "space"
  /\ isize' = IF Len(ibuf) < isize THEN isize
              ELSE IF isize > HeaderSize THEN HeaderSize + Header(ibuf).size
              ELSE DefaultSize
  /\ pc' = "read"
  /\ UNCHANGED <<peer, transport, ibuf, hup, got, history>>

\* read returns n bytes, as many as there is room for.
Read(n) ==
  /\ pc = "read"
  /\ n <= isize - Len(ibuf) /\ n <= Len(wire)
  /\ ibuf' = ibuf \o SubSeq(wire, 1, n)
  /\ wire' = SubSeq(wire, n + 1, Len(wire))
  /\ got' = TRUE
  /\ pc' = "parse"
  /\ UNCHANGED <<sent, whole, peerOpen, transport, isize, hup, history>>

\* read returns 0 or fails with EAGAIN, which it may as long as more bytes
\* are on their way.  Only the event tells a hangup.
HangupFirst ==     \* mutant: a hangup is handled before what can be read
  /\ pc = "read"
  /\ wire = <<>> \/ got \/ hup
  /\ pc' = IF hup THEN "hangup" ELSE "idle"
  /\ UNCHANGED <<peer, transport, buffer, hup, got, history>>

NothingToRead ==
  /\ pc = "read"
  /\ wire = <<>> \/ (got /\ ~hup)
  /\ pc' = IF hup THEN "hangup" ELSE "idle"
  /\ UNCHANGED <<peer, transport, buffer, hup, got, history>>

\* The connection was reset: bytes on their way are never read.
ReadFails ==
  /\ pc = "read" /\ ~peerOpen
  /\ pc' = "ioerror"
  /\ UNCHANGED <<peer, transport, buffer, hup, got, history>>

\* recv_data decodes the message at the start of the buffer and gives it to
\* the user.  A transport that is not connected any more goes by recvmsgfrom.
Deliver ==
  /\ pc = "parse" /\ Whole(ibuf) /\ Header(ibuf).good
  /\ pc' = IF connected \/ RecvFrom THEN "received" ELSE "broken"
  /\ busy' = busy + 1
  /\ delivered' = Append(delivered, ibuf[1][1])
  /\ UNCHANGED <<peer, connected, destroyed, freed, watch, shut, buffer, hup, got, closed>>

Undecodable ==
  /\ pc = "parse" /\ Whole(ibuf) /\ ~Header(ibuf).good
  /\ pc' = "undecodable"
  /\ UNCHANGED <<peer, transport, buffer, hup, got, history>>

\* The rest of the buffer is moved to its start, unless the callback has
\* destroyed the transport.
ReceivedKeepsHeader ==     \* mutant: memmove starts after the payload's size
  /\ pc = "received"
  /\ busy' = busy - 1
  /\ Purge(destroyed, busy - 1)
  /\ ibuf' = IF destroyed THEN ibuf
             ELSE SubSeq(ibuf, Header(ibuf).size + 1, Len(ibuf))
  /\ pc' = IF destroyed THEN "idle" ELSE "parse"
  /\ UNCHANGED <<peer, connected, destroyed, watch, shut, isize, hup, got, history>>

Received ==
  /\ pc = "received"
  /\ busy' = busy - 1
  /\ Purge(destroyed, busy - 1)
  /\ ibuf' = IF destroyed THEN ibuf
             ELSE SubSeq(ibuf, HeaderSize + Header(ibuf).size + 1, Len(ibuf))
  /\ pc' = IF destroyed THEN "idle" ELSE "parse"
  /\ UNCHANGED <<peer, connected, destroyed, watch, shut, isize, hup, got, history>>

\* No whole message is left: back to read, by way of realloc if it is full.
Parsed ==
  /\ pc = "parse" /\ ~Whole(ibuf)
  /\ pc' = IF Len(ibuf) = isize THEN "space" ELSE "read"
  /\ UNCHANGED <<peer, transport, buffer, hup, got, history>>

\* The ways a stream ends: a hangup, a read that fails, a message that does
\* not decode.
Reasons == {"hangup", "ioerror", "undecodable"}

\* closed and fatal_error: strm_disconnect, and the closed callback is called.
CloseKeepsWatch ==     \* mutant: does not disconnect
  /\ pc \in Reasons
  /\ busy' = busy + 1
  /\ closed' = pc
  /\ pc' = "closing"
  /\ UNCHANGED <<peer, connected, destroyed, freed, watch, shut, buffer, hup, got, delivered>>

Close ==
  /\ pc \in Reasons
  /\ watch' = (watch /\ ~connected)
  /\ shut' = (shut \/ connected)
  /\ busy' = busy + 1
  /\ closed' = pc
  /\ pc' = "closing"
  /\ UNCHANGED <<peer, connected, destroyed, freed, buffer, hup, got, delivered>>

ClosedReturns ==
  /\ pc = "closing"
  /\ busy' = busy - 1
  /\ Purge(destroyed, busy - 1)
  /\ pc' = "idle"
  /\ UNCHANGED <<peer, connected, destroyed, watch, shut, buffer, hup, got, history>>

Receive ==
  \/ Event \/ Enlarge \/ NothingToRead \/ ReadFails
  \/ \E n \in 1 .. SocketSize : Read(n)
  \/ Deliver \/ Undecodable \/ Received \/ Parsed
  \/ Close \/ ClosedReturns

Next == Peer \/ User \/ Receive

Spec == Init /\ [][Next]_vars

\* The main loop reports what its watch is told and callbacks return.
FairSpec == Spec /\ WF_vars(Receive)
-----------------------------------------------------------------------------
\* Every variable has its type.
TypeOK ==
  /\ sent \in Seq(Messages) /\ whole \in 0 .. Len(sent)
  /\ \A b \in Range(wire) \union Range(ibuf) :
       b[1] \in DOMAIN sent /\ b[2] \in 1 .. (HeaderSize + sent[b[1]].size)
  /\ Len(wire) <= SocketSize /\ Len(ibuf) <= isize
  /\ {peerOpen, connected, destroyed, freed, watch, shut, hup, got} \subseteq BOOLEAN
  /\ busy \in Nat /\ closed \in Reasons \union {"open"}
  /\ pc \in {"idle", "space", "read", "parse", "received", "closing", "broken"} \union Reasons
  /\ \A k \in DOMAIN delivered : delivered[k] \in DOMAIN sent

\* The messages taken out of the stream: the message being received is still
\* in the input buffer.
Taken == Len(delivered) - (IF pc \in {"received", "broken"} THEN 1 ELSE 0)

Rest == ibuf \o wire

\* The byte that follows b in the stream.
After(b) ==
  IF b[2] < HeaderSize + sent[b[1]].size THEN <<b[1], b[2] + 1>> ELSE <<b[1] + 1, 1>>

\* The user is given the messages the peer sent, each once and in order, and
\* what is in the input buffer and in the socket is the rest of the stream
\* without a gap, however the reads cut it (the parse loop of strm_recv_cb).
NothingLostOrReordered ==
  /\ \A k \in DOMAIN delivered : delivered[k] = k /\ k <= whole /\ sent[k].good
  /\ ~destroyed =>
       /\ Rest # <<>> => Rest[1] = <<Taken + 1, 1>>
       /\ \A j \in 1 .. (Len(Rest) - 1) : Rest[j + 1] = After(Rest[j])
       /\ whole = Len(sent) =>
            IF Rest = <<>> THEN Taken = whole
            ELSE After(Rest[Len(Rest)]) = <<whole + 1, 1>>

\* A destroyed transport is freed, and it is freed only when neither the
\* receive loop nor a watch can use it any more (mrp_transport_destroy,
\* check_destroy and MRP_TRANSPORT_BUSY).
FreedOnceUnused ==
  /\ freed <=> destroyed /\ pc = "idle"
  /\ freed => ~watch /\ busy = 0

\* A user who is told that the peer hung up has received every whole message
\* the peer sent, and one who is told of a message that does not decode has
\* received those before it (the closed label of strm_recv_cb).
ClosedAfterLast ==
  /\ closed = "hangup" => Len(delivered) = whole
  /\ closed = "undecodable" => /\ Len(delivered) < whole
                               /\ ~sent[Len(delivered) + 1].good

\* After the closed callback neither it nor a receive callback is called
\* again, whatever the user does with the transport (strm_recv_cb).
QuietAfterClosed ==
  [][closed # "open" => UNCHANGED history]_vars

\* A message sent to the end is delivered unless our end was closed
\* before: the reads never wait for an event that does not come and the
\* buffer is always large enough for the message it starts with.
MessageArrives ==
  \A i \in 1 .. MaxMsgs : whole >= i ~> (Len(delivered) >= i \/ shut)

\* The transport is sound: every byte it holds is one of a message, its
\* buffer never overflows, and it is freed when and only when nothing uses it.
TransportSound == TypeOK /\ FreedOnceUnused
=============================================================================
