-------------------------------- MODULE Dgram ---------------------------------
(* Transports over datagrams: the generic layer of common/transport.c, with *)
(* its counting of operations and callbacks under way, over the backend of  *)
(* common/dgram-transport.c and a socket of the kernel.                     *)
(*                                                                          *)
(* A datagram is good, undecodable, of a size that is not the one it states *)
(* or too short to state one.  Sockets open, bind and connect as asked, the *)
(* client binds once and first, connects only if it has a recvmsg callback  *)
(* and does not use a transport it destroyed.                               *)
EXTENDS Integers, Sequences, FiniteSets

CONSTANTS DgramPeers,   \* who sends datagrams
          MaxDgrams,    \* bound on the datagrams that arrive
          MaxCalls      \* bound on the client's calls

Forms == {"good", "undecodable", "mismatch", "short"}

VARIABLES t,        \* [there, connected, busy, destroyed], mrp_transport_t
          sock,     \* whether the socket is open, and its watch with it
          kernel,   \* the peers the socket is connected to: at most one
          peer,     \* history: the peers mrp_transport_connect was last given
          inbox,    \* what the socket has received: [id, from, form]
          hearing,  \* the callback that runs: [cb, id, from], cb "none" for none
          arrived,
          calls,
          heard,    \* history: what callbacks ran, in order
          early,    \* history: ids that came before the socket was connected
          broken    \* history: an error has disconnected the socket, not the transport

dgramVars == <<t, sock, kernel, peer, inbox, hearing, arrived, calls, heard, early, broken>>
Quiet == [cb |-> "none", id |-> 0, from |-> {}]

DgramInit == /\ t = [there |-> TRUE, connected |-> FALSE, busy |-> 0, destroyed |-> FALSE]
             /\ sock = FALSE /\ kernel = {} /\ peer = {} /\ inbox = <<>> /\ hearing = Quiet
             /\ arrived = 0 /\ calls = 0 /\ heard = <<>> /\ early = {} /\ broken = FALSE

(* External: a datagram arrives; the kernel drops those of other peers.     *)
Arrive(from, form) ==
    /\ sock /\ arrived < MaxDgrams /\ arrived' = arrived + 1
    /\ IF kernel \subseteq {from}
       THEN inbox' = Append(inbox, [id |-> arrived + 1, from |-> from, form |-> form])
       ELSE UNCHANGED inbox
    /\ early' = IF kernel = {} THEN early \cup {arrived + 1} ELSE early
    /\ UNCHANGED <<t, sock, kernel, peer, hearing, calls, heard, broken>>

------------------------------------------------------------------------------
(* Calls of the client, when nothing runs or from within a callback.        *)
MayCall == t.there /\ ~t.destroyed /\ calls < MaxCalls /\ calls' = calls + 1

PurgeBusy(u) == t' = [u EXCEPT !.there = ~u.destroyed]

(* purge_destroyed, with busy as it is after the operation.                 *)
PurgeDestroyed(u) == t' = [u EXCEPT !.there = ~(u.destroyed /\ u.busy = 0)]

(* mrp_transport_bind: dgrm_bind opens the socket.                          *)
Bind == /\ MayCall /\ ~sock /\ ~t.connected /\ sock' = TRUE
        /\ UNCHANGED <<t, kernel, peer, inbox, hearing, arrived, heard, early, broken>>

(* mrp_transport_connect: dgrm_connect opens a socket if there is none.     *)
Connect(p) == /\ MayCall /\ ~t.connected
              /\ sock' = TRUE /\ kernel' = {p} /\ peer' = {p}
              /\ PurgeDestroyed([t EXCEPT !.connected = TRUE])
              /\ early' = early \cup {inbox[i].id : i \in DOMAIN inbox}
              /\ UNCHANGED <<inbox, hearing, arrived, heard, broken>>

(* mrp_transport_disconnect, dgrm_disconnect                                *)
Disconnect == /\ MayCall /\ t.connected
              /\ kernel' = {} /\ peer' = {} /\ broken' = FALSE
              /\ PurgeDestroyed([t EXCEPT !.connected = FALSE])
              /\ UNCHANGED <<sock, inbox, hearing, arrived, heard, early>>

(* mrp_transport_destroy: the backend is disconnected and closed at once,   *)
(* the transport freed when nothing of it is busy.                          *)
Destroy == /\ MayCall
           /\ sock' = FALSE /\ kernel' = {} /\ inbox' = <<>>
           /\ PurgeDestroyed([t EXCEPT !.destroyed = TRUE])
           /\ UNCHANGED <<peer, hearing, arrived, heard, early, broken>>

(* mrp_transport_sendto and its like: a socket is opened if there is none;  *)
(* mrp_transport_send sends nothing on a transport that is not connected.   *)
SendTo == /\ MayCall /\ ~sock /\ sock' = TRUE
          /\ PurgeDestroyed(t)
          /\ UNCHANGED <<kernel, peer, inbox, hearing, arrived, heard, early, broken>>

------------------------------------------------------------------------------
(* dgrm_recv_cb                                                             *)
Callback(cb, d) == /\ hearing' = [cb |-> cb, id |-> d.id, from |-> {d.from}]
                   /\ t' = [t EXCEPT !.busy = @ + 1]
                   /\ heard' = Append(heard, [cb |-> cb, id |-> d.id, from |-> {d.from}, peer |-> peer])

(* fatal_error: the socket is disconnected, the transport is not; a client  *)
(* that has a closed callback is told.                                      *)
Closed(d, told) == /\ kernel' = IF t.connected THEN {} ELSE kernel
                   /\ broken' = (broken \/ t.connected)
                   /\ IF told THEN Callback("closed", d) ELSE UNCHANGED <<t, hearing, heard>>

(* A datagram that is too short is looked at and left where it is.          *)
Fails == /\ t.there /\ sock /\ hearing = Quiet /\ inbox # <<>>
         /\ LET d == inbox[1]
            IN  /\ d.form # "good"
                /\ inbox' = IF d.form = "short" THEN inbox ELSE Tail(inbox)
                /\ \E told \in BOOLEAN : Closed(d, told)
         /\ Len(heard) < 2 * MaxDgrams     \* the bound for those that are left
         /\ UNCHANGED <<sock, peer, arrived, calls, early>>

(* recv_data: recvmsg on a connected transport, recvmsgfrom on another.     *)
Receives == /\ t.there /\ sock /\ hearing = Quiet /\ inbox # <<>>
            /\ inbox[1].form = "good" /\ inbox' = Tail(inbox)
            /\ Callback(IF t.connected THEN "recvmsg" ELSE "recvmsgfrom", inbox[1])
            /\ UNCHANGED <<sock, kernel, peer, arrived, calls, early, broken>>

(* The callback returns; check_destroy.                                     *)
Returns == /\ hearing # Quiet /\ hearing' = Quiet
           /\ PurgeDestroyed([t EXCEPT !.busy = @ - 1])
           /\ UNCHANGED <<sock, kernel, peer, inbox, arrived, calls, heard, early, broken>>

DgramNext == \/ \E p \in DgramPeers, f \in Forms : Arrive(p, f)
             \/ Bind \/ (\E p \in DgramPeers : Connect(p)) \/ Disconnect \/ Destroy \/ SendTo
             \/ Fails \/ Receives \/ Returns

DgramSpec == DgramInit /\ [][DgramNext]_dgramVars

------------------------------------------------------------------------------
(* Messages are heard in the order they came and once each; a connected     *)
(* transport hears its peer only, but for what came before it connected or  *)
(* after an error had disconnected its socket; and the transport is freed   *)
(* when it is destroyed and idle, never under a callback, its socket with   *)
(* it (mrp_transport_connect, mrp_transport_destroy, dgrm_recv_cb).         *)
DatagramsAreHeard ==
    /\ \A i, j \in DOMAIN heard : i < j /\ heard[j].cb # "closed" => heard[i].id < heard[j].id
    /\ \A i \in DOMAIN heard : heard[i].cb = "recvmsg" /\ heard[i].from # heard[i].peer => heard[i].id \in early
    /\ t.there <=> ~(t.destroyed /\ hearing = Quiet)
    /\ t.destroyed => ~sock
    /\ t.there /\ ~broken => kernel = peer \/ t.destroyed
==============================================================================
