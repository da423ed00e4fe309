---------------------------- MODULE DbusTransport ----------------------------
(****************************************************************************)
(* The D-Bus transport, common/dbus-transport.c, from the side of one       *)
(* transport: binding, following the peer's name, sending to it, and taking *)
(* only what comes from it, while the peer's name moves from one connection *)
(* to another.                                                              *)
(*                                                                          *)
(* The bus and the rest of the process are external: whatever the bus sends *)
(* us arrives in one order, the answer to the query of a followed name      *)
(* included (DbusNames has the details).  The connection to the bus may be  *)
(* shared with other users, and then outlives the transport.                *)
(****************************************************************************)
EXTENDS Integers, Sequences, SequencesExt, FiniteSets

CONSTANTS Peers,       \* connections of peers: their unique names
          Name,        \* the well-known name they compete for
          Cleared,     \* no address
          MaxEvents,   \* bound on what the bus ever sends
          MaxFollows   \* bound on trackers ever made

ASSUME TransportAssumption == Name \notin Peers /\ Cleared \notin Peers \cup {Name}

VARIABLES holder,      \* bus: who owns Name, or Cleared
          shared,      \* whether others use our connection to the bus
          t,           \* the transport: [dbus, bound, connected, resolved, remote]
          life,        \* "live", "busy" in a callback, "doomed" there, "freed"
          follows,     \* trackers with our callback: a set of [id, name]
          inbox,       \* what the bus has sent
          busSent, nfollow,
          heard,       \* the message being delivered: [from, checked]
          holders,     \* history: who has owned the peer's name since connect
          missed,      \* history: forgot a name it did not follow
          broken       \* an invalid pointer was used: "none", "freed" or "null"

busTransportVars == <<holder, shared, t, life, follows, inbox, busSent, nfollow, heard, holders,
                      missed, broken>>

Silence == [from |-> Cleared, checked |-> FALSE]

TransportInit ==
    /\ holder = Cleared /\ shared \in BOOLEAN /\ life = "live" /\ follows = {} /\ inbox = <<>>
    /\ t = [dbus |-> FALSE, bound |-> FALSE, connected |-> FALSE, resolved |-> FALSE,
            remote |-> Cleared]
    /\ busSent = 0 /\ nfollow = 0 /\ heard = Silence /\ holders = {} /\ missed = FALSE
    /\ broken = "none"

Running    == broken = "none"
UserRuns == Running /\ life \in {"live", "busy"}

(* The owner of a name as the bus sees it.                                  *)
OwnerOf(a) == IF a = Name THEN holder ELSE a
TrackersOf(a) == {f \in follows : f.name = a}

------------------------------------------------------------------------------
(* The bus and the peers.                                                   *)
Deliver(e) == busSent < MaxEvents /\ busSent' = busSent + 1 /\ inbox' = Append(inbox, e)
State(to, o) == [kind |-> "state", from |-> o, to |-> to]

PeerMoves(o) ==
    /\ Running /\ o # holder /\ holder' = o
    /\ IF TrackersOf(Name) # {} THEN Deliver(State({f.id : f \in TrackersOf(Name)}, o))
       ELSE busSent < MaxEvents /\ busSent' = busSent + 1 /\ UNCHANGED inbox
    /\ holders' = IF t.connected /\ t.remote # Cleared THEN holders \cup {o} ELSE holders
    /\ UNCHANGED <<shared, t, life, follows, nfollow, heard, missed, broken>>

PeerSends(p) == /\ Running /\ t.bound /\ Deliver([kind |-> "msg", from |-> p, to |-> {}])
                /\ UNCHANGED <<holder, shared, t, life, follows, nfollow, heard, holders,
                               missed, broken>>

------------------------------------------------------------------------------
(* dbus_bind and dbus_autobind: failing, it gives back the connection it    *)
(* has made itself.                                                         *)
Bound(ok) == IF ok THEN [t EXCEPT !.dbus = TRUE, !.bound = TRUE] ELSE t

Bind(ok) == /\ UserRuns /\ ~t.bound /\ t' = Bound(ok)
            /\ UNCHANGED <<holder, shared, life, follows, inbox, busSent, nfollow, heard, holders,
                           missed, broken>>

(* dbus_connect under mrp_transport_connect; reach: whether the bus can be  *)
(* reached; ok: whether an address can be bound to.                         *)
Connect(a, reach, ok) ==
    /\ UserRuns /\ ~t.connected /\ nfollow < MaxFollows
    /\ IF ~(t.dbus \/ reach) THEN UNCHANGED <<t, follows, inbox, busSent, nfollow, holders>>
       ELSE IF ~(t.bound \/ ok)
            THEN t' = [t EXCEPT !.dbus = TRUE]
                 /\ UNCHANGED <<follows, inbox, busSent, nfollow, holders>>
            ELSE /\ t' = [t EXCEPT !.dbus = TRUE, !.bound = TRUE, !.connected = TRUE, !.remote = a]
                 /\ follows' = follows \cup {[id |-> nfollow + 1, name |-> a]}
                 /\ Deliver(State({nfollow + 1}, OwnerOf(a)))
                 /\ nfollow' = nfollow + 1 /\ holders' = {OwnerOf(a)}
    /\ UNCHANGED <<holder, shared, life, heard, missed, broken>>

(* mrp_dbus_forget_name by the name the transport has by now.               *)
ForgetPeer ==
    LET mine == TrackersOf(t.remote)
    IN  /\ follows' = IF mine = {} THEN follows
                      ELSE follows \ {CHOOSE f \in mine : \A g \in mine : f.id <= g.id}
        /\ missed' = (missed \/ mine = {})

Hangup == IF t.connected /\ t.remote # Cleared THEN ForgetPeer ELSE UNCHANGED <<follows, missed>>

TransportDisconnect ==
    /\ UserRuns /\ t.connected /\ Hangup
    /\ t' = [t EXCEPT !.connected = FALSE, !.resolved = FALSE, !.remote = Cleared]
    /\ heard' = Silence
    /\ UNCHANGED <<holder, shared, life, inbox, busSent, nfollow, holders, broken>>

(* dbus_close: the last user of a connection takes its trackers along.      *)
Close(left) == follows' = IF shared THEN left ELSE {}

(* mrp_transport_destroy: in a callback the rest waits for its return.      *)
Destroy ==
    /\ UserRuns
    /\ IF life = "busy" THEN life' = "doomed" /\ Hangup
       ELSE /\ life' = "freed"
            /\ IF ~shared \/ ~(t.connected /\ t.remote # Cleared)
               THEN Close(follows) /\ UNCHANGED missed ELSE Hangup
    /\ t' = [t EXCEPT !.remote = Cleared, !.resolved = FALSE,
                      !.bound = (@ /\ life = "busy"), !.dbus = (@ /\ life = "busy")]
    /\ UNCHANGED <<holder, shared, inbox, busSent, nfollow, heard, holders, broken>>

------------------------------------------------------------------------------
(* peer_state_cb, for each tracker the news are for.  A peer that is down   *)
(* changes nothing.                                                         *)
PeerUpOnce(o) ==
    t' = (IF t.resolved THEN t ELSE [t EXCEPT !.remote = o, !.resolved = TRUE])
    /\ UNCHANGED broken

PeerUp(o) ==
    IF life = "freed" THEN broken' = "freed" /\ UNCHANGED t
    ELSE IF t.remote = Cleared THEN broken' = "null" /\ UNCHANGED t
    ELSE t' = [t EXCEPT !.remote = o, !.resolved = TRUE] /\ UNCHANGED broken

PeerState ==
    /\ Running /\ life \in {"live", "freed"} /\ inbox # <<>> /\ Head(inbox).kind = "state"
    /\ LET e == Head(inbox)
           mine == {f \in follows : f.id \in e.to}
       IN  IF mine # {} /\ e.from # Cleared THEN PeerUp(e.from) ELSE UNCHANGED <<t, broken>>
    /\ inbox' = Tail(inbox)
    /\ UNCHANGED <<holder, shared, life, follows, busSent, nfollow, heard, holders, missed>>

(* The sender of a message is looked at only by a resolved connection.      *)
Accepts(p) == t.bound /\ (t.connected => ~t.resolved \/ t.remote = p)

Message ==
    /\ Running /\ life \in {"live", "freed"} /\ inbox # <<>> /\ Head(inbox).kind = "msg"
    /\ IF Accepts(Head(inbox).from)
       THEN /\ heard' = [from |-> Head(inbox).from, checked |-> t.connected /\ t.resolved]
            /\ life' = "busy"
       ELSE UNCHANGED <<heard, life>>
    /\ inbox' = Tail(inbox)
    /\ UNCHANGED <<holder, shared, t, follows, busSent, nfollow, holders, missed, broken>>

(* The callback returns; check_destroy does what Destroy put off.           *)
Return ==
    /\ life \in {"busy", "doomed"} /\ heard' = Silence
    /\ IF life = "busy" THEN life' = "live" /\ UNCHANGED <<t, follows>>
       ELSE life' = "freed" /\ Close(follows) /\ t' = [t EXCEPT !.dbus = FALSE, !.bound = FALSE]
    /\ UNCHANGED <<holder, shared, inbox, busSent, nfollow, holders, missed, broken>>

(* dbus_sendmsgto, dbus_senddatato and dbus_sendrawto without a connection  *)
(* to the bus bind the transport first; what is sent is not followed up.    *)
SendTo(ok) == /\ UserRuns /\ ~t.dbus /\ t' = Bound(ok)
              /\ UNCHANGED <<holder, shared, life, follows, inbox, busSent, nfollow, heard, holders,
                             missed, broken>>

TransportNext ==
    \/ \E o \in Peers \cup {Cleared} : PeerMoves(o)
    \/ \E p \in Peers : PeerSends(p)
    \/ \E ok \in BOOLEAN : \/ Bind(ok) \/ SendTo(ok)
                           \/ \E a \in Peers \cup {Name}, reach \in BOOLEAN : Connect(a, reach, ok)
    \/ TransportDisconnect \/ Destroy \/ PeerState \/ Message \/ Return

TransportSpec == TransportInit /\ [][TransportNext]_busTransportVars

------------------------------------------------------------------------------
(* What a connected transport delivers once its peer is resolved comes from *)
(* a connection that has owned the peer's name since it connected, although *)
(* the name moves while messages are on their way.  Until then it delivers  *)
(* what anybody sends, and after a name it failed to forget, what the old   *)
(* peer sends.                                                              *)
HeardFromPeer == heard.checked /\ ~missed => heard.from \in holders

(* When the bus has nothing more for us, a connected transport sends to     *)
(* whoever owns the name of its peer now, if anybody does.                  *)
FollowsPeer ==
    t.connected /\ life = "live" /\ inbox = <<>> /\ holder # Cleared /\ TrackersOf(Name) # {} /\ ~missed
       => t.remote = holder

(* The bus layer calls back no transport that was freed or that has no peer *)
(* any more, unless it was disconnected after its peer was resolved.        *)
ForgottenWithTransport == broken # "none" => missed

(* A transport hears its peer and sends to it, wherever its name moves, and *)
(* is not called back once it is gone.                                      *)
PeerIsFollowed == HeardFromPeer /\ FollowsPeer /\ ForgottenWithTransport
==============================================================================
