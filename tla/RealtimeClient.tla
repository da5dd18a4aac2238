--------------------------- MODULE RealtimeClient ---------------------------
(***************************************************************************)
(* The two push clients of instagrapi: RealtimeClient (realtime/client.py) *)
(* and FbnsClient (realtime/fbns.py), their SocketMQTToTTransport          *)
(* (realtime/mqttot.py) and the mixin that keeps one of each               *)
(* (mixins/realtime.py).  They run the same protocol, so kind says which   *)
(* of the two this is, and what differs is a guard on it.                  *)
(*                                                                         *)
(* One thread makes the calls, one at a time; call is the method that runs *)
(* and pc where it stands.  A disconnect may begin at any time, in a       *)
(* handler or in another thread, and its steps come between those of the   *)
(* call; closing is where it stands.                                       *)
(* The broker answers what it was sent in its own order, and delivers      *)
(* messages when it likes.                                                 *)
(***************************************************************************)
EXTENDS Naturals, Sequences, FiniteSets, Functions

CONSTANTS
  PingPackets,      \* max_packets of ping, 5 in the code
  RegisterPackets,  \* max_packets of register_token, 10 in the code
  MaxId,            \* the largest packet id "!H" packs, 65535 in the code
  MaxHandlers,      \* bound: handlers that see a message
  MaxWire,          \* bound: packets on the way to the client
  BrokerIds         \* bound: ids the broker numbers its messages with

ASSUME RealtimeAssumption ==
  /\ {PingPackets, RegisterPackets, MaxId, MaxHandlers, MaxWire} \subseteq Nat \ {0}
  /\ BrokerIds \subseteq Nat

VARIABLES
  kind,       \* "realtime" or "fbns"
  client,     \* the mixin holds a client
  connected,  \* its attribute
  handlers,   \* how many handlers a message meets
  packetId,   \* _packet_id; MaxId + 1 stands for every larger value
  sock,       \* the transport has a socket
  cut,        \* the next byte of the stream is inside a packet
  partial,    \* bytes recv_packet has read of the packet it is at, modulo 2
  call, pc, left, pkt,
  closing,    \* the next step of the disconnect that is under way, or "none"
  up,         \* broker: the connection of the socket still stands
  wire,       \* broker: packets on the way to the client
  owes,       \* broker: answers it has still to send
  unacked,    \* broker: ids of delivered messages the client has not acknowledged
  ours,       \* broker: ids of received publishes (and SUBSCRIBE) it has not acknowledged
  session,    \* history, of FbnsClient: what became of its last CONNECT, see Sessions
  handled,    \* history: QoS 1 messages every handler of which has returned
  clash       \* history: a publish went out with the id of an unacknowledged one

object == <<connected, handlers, packetId>>
reading == <<cut, partial>>
running == <<call, pc, left, pkt>>
broker == <<up, wire, owes, unacked, ours>>
history == <<session, handled, clash>>
vars == <<kind, client, object, sock, reading, running, closing, broker, history>>

\* CONNECT is not answered, and the client was connected before it or not; it was
\* accepted; it was accepted and its socket closed before connect had ended; a call
\* saw the connection fail.
Sessions == {"new", "again", "accepted", "undercut", "broken"}

Packet(type, body, qos, id) == [type |-> type, body |-> body, qos |-> qos, id |-> id]
Plain(type) == Packet(type, "none", 0, 0)

Replies == {"token", "error"}   \* what a REG_RESPONSE holds; error: or no token
Publishes == {Packet("publish", b, 1, i) : b \in {"message"} \cup Replies, i \in BrokerIds}
             \cup {Packet("publish", "message", 0, 0)}
Packets == Publishes \cup {Plain(t) : t \in {"connack", "refused", "pingresp", "ack", "noise"}}

Calls == {"none", "connect", "register", "read", "ping"}

TypeOK ==
  /\ kind \in {"realtime", "fbns"} /\ client \in BOOLEAN /\ connected \in BOOLEAN
  /\ handlers \in 0..MaxHandlers /\ packetId \in 0..(MaxId + 1)
  /\ sock \in BOOLEAN /\ cut \in BOOLEAN /\ partial \in 0..1
  /\ call \in Calls /\ pc \in {"idle", "recv", "emit", "ack", "auth", "subscribe", "request", "push"}
  /\ left \in 0..(PingPackets + RegisterPackets)
  /\ pkt \in [packet : Packets, todo : 0..MaxHandlers, first : BOOLEAN]
  /\ closing \in {"none", "close", "note", "forget"}
  /\ up \in BOOLEAN /\ wire \in Seq(Packets) /\ Len(wire) <= MaxWire
  /\ owes \subseteq {"connack", "pingresp", "reg"}
  /\ unacked \subseteq BrokerIds /\ ours \subseteq 1..MaxId
  /\ session \in Sessions /\ handled \subseteq BrokerIds /\ clash \in BOOLEAN

None == [packet |-> Plain("noise"), todo |-> 0, first |-> FALSE]

Init ==
  /\ kind \in {"realtime", "fbns"}
  /\ client = FALSE /\ connected = FALSE /\ handlers = 0 /\ packetId = 0
  /\ sock = FALSE /\ cut = FALSE /\ partial = 0 /\ closing = "none"
  /\ call = "none" /\ pc = "idle" /\ left = 0 /\ pkt = None
  /\ up = FALSE /\ wire = <<>> /\ owes = {} /\ unacked = {} /\ ours = {}
  /\ session = "new" /\ handled = {} /\ clash = FALSE

-------------------------------------------------------------------------------
(* Sending.                                                                  *)

\* sendall raises without a socket, and may on a connection that is down.
MaySend == sock
MayFailToSend == ~sock \/ ~up

\* Mutated form: no call notes it.
BreakUnnoted == connected' = connected

\* FbnsClient._send and _recv_packet: an error that is not a timeout means the
\* connection is gone.  RealtimeClient has no such wrapper.
NotedBreak == connected' = (connected /\ kind # "fbns")
Breaks == NotedBreak /\ session' = IF kind = "fbns" THEN "broken" ELSE session

\* The call returns or raises: what it answers is not told apart.
CallEnds == call' = "none" /\ pc' = "idle" /\ pkt' = None /\ left' = 0

SendRaises ==
  /\ MayFailToSend
  /\ Breaks /\ CallEnds

\* _packet_id += 1; write_publish_packet raises for what "!H" cannot pack.
NextId == packetId' = IF packetId > MaxId THEN packetId ELSE packetId + 1
IdFits == packetId' <= MaxId

\* A QoS 1 publish, at any place of a call; the broker owes an acknowledgement.
PublishSent ==
  /\ NextId /\ IdFits /\ MaySend
  /\ ours' = IF up THEN ours \cup {packetId'} ELSE ours
  /\ clash' = (clash \/ packetId' \in ours)

\* The id is taken before the packet is built and sent.
PublishRaises ==
  /\ NextId
  /\ IF IdFits THEN MayFailToSend /\ Breaks
               ELSE UNCHANGED <<connected, session>>
  /\ CallEnds

-------------------------------------------------------------------------------
(* Receiving.                                                                *)

\* recv_packet returns the next packet of the stream.
Arrives(p) ==
  /\ sock /\ ~cut /\ wire # <<>> /\ p = Head(wire)
  /\ wire' = Tail(wire) /\ partial' = 0 /\ UNCHANGED cut

\* A byte more of a packet has come and does not end it: every wait has the socket's
\* timeout to itself, and bytes of a length may go on for ever.
Trickle ==
  /\ pc = "recv" /\ sock /\ up /\ wire # <<>>
  /\ partial' = 1 - partial
  /\ UNCHANGED <<kind, closing, client, object, sock, cut, running, broker, history>>

\* Behind a read that gave up inside a packet the rest of that packet is read as
\* a packet of its own: it may decode to anything.
Misread(p) ==
  /\ sock /\ cut
  /\ p \in {Plain("noise")} \cup {q \in Publishes : q.body = "message"}
  /\ wire' \in {wire, <<>>} /\ partial' = 0 /\ UNCHANGED cut

\* recv_packet or decode_packet raises: no socket; the peer has closed; nothing
\* for the socket's timeout, which drops what was read of a packet; bytes that
\* are no packet.
RecvFails ==
  /\ pc = "recv" /\ partial' = 0
  /\ \/ /\ ~sock \/ (~up /\ wire = <<>>)
        /\ Breaks /\ CallEnds
        /\ UNCHANGED <<cut, wire>>
     \/ /\ sock /\ up /\ wire = <<>> /\ CallEnds
        /\ UNCHANGED <<cut, wire, connected, session>>
     \/ /\ sock /\ wire # <<>> /\ CallEnds
        /\ cut' = TRUE /\ wire' = Tail(wire) /\ UNCHANGED <<connected, session>>
     \/ /\ sock /\ cut /\ CallEnds
        /\ wire' \in {wire, <<>>} /\ UNCHANGED <<cut, connected, session>>
  /\ UNCHANGED <<kind, closing, client, handlers, packetId, sock, up, owes, unacked, ours,
                 handled, clash>>

\* Mutated form: every message is acknowledged before its handlers run.
DispatchLate(p, first) ==
  /\ pkt' = [packet |-> p, todo |-> handlers, first |-> first]
  /\ pc' = "ack"
  /\ UNCHANGED <<call, left>>

\* dispatch_packet: the handlers of every event the packet gives rise to run in
\* turn.  first: register_token acknowledges a REG_RESPONSE before its handlers.
Dispatch(p, first) ==
  /\ pkt' = [packet |-> p, todo |-> handlers, first |-> first]
  /\ pc' = IF first THEN "ack" ELSE "emit"
  /\ UNCHANGED <<call, left>>

\* Mutated form: packets are not counted.
KeepsReadingUncounted == pc' = "recv" /\ pkt' = None /\ UNCHANGED <<call, left>>

KeepsReading == pc' = "recv" /\ left' = left - 1 /\ pkt' = None /\ UNCHANGED call

\* read_once.
ReadOne(p) ==
  /\ call = "read"
  /\ IF p.type = "publish" THEN Dispatch(p, FALSE) ELSE CallEnds

\* ping: PINGRESP makes it answer True, any other packet but a PUBLISH False.
PingReads(p) ==
  /\ call = "ping"
  /\ IF p.type = "publish" THEN Dispatch(p, FALSE) ELSE CallEnds

\* Mutated form: a packet that is skipped is counted, but never the last.
RegisterReadsForEver(p) ==
  /\ call = "register"
  /\ IF p.type = "publish" THEN Dispatch(p, p.body \in Replies) ELSE KeepsReading

\* register_token: other packets are skipped, other messages dispatched.
RegisterReads(p) ==
  /\ call = "register"
  /\ IF p.type = "publish" THEN Dispatch(p, p.body \in Replies)
     ELSE IF left > 1 THEN KeepsReading ELSE CallEnds

Reads ==
  /\ pc = "recv" /\ call # "connect"
  /\ \E p \in Packets : (Arrives(p) \/ Misread(p)) /\ (ReadOne(p) \/ PingReads(p) \/ RegisterReads(p))
  /\ UNCHANGED <<kind, closing, client, object, sock, up, owes, unacked, ours, history>>

-------------------------------------------------------------------------------
(* Handlers, and the acknowledgement behind them.                            *)

HandlerReturns ==
  /\ pc = "emit" /\ pkt.todo > 0
  /\ pkt' = [pkt EXCEPT !.todo = @ - 1]
  /\ UNCHANGED <<kind, closing, client, object, sock, reading, call, pc, left, broker, history>>

\* What a handler raises leaves the call, the other handlers and the
\* acknowledgement behind.
HandlerRaises ==
  /\ pc = "emit" /\ pkt.todo > 0
  /\ CallEnds
  /\ UNCHANGED <<kind, closing, client, object, sock, reading, broker, history>>

\* A handler may publish, or disconnect, and then return.
HandlerPublishes ==
  /\ pc = "emit" /\ pkt.todo > 0
  /\ \/ PublishSent /\ pkt' = [pkt EXCEPT !.todo = @ - 1]
        /\ UNCHANGED <<connected, session, call, pc, left>>
     \/ PublishRaises /\ UNCHANGED <<ours, clash>>
  /\ UNCHANGED <<kind, closing, client, handlers, sock, reading, up, wire, owes, unacked, handled>>

\* The last handler has returned.
Emitted ==
  /\ pc = "emit" /\ pkt.todo = 0
  /\ handled' = IF pkt.packet.qos = 1 THEN handled \cup {pkt.packet.id} ELSE handled
  /\ CASE ~pkt.first -> pc' = "ack" /\ UNCHANGED <<call, left, pkt>>
       [] pkt.first /\ pkt.packet.body = "token" -> pc' = "push" /\ UNCHANGED <<call, left, pkt>>
       [] OTHER -> CallEnds
  /\ UNCHANGED <<kind, closing, client, object, sock, reading, broker, session, clash>>

\* Behind the acknowledgement: the end of read_once, the next packet of a loop or
\* its end, or the handlers of a REG_RESPONSE.
AfterAck ==
  CASE pkt.first -> pc' = "emit" /\ UNCHANGED <<call, left, pkt>>
    [] ~pkt.first /\ call # "read" /\ left > 1 -> KeepsReading
    [] OTHER -> CallEnds

Ack ==
  /\ pc = "ack"
  /\ \/ /\ pkt.packet.qos = 0 /\ AfterAck
        /\ UNCHANGED <<unacked, connected, session>>
     \/ /\ pkt.packet.qos = 1 /\ MaySend /\ AfterAck
        /\ unacked' = IF up THEN unacked \ {pkt.packet.id} ELSE unacked
        /\ UNCHANGED <<connected, session>>
     \/ /\ pkt.packet.qos = 1 /\ SendRaises /\ UNCHANGED unacked
  /\ UNCHANGED <<kind, closing, client, handlers, packetId, sock, reading, up, wire, owes, ours,
                 handled, clash>>

-------------------------------------------------------------------------------
(* connect.                                                                  *)

Begin(c, place, packets) ==
  /\ call' = c /\ pc' = place /\ left' = packets /\ pkt' = None

\* A new connection starts with an empty stream; nothing closes the old socket.
Opens ==
  /\ sock' = TRUE /\ cut' = FALSE /\ up' = TRUE /\ wire' = <<>>
  /\ unacked' = {} /\ ours' = {} /\ handled' = {}

\* The transport has no socket.
NoConnection ==
  /\ sock' = FALSE /\ cut' = FALSE /\ up' = FALSE /\ wire' = <<>>
  /\ owes' = {} /\ unacked' = {} /\ ours' = {} /\ handled' = {}

\* realtime_connect, fbns_connect: a client if there is none, with no handlers,
\* then connect: a socket, and CONNECT.  connected stays as it was until the end.
UserConnects ==
  /\ pc = "idle"
  /\ client' = TRUE
  /\ handlers' = IF client THEN handlers ELSE 0
  /\ packetId' = IF client THEN packetId ELSE 0
  /\ \/ /\ Opens /\ owes' = {"connack"} /\ Begin("connect", "recv", 1)
        /\ connected' = (client /\ connected)
        /\ session' = IF kind = "fbns" /\ client /\ connected THEN "again" ELSE "new"
     \/ /\ Opens /\ owes' = {} /\ CallEnds        \* CONNECT is not sent
        /\ connected' = (client /\ connected /\ kind # "fbns")
        /\ session' = IF kind = "fbns" THEN "broken" ELSE "new"
     \/ /\ CallEnds                                 \* no socket
        /\ connected' = (client /\ connected)
        /\ IF client THEN UNCHANGED <<sock, cut, broker, session, handled>>
                     ELSE NoConnection /\ session' = "new"
  /\ UNCHANGED <<kind, closing, partial, clash>>

Accepted == session' = IF session = "broken" THEN session ELSE "accepted"

\* Only a CONNACK with return code 0 will do.  Another answer raises, and a client
\* that was connected before stays so.
ConnectReads ==
  /\ pc = "recv" /\ call = "connect"
  /\ \E p \in Packets :
       /\ Arrives(p)
       /\ CASE p.type = "connack" /\ kind = "fbns" ->
                 Begin("connect", "auth", 0) /\ Accepted /\ UNCHANGED connected
            [] p.type = "connack" /\ kind = "realtime" ->
                 connected' = TRUE /\ CallEnds /\ UNCHANGED session
            [] OTHER -> CallEnds /\ UNCHANGED <<connected, session>>
  /\ UNCHANGED <<kind, closing, client, handlers, packetId, sock, up, owes, unacked, ours,
                 handled, clash>>

\* The handlers of "auth" run before connected is set; register is the caller's
\* choice.
AuthEmitted ==
  /\ pc = "auth"
  /\ \/ CallEnds /\ handlers > 0 /\ UNCHANGED connected
     \/ connected' = TRUE /\ CallEnds
     \/ connected' = TRUE /\ Begin("register", "subscribe", 0)
  /\ UNCHANGED <<kind, closing, client, handlers, packetId, sock, reading, broker, history>>

\* subscribe(MESSAGE) takes an id as a publish does, and is acknowledged like one.
Subscribe ==
  /\ pc = "subscribe"
  /\ \/ PublishSent /\ Begin("register", "request", 0) /\ UNCHANGED <<connected, session>>
     \/ PublishRaises /\ UNCHANGED <<ours, clash>>
  /\ UNCHANGED <<kind, closing, client, handlers, sock, reading, up, wire, owes, unacked, handled>>

\* register_token publishes REG_REQUEST and waits for the token.
RegisterToken ==
  /\ pc = "request"
  /\ \/ /\ PublishSent
        /\ owes' = IF up THEN owes \cup {"reg"} ELSE owes
        /\ Begin("register", "recv", RegisterPackets) /\ UNCHANGED <<connected, session>>
     \/ PublishRaises /\ UNCHANGED <<owes, ours, clash>>
  /\ UNCHANGED <<kind, closing, client, handlers, sock, reading, up, wire, unacked, handled>>

\* register_push_token: push/register/ is an HTTP request of the client.
RegisterPushToken ==
  /\ pc = "push"
  /\ CallEnds
  /\ UNCHANGED <<kind, closing, client, object, sock, reading, broker, history>>

-------------------------------------------------------------------------------
(* The other calls of the user.                                              *)

\* realtime_on, fbns_on.
UserRegisters ==
  /\ pc = "idle"
  /\ client' = TRUE
  /\ IF client
     THEN handlers < MaxHandlers /\ handlers' = handlers + 1
          /\ UNCHANGED <<connected, packetId, sock, cut, broker, session, handled>>
     ELSE handlers' = 1 /\ connected' = FALSE /\ packetId' = 0 /\ NoConnection /\ session' = "new"
  /\ UNCHANGED <<kind, closing, partial, running, clash>>

UserReads ==
  /\ pc = "idle" /\ client
  /\ Begin("read", "recv", 1)
  /\ UNCHANGED <<kind, closing, client, object, sock, reading, broker, history>>

UserPings ==
  /\ pc = "idle" /\ client /\ connected
  /\ \/ /\ MaySend
        /\ owes' = IF up THEN owes \cup {"pingresp"} ELSE owes
        /\ Begin("ping", "recv", PingPackets) /\ UNCHANGED <<connected, session>>
     \/ SendRaises /\ UNCHANGED owes
  /\ UNCHANGED <<kind, closing, client, handlers, packetId, sock, reading, up, wire, unacked, ours,
                 handled, clash>>

\* direct_send_text, direct_mark_seen, graph_ql_subscribe, ...: each one publish.
UserPublishes ==
  /\ pc = "idle" /\ client /\ kind = "realtime"
  /\ \/ /\ PublishSent
        /\ CallEnds /\ UNCHANGED <<connected, session>>
     \/ PublishRaises /\ UNCHANGED <<ours, clash>>
  /\ UNCHANGED <<kind, closing, client, handlers, sock, reading, up, wire, owes, unacked, handled>>

-------------------------------------------------------------------------------
(* disconnect, of a handler or of another thread, step by step.              *)

\* DISCONNECT is sent to a broker believed connected.  RealtimeClient lets a failure
\* to send it out, and everything stays; FbnsClient notes it and goes on.
DisconnectBegins ==
  /\ client /\ closing = "none"
  /\ \/ (~connected \/ MaySend) /\ closing' = "close" /\ UNCHANGED <<connected, session>>
     \/ connected /\ MayFailToSend /\ Breaks
        /\ closing' = IF kind = "fbns" THEN "close" ELSE "none"
  /\ UNCHANGED <<kind, client, handlers, packetId, sock, reading, running, broker, handled, clash>>

\* transport.disconnect: the socket is gone under whatever call is running.
TransportDisconnects ==
  /\ closing = "close" /\ closing' = "note"
  /\ NoConnection
  /\ session' = IF pc = "auth" THEN "undercut" ELSE session
  /\ UNCHANGED <<kind, client, object, partial, running, clash>>

DisconnectNotes ==
  /\ closing = "note" /\ closing' = "forget"
  /\ connected' = FALSE
  /\ UNCHANGED <<kind, client, handlers, packetId, sock, reading, running, broker, history>>

\* realtime_disconnect and fbns_disconnect forget the client; whoever calls its own
\* disconnect leaves it with the mixin.
MixinForgets ==
  /\ closing = "forget" /\ closing' = "none"
  /\ client' \in BOOLEAN
  /\ UNCHANGED <<kind, object, sock, reading, running, broker, history>>

Disconnect == DisconnectBegins \/ TransportDisconnects \/ DisconnectNotes \/ MixinForgets

-------------------------------------------------------------------------------
(* The broker.                                                               *)

Delivers(p) == up /\ Len(wire) < MaxWire /\ wire' = Append(wire, p)

BrokerAnswers ==
  /\ \/ /\ "connack" \in owes /\ owes' = owes \ {"connack"}
        /\ \E t \in {"connack", "refused"} : Delivers(Plain(t))
     \/ /\ "pingresp" \in owes /\ owes' = owes \ {"pingresp"} /\ Delivers(Plain("pingresp"))
  /\ UNCHANGED <<kind, closing, client, object, sock, reading, running, up, unacked, ours, history>>

BrokerAcks ==
  /\ \E i \in ours : ours' = ours \ {i}
  /\ Delivers(Plain("ack"))
  /\ UNCHANGED <<kind, closing, client, object, sock, reading, running, up, owes, unacked, history>>

\* Copies of message i the client has still to read or to acknowledge.
Pending(i) == i \in {q.id : q \in Range(wire)} \cup {pkt.packet.id}

\* A message, or the answer to REG_REQUEST.  QoS 1: it is unacknowledged until
\* the client says so, and may be sent again; then its id names another one.
BrokerPublishes ==
  /\ "connack" \notin owes
  /\ \E p \in Publishes :
       /\ IF p.body = "message" THEN UNCHANGED owes ELSE "reg" \in owes /\ owes' = owes \ {"reg"}
       /\ p.qos = 1 /\ p.id \notin unacked => ~Pending(p.id)
       /\ Delivers(p)
       /\ unacked' = IF p.qos = 1 THEN unacked \cup {p.id} ELSE unacked
       /\ handled' = IF p.id \in unacked THEN handled ELSE handled \ {p.id}
  /\ UNCHANGED <<kind, closing, client, object, sock, reading, running, up, ours, session, clash>>

BrokerGoes ==
  /\ up /\ up' = FALSE
  /\ UNCHANGED <<kind, closing, client, object, sock, reading, running, wire, owes, unacked, ours, history>>

-------------------------------------------------------------------------------

Progress ==
  \/ RecvFails \/ Trickle \/ Reads \/ HandlerReturns \/ HandlerRaises \/ Emitted \/ Ack
  \/ ConnectReads \/ AuthEmitted \/ Subscribe \/ RegisterToken \/ RegisterPushToken

User ==
  \/ HandlerPublishes \/ UserConnects \/ UserRegisters \/ UserReads \/ UserPings
  \/ UserPublishes \/ Disconnect

Broker == BrokerAnswers \/ BrokerAcks \/ BrokerPublishes \/ BrokerGoes

Next == Progress \/ User \/ Broker

Spec == Init /\ [][Next]_vars

\* A running call goes on: a handler returns or raises, and every wait for bytes ends
\* with some, or with the socket's timeout.  Nothing is asked of the broker, of the
\* user, or of a disconnect that has begun.
FairSpec == Spec /\ WF_vars(Progress)

-------------------------------------------------------------------------------
(* Properties.                                                               *)

\* A message is acknowledged only when every handler of it has returned, so that
\* what a handler raises on can be delivered again.  It is not promised for a
\* REG_RESPONSE, nor behind a read that gave up inside a packet, where the id
\* that is acknowledged may be anything.
AcksFollowHandlers ==
  [][pc = "ack" /\ sock' /\ ~pkt.first /\ ~cut => (unacked \ unacked') \subseteq handled]_vars

\* connect left connected TRUE with no connection behind it: it was begun on a client
\* that was connected, and was refused, had no answer or none that is a packet; or a
\* disconnect closed the socket after the CONNACK, before connect set connected.
ConnectSlipped == session \in {"again", "undercut"}

\* Except where connect slipped, and while a disconnect is under way, FbnsClient says
\* it is connected only while it has a socket whose CONNECT was accepted and on which
\* nothing has failed but a wait: within its calls and between them, with one that
\* was disconnected in the middle of a call, connected again, or kept by the mixin.
FbnsKnowsItIsClosed ==
  kind = "fbns" /\ connected /\ closing = "none" =>
    (sock /\ session = "accepted") \/ ConnectSlipped

\* No publish carries the id of another one the broker has yet to acknowledge, on
\* a connection however long and with publishes from within handlers.
NoIdTwice == ~clash

\* What a client believes of its connection agrees with the socket and the broker.
ConnectionIsKnown == FbnsKnowsItIsClosed /\ NoIdTwice

\* Every call returns or raises, whatever the broker sends and however many packets,
\* unless one packet trickles in for ever, byte by byte.
Terminates == <>[][~Trickle]_vars => []<>(pc = "idle")

===============================================================================
