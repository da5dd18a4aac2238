----------------------------- MODULE PacketCodec -----------------------------
(***************************************************************************)
(* The packets of realtime/mqttot.py: what the write_..._packet functions  *)
(* put on a stream, and what recv_packet and decode_packet take off it.    *)
(* Nothing on the stream marks where a packet begins: a reader that counts *)
(* one byte wrong reads every later packet wrong.                          *)
(*                                                                         *)
(* A byte is a number below 256, bytes are a sequence of them, and text is *)
(* the bytes it encodes to.                                                *)
(***************************************************************************)
EXTENDS Integers, Sequences

Byte == 0..255
Short == 0..65535   \* what "!H" packs
Texts == {t \in Seq(Byte) : Len(t) \in Short}

CONSTANTS
  Protocol,     \* the name in CONNECT, "MQTToT"
  Topics, Payloads, PacketIds, KeepAlives, ReturnCodes,
  MaxPackets    \* bound: packets on the stream

ASSUME PacketAssumption ==
  /\ {Protocol} \cup Topics \subseteq Texts
  /\ Payloads \subseteq Seq(Byte)
  /\ PacketIds \cup KeepAlives \subseteq Short
  /\ ReturnCodes \subseteq Byte

VARIABLES
  stream,   \* bytes that were written and not read
  sent      \* the packets they are

packetVars == <<stream, sent>>

-------------------------------------------------------------------------------
(* The parts of a packet.                                                    *)

\* struct.pack("!H", n) and _write_utf8.
TwoBytes(n) == <<n \div 256, n % 256>>
Utf8(text) == TwoBytes(Len(text)) \o text

\* _encode_remaining_length: seven bits a byte, the low ones first.
EncodeLength[n \in Nat] ==
  IF n \div 128 = 0 THEN <<n % 128>> ELSE <<128 + (n % 128)>> \o EncodeLength[n \div 128]

Framed(first, body) == <<first>> \o (EncodeLength[Len(body)] \o body)

\* The number that starts at pos ends with the first byte below 128.
LengthEnd(data, pos) == CHOOSE e \in pos..Len(data) :
  data[e] < 128 /\ \A i \in pos..(e - 1) : data[i] >= 128

\* _decode_remaining_length.
DecodeLength(data, pos) ==
  LET end == LengthEnd(data, pos)
      value[i \in pos..end] == (data[i] % 128) + (IF i = end THEN 0 ELSE 128 * value[i + 1])
  IN  value[pos]

-------------------------------------------------------------------------------
(* The writers.                                                              *)

ConnectPackets == [type : {"connect"}, name : {Protocol}, level : {3}, flags : {194},
                   keepAlive : KeepAlives, payload : Payloads]
PublishPackets ==
  [type : {"publish"}, qos : {1}, topic : Topics, id : PacketIds, payload : Payloads] \cup
  [type : {"publish"}, qos : {0}, topic : Topics, id : {0}, payload : Payloads]
SubscribePackets == [type : {"subscribe"}, id : PacketIds, topic : Topics]
PlainPackets == [type : {"pingreq", "disconnect", "pingresp"}, payload : {<<>>}]
\* The broker's answer to CONNECT, in the form decode_packet reads.
ConnackPackets == [type : {"connack"}, code : ReturnCodes, payload : Payloads]

AnyPacket == ConnectPackets \cup ConnackPackets \cup PublishPackets \cup SubscribePackets \cup PlainPackets

WriteConnect(p) ==
  Framed(16, Utf8(p.name) \o (<<p.level, p.flags>> \o (TwoBytes(p.keepAlive) \o p.payload)))

WriteConnack(p) == Framed(32, <<0, p.code>> \o p.payload)

WritePublish(p) ==
  Framed(48 + 2 * p.qos,
         Utf8(p.topic) \o (IF p.qos = 1 THEN TwoBytes(p.id) \o p.payload ELSE p.payload))

SubscribeBody(p) == TwoBytes(p.id) \o (Utf8(p.topic) \o <<1>>)
WriteSubscribe(p) == Framed(130, SubscribeBody(p))

WritePlain(first) == <<first, 0>>

\* The bytes of a packet.
Bytes(p) ==
  CASE p.type = "connect"    -> WriteConnect(p)
    [] p.type = "connack"    -> WriteConnack(p)
    [] p.type = "publish"    -> WritePublish(p)
    [] p.type = "subscribe"  -> WriteSubscribe(p)
    [] p.type = "pingreq"    -> WritePlain(192)
    [] p.type = "pingresp"   -> WritePlain(208)
    [] p.type = "disconnect" -> WritePlain(224)

-------------------------------------------------------------------------------
(* The readers.                                                              *)

\* Mutated form: a length takes one byte.
RecvShortPacket(data) == SubSeq(data, 1, 2 + (data[2] % 128))

\* SocketMQTToTTransport.recv_packet: the first byte, the length, and as much as it says.
RecvPacket(data) == SubSeq(data, 1, LengthEnd(data, 2) + DecodeLength(data, 2))

\* struct.unpack("!H", ...).
TwoByteNumber(data, pos) == 256 * data[pos] + data[pos + 1]

\* _read_utf8 at the start of a body, and what is left behind the text.
ReadUtf8(body) == SubSeq(body, 3, TwoByteNumber(body, 1) + 2)
BehindUtf8(body) == SubSeq(body, TwoByteNumber(body, 1) + 3, Len(body))
Behind(n, bytes) == SubSeq(bytes, n + 1, Len(bytes))

\* decode_packet, behind the first byte and the length.
DecodeBody(first, body) ==
  LET id == first \div 16
      qos == (first \div 2) % 4
      rest == BehindUtf8(body)
  IN CASE id = 1  -> [type |-> "connect", name |-> ReadUtf8(body), level |-> rest[1], flags |-> rest[2],
                      keepAlive |-> TwoByteNumber(rest, 3), payload |-> Behind(4, rest)]
       [] id = 2  -> [type |-> "connack", code |-> body[2], payload |-> Behind(2, body)]
       [] id = 3  -> [type |-> "publish", qos |-> qos, topic |-> ReadUtf8(body),
                      id |-> IF qos > 0 THEN TwoByteNumber(rest, 1) ELSE 0,
                      payload |-> IF qos > 0 THEN Behind(2, rest) ELSE rest]
       [] id = 12 -> [type |-> "pingreq", payload |-> body]
       [] id = 13 -> [type |-> "pingresp", payload |-> body]
       [] id = 14 -> [type |-> "disconnect", payload |-> body]
       [] OTHER   -> [type |-> "unnamed", payload |-> body]

DecodePacket(data) ==
  LET end == LengthEnd(data, 2)
  IN  DecodeBody(data[1], SubSeq(data, end + 1, end + DecodeLength(data, 2)))

\* What decode_packet shall say of a packet.  SUBSCRIBE it does not know.
Seen(p) == IF p.type = "subscribe" THEN [type |-> "unnamed", payload |-> SubscribeBody(p)] ELSE p

-------------------------------------------------------------------------------

PacketInit == stream = <<>> /\ sent = <<>>

\* SocketMQTToTTransport.send.
SendPacket ==
  /\ Len(sent) < MaxPackets
  /\ \E p \in AnyPacket : stream' = stream \o Bytes(p) /\ sent' = Append(sent, p)

\* recv_packet takes one packet off the stream.
ReceivePacket ==
  /\ sent # <<>>
  /\ stream' = Behind(Len(RecvPacket(stream)), stream)
  /\ sent' = Tail(sent)

PacketNext == SendPacket \/ ReceivePacket

PacketSpec == PacketInit /\ [][PacketNext]_packetVars

-------------------------------------------------------------------------------
(* Properties.                                                               *)

\* recv_packet takes the first packet that was sent and no byte more or less, whatever
\* bytes its topic and payload hold and however many, decode_packet reads out of it
\* what was sent, and when all are read no byte is left.
StreamStaysInStep ==
  IF sent = <<>> THEN stream = <<>>
  ELSE /\ RecvPacket(stream) = Bytes(Head(sent))
       /\ DecodePacket(RecvPacket(stream)) = Seen(Head(sent))
===============================================================================
