-------------------------- MODULE RealtimeClientProofs --------------------------
(***************************************************************************)
(* Theorems about the push clients, for every number of handlers, of       *)
(* packets on the way and of ids, and whatever the broker sends; and about *)
(* the packets, for every topic and payload, however long.                 *)
(***************************************************************************)
EXTENDS RealtimeClient, PacketCodec, WellFoundedInduction, TLAPS

-------------------------------------------------------------------------------
(* What the parts of an action preserve.                                     *)

InHand == [packet : Packets, todo : 0..MaxHandlers, first : BOOLEAN]
Bounds == 0..(PingPackets + RegisterPackets)

LEMMA PacketFacts ==
  /\ \A p \in Packets : p.id \in BrokerIds \cup {0} /\ p.qos \in {0, 1}
  /\ \A p \in Publishes : p \in Packets /\ p.id \in BrokerIds \cup {0}
  /\ \A p \in Packets : p.qos = 1 => p.id \in BrokerIds
  /\ \A p \in Publishes : p.qos = 1 => p.id \in BrokerIds
  /\ \A t \in {"connack", "refused", "pingresp", "ack", "noise"} : Plain(t) \in Packets
BY DEF Packets, Publishes, Packet, Plain

\* The numbers the code's bounds stand for, and the state between two packets.
LEMMA NumberFacts ==
  /\ PingPackets \in Nat /\ RegisterPackets \in Nat /\ MaxId \in Nat /\ MaxHandlers \in Nat
  /\ MaxWire \in Nat /\ MaxId >= 1 /\ MaxHandlers >= 1
  /\ PingPackets >= 1 /\ RegisterPackets >= 1
  /\ 0 \in Bounds /\ 1 \in Bounds /\ PingPackets \in Bounds /\ RegisterPackets \in Bounds
  /\ BrokerIds \subseteq Nat
BY RealtimeAssumption DEF Bounds

LEMMA NoneInHand == None \in InHand
BY PacketFacts, NumberFacts DEF None, InHand

\* A call that ends leaves the client between two calls.
LEMMA EndsTyped ==
  ASSUME CallEnds
  PROVE  /\ call' \in Calls /\ pc' = "idle" /\ left' \in Bounds /\ pkt' \in InHand
BY NoneInHand, NumberFacts DEF CallEnds, Calls

LEMMA BeginsTyped ==
  ASSUME NEW c \in Calls, NEW place, NEW n \in Bounds, Begin(c, place, n)
  PROVE  /\ call' \in Calls /\ pc' = place /\ left' \in Bounds /\ pkt' \in InHand
BY NoneInHand DEF Begin

LEMMA KeepsReadingTyped ==
  ASSUME left \in Bounds, left > 1, KeepsReading
  PROVE  pc' = "recv" /\ left' \in Bounds /\ pkt' \in InHand /\ call' = call
BY NoneInHand, NumberFacts DEF KeepsReading, Bounds

\* An id that fits is one above the last; the counter never goes back.
LEMMA IdFacts ==
  ASSUME packetId \in 0..(MaxId + 1), NextId
  PROVE  /\ packetId' \in 0..(MaxId + 1) /\ packetId' >= packetId
         /\ IdFits => packetId' = packetId + 1 /\ packetId' \in 1..MaxId
BY NumberFacts DEF NextId, IdFits

LEMMA PublishSentFacts ==
  ASSUME TypeOK, PublishSent
  PROVE  /\ packetId' \in 0..(MaxId + 1) /\ packetId' = packetId + 1
         /\ ours' \subseteq ours \cup {packetId'} /\ ours' \subseteq 1..MaxId
         /\ clash' \in BOOLEAN /\ sock
<1>1. packetId \in 0..(MaxId + 1) /\ ours \subseteq 1..MaxId /\ clash \in BOOLEAN
  BY DEF TypeOK
<1>2. NextId /\ IdFits /\ sock
  BY DEF PublishSent, MaySend
<1>3. packetId' \in 0..(MaxId + 1) /\ packetId' = packetId + 1 /\ packetId' \in 1..MaxId
  BY <1>1, <1>2, IdFacts
<1>4. ours' \subseteq ours \cup {packetId'}
  BY DEF PublishSent
<1> QED
  BY <1>1, <1>2, <1>3, <1>4 DEF PublishSent

LEMMA PublishRaisesFacts ==
  ASSUME TypeOK, PublishRaises
  PROVE  /\ packetId' \in 0..(MaxId + 1) /\ packetId' >= packetId
         /\ connected' \in BOOLEAN /\ session' \in Sessions
         /\ CallEnds
         /\ UNCHANGED <<connected, session>> \/ Breaks
<1>1. packetId \in 0..(MaxId + 1) /\ connected \in BOOLEAN /\ session \in Sessions
  BY DEF TypeOK
<1>2. packetId' \in 0..(MaxId + 1) /\ packetId' >= packetId
  BY <1>1, IdFacts DEF PublishRaises
<1> QED
  BY <1>1, <1>2 DEF PublishRaises, Breaks, NotedBreak, Sessions

LEMMA SendRaisesFacts ==
  ASSUME TypeOK, SendRaises
  PROVE  /\ connected' \in BOOLEAN /\ session' \in Sessions /\ CallEnds
         /\ Breaks
BY DEF TypeOK, SendRaises, Breaks, NotedBreak, Sessions

\* A call may note that the connection is gone.
LEMMA NotesTyped ==
  ASSUME TypeOK, Breaks \/ UNCHANGED <<connected, session>>
  PROVE  connected' \in BOOLEAN /\ session' \in Sessions
BY DEF TypeOK, Breaks, NotedBreak, Sessions

LEMMA WireFacts ==
  ASSUME wire \in Seq(Packets), Len(wire) <= MaxWire
  PROVE  /\ wire # <<>> => Head(wire) \in Packets /\ Tail(wire) \in Seq(Packets)
                           /\ Len(Tail(wire)) <= MaxWire
         /\ <<>> \in Seq(Packets) /\ Len(<<>>) <= MaxWire
<1>1. MaxWire \in Nat
  BY NumberFacts
<1>2. <<>> \in Seq(Packets) /\ Len(<<>>) = 0
  OBVIOUS
<1>3. ASSUME wire # <<>>
      PROVE  Head(wire) \in Packets /\ Tail(wire) \in Seq(Packets) /\ Len(Tail(wire)) = Len(wire) - 1
             /\ Len(wire) \in Nat
  BY <1>3
<1> QED
  BY <1>1, <1>2, <1>3

LEMMA DeliversFacts ==
  ASSUME wire \in Seq(Packets), NEW p \in Packets, Delivers(p)
  PROVE  wire' \in Seq(Packets) /\ Len(wire') <= MaxWire /\ up
<1>1. wire' = Append(wire, p) /\ Len(wire) < MaxWire /\ up /\ Len(wire) \in Nat /\ MaxWire \in Nat
  BY NumberFacts DEF Delivers
<1>2. wire' \in Seq(Packets) /\ Len(wire') = Len(wire) + 1
  BY <1>1
<1> QED
  BY <1>1, <1>2

\* What is read is a packet, and the stream behind it is still one.
LEMMA ReadFacts ==
  ASSUME TypeOK, NEW p \in Packets, Arrives(p) \/ Misread(p)
  PROVE  wire' \in Seq(Packets) /\ Len(wire') <= MaxWire /\ sock /\ cut' = cut /\ partial' = 0
<1>1. wire \in Seq(Packets) /\ Len(wire) <= MaxWire
  BY DEF TypeOK
<1>2. wire' \in {wire, <<>>, Tail(wire)} /\ (wire' = Tail(wire) => wire # <<>> \/ wire' \in {wire, <<>>})
  BY DEF Arrives, Misread
<1>3. sock /\ cut' = cut /\ partial' = 0
  BY DEF Arrives, Misread
<1> QED
  BY <1>1, <1>2, <1>3, WireFacts

-------------------------------------------------------------------------------
(* Type correctness, one step per action.                                    *)

Places == {"idle", "recv", "emit", "ack", "auth", "subscribe", "request", "push"}

\* Where the call stands is one of the places a call can be at.
RunOK ==
  /\ call \in Calls /\ pc \in Places /\ left \in Bounds /\ pkt \in InHand

\* The state of the client itself, of the stream and of the broker.
ObjectOK ==
  /\ kind \in {"realtime", "fbns"} /\ client \in BOOLEAN /\ connected \in BOOLEAN
  /\ handlers \in 0..MaxHandlers /\ packetId \in 0..(MaxId + 1)
  /\ sock \in BOOLEAN /\ cut \in BOOLEAN /\ partial \in 0..1
  /\ closing \in {"none", "close", "note", "forget"}
WireOK == wire \in Seq(Packets) /\ Len(wire) <= MaxWire
BrokerOK ==
  /\ up \in BOOLEAN
  /\ owes \subseteq {"connack", "pingresp", "reg"}
  /\ unacked \subseteq BrokerIds /\ ours \subseteq 1..MaxId
HistoryOK == session \in Sessions /\ handled \subseteq BrokerIds /\ clash \in BOOLEAN

LEMMA TypeParts == TypeOK <=> ObjectOK /\ RunOK /\ WireOK /\ BrokerOK /\ HistoryOK
BY DEF TypeOK, ObjectOK, RunOK, WireOK, BrokerOK, HistoryOK, Places, Bounds, InHand

LEMMA EndsRun ==
  ASSUME CallEnds
  PROVE  RunOK' /\ pc' = "idle"
BY EndsTyped DEF RunOK, Places

LEMMA BeginsRun ==
  ASSUME NEW c \in Calls, NEW place \in Places, NEW n \in Bounds, Begin(c, place, n)
  PROVE  RunOK' /\ pc' = place /\ call' = c
BY BeginsTyped DEF RunOK, Begin

LEMMA DispatchRun ==
  ASSUME RunOK, handlers \in 0..MaxHandlers, NEW p \in Packets, NEW first \in BOOLEAN,
         Dispatch(p, first)
  PROVE  /\ RunOK' /\ call' = call /\ pkt'.first = first
         /\ pc' = IF first THEN "ack" ELSE "emit"
BY DEF RunOK, Dispatch, InHand, Places

LEMMA ReadsRun ==
  ASSUME TypeOK, NEW p \in Packets, call # "connect",
         ReadOne(p) \/ PingReads(p) \/ RegisterReads(p)
  PROVE  /\ RunOK'
         /\ \/ pc' = "idle"
            \/ pc' = "recv" /\ call' = call
            \/ pc' \in {"emit", "ack"} /\ call' = call /\ (pc' = "ack" => pkt'.first)
<1>1. RunOK /\ handlers \in 0..MaxHandlers
  BY TypeParts DEF ObjectOK
<1>2. (p.body \in Replies) \in BOOLEAN
  OBVIOUS
<1>3. \/ CallEnds
      \/ \E first \in BOOLEAN : Dispatch(p, first)
      \/ left > 1 /\ KeepsReading
  BY <1>2 DEF ReadOne, PingReads, RegisterReads
<1>4. CASE CallEnds
  BY <1>4, EndsRun
<1>5. CASE \E first \in BOOLEAN : Dispatch(p, first)
  BY <1>1, <1>5, DispatchRun
<1>6. CASE left > 1 /\ KeepsReading
  BY <1>1, <1>6, KeepsReadingTyped DEF RunOK, Places
<1> QED
  BY <1>3, <1>4, <1>5, <1>6

LEMMA AfterAckRun ==
  ASSUME TypeOK, AfterAck
  PROVE  /\ RunOK'
         /\ \/ pc' = "idle"
            \/ pc' \in {"recv", "emit"} /\ call' = call
<1>1. RunOK /\ left \in Nat
  BY TypeParts, NumberFacts DEF RunOK, Bounds
<1>2. \/ CallEnds
      \/ pc' = "emit" /\ UNCHANGED <<call, left, pkt>>
      \/ left > 1 /\ KeepsReading
  BY DEF AfterAck
<1>3. CASE CallEnds
  BY <1>3, EndsRun
<1>4. CASE pc' = "emit" /\ UNCHANGED <<call, left, pkt>>
  BY <1>1, <1>4 DEF RunOK, Places
<1>5. CASE left > 1 /\ KeepsReading
  BY <1>1, <1>5, KeepsReadingTyped DEF RunOK, Places
<1> QED
  BY <1>2, <1>3, <1>4, <1>5

LEMMA TypeInit == Init => TypeOK
<1> SUFFICES ASSUME Init PROVE TypeOK
  OBVIOUS
<1>1. RunOK
  BY NoneInHand, NumberFacts DEF Init, RunOK, Places, Calls
<1>2. WireOK
  <2>1. <<>> \in Seq(Packets) /\ Len(<<>>) = 0
    OBVIOUS
  <2> QED
    BY <2>1, NumberFacts DEF Init, WireOK
<1>3. 0 \in 0..MaxHandlers /\ 0 \in 0..(MaxId + 1)
  BY NumberFacts
<1>4. ObjectOK
  <2>1. partial \in 0..1
    BY DEF Init
  <2>2. client \in BOOLEAN /\ connected \in BOOLEAN /\ sock \in BOOLEAN /\ cut \in BOOLEAN
    BY DEF Init
  <2>3. kind \in {"realtime", "fbns"} /\ closing \in {"none", "close", "note", "forget"}
    BY DEF Init
  <2>4. handlers \in 0..MaxHandlers /\ packetId \in 0..(MaxId + 1)
    BY <1>3 DEF Init
  <2> QED
    BY <2>1, <2>2, <2>3, <2>4 DEF ObjectOK
<1>5. BrokerOK /\ HistoryOK
  BY DEF Init, BrokerOK, HistoryOK, Sessions
<1> QED
  BY <1>1, <1>2, <1>4, <1>5, TypeParts

LEMMA Typing == TypeOK /\ [Next]_vars => TypeOK'
<1> SUFFICES ASSUME TypeOK, [Next]_vars PROVE (ObjectOK /\ RunOK /\ WireOK /\ BrokerOK /\ HistoryOK)'
  BY TypeParts, PTL
<1> USE DEF object, reading, running, broker, history
<1>t. ObjectOK /\ RunOK /\ WireOK /\ BrokerOK /\ HistoryOK
  BY TypeParts
<1>w. WireOK /\ wire' = wire => WireOK'
  BY DEF WireOK
<1>f. WireOK /\ wire # <<>> /\ wire' = Tail(wire) => WireOK'
  BY WireFacts DEF WireOK
<1>z. 0 \in 0..MaxHandlers /\ 1 \in 0..MaxHandlers /\ 0 \in 0..(MaxId + 1)
  BY NumberFacts
<1>e. wire' = <<>> => WireOK'
  BY WireFacts, <1>t DEF WireOK
<1>1. CASE RecvFails
  <2>1. RunOK'
    BY <1>1, EndsRun DEF RecvFails
  <2>2. WireOK'
    BY <1>1, <1>t, <1>w, <1>f, <1>e DEF RecvFails
  <2>3. connected' \in BOOLEAN /\ session' \in Sessions
    BY <1>1, NotesTyped DEF RecvFails
  <2>4. cut' \in BOOLEAN
    BY <1>1, <1>t DEF RecvFails, ObjectOK
  <2>5. partial' \in 0..1
    BY <1>1 DEF RecvFails
  <2>6. ObjectOK'
    BY <1>1, <1>t, <2>3, <2>4, <2>5 DEF RecvFails, ObjectOK
  <2>7. BrokerOK' /\ HistoryOK'
    BY <1>1, <1>t, <2>3 DEF RecvFails, BrokerOK, HistoryOK
  <2> QED
    BY <2>1, <2>2, <2>6, <2>7
<1>2. CASE Reads
  <2>1. PICK p \in Packets : (Arrives(p) \/ Misread(p)) /\ (ReadOne(p) \/ PingReads(p) \/ RegisterReads(p))
    BY <1>2 DEF Reads
  <2>2. RunOK'
    BY <1>2, <2>1, ReadsRun DEF Reads
  <2>3. WireOK' /\ cut' = cut /\ partial' = 0
    BY <2>1, ReadFacts DEF WireOK
  <2>4. (ObjectOK /\ BrokerOK /\ HistoryOK)'
    BY <1>2, <1>t, <2>3 DEF Reads, ObjectOK, BrokerOK, HistoryOK
  <2> QED
    BY <2>2, <2>3, <2>4
<1>2t. CASE Trickle
  <2>1. RunOK' /\ partial' \in 0..1
    BY <1>2t, <1>t DEF Trickle, RunOK, ObjectOK
  <2> QED
    BY <1>2t, <1>t, <1>w, <2>1 DEF Trickle, ObjectOK, BrokerOK, HistoryOK
<1>3. CASE HandlerReturns
  <2>1. RunOK'
    BY <1>3, <1>t, NumberFacts DEF HandlerReturns, RunOK, InHand
  <2> QED
    BY <1>3, <1>t, <1>w, <2>1 DEF HandlerReturns, ObjectOK, BrokerOK, HistoryOK
<1>4. CASE HandlerRaises
  BY <1>4, <1>t, <1>w, EndsRun DEF HandlerRaises, ObjectOK, BrokerOK, HistoryOK
<1>5. CASE HandlerPublishes
  <2>1. CASE PublishSent /\ pkt' = [pkt EXCEPT !.todo = @ - 1] /\ UNCHANGED <<connected, session, call, pc, left>>
    <3>1. RunOK'
      BY <1>5, <2>1, <1>t, NumberFacts DEF HandlerPublishes, RunOK, InHand
    <3>2. ObjectOK'
      BY <1>5, <2>1, <1>t, PublishSentFacts DEF HandlerPublishes, ObjectOK
    <3>3. BrokerOK' /\ HistoryOK'
      BY <1>5, <2>1, <1>t, PublishSentFacts DEF HandlerPublishes, BrokerOK, HistoryOK
    <3> QED
      BY <1>5, <1>t, <1>w, <3>1, <3>2, <3>3 DEF HandlerPublishes
  <2>2. CASE PublishRaises /\ UNCHANGED <<ours, clash>>
    <3>1. RunOK'
      BY <2>2, PublishRaisesFacts, EndsRun
    <3>2. (ObjectOK /\ BrokerOK /\ HistoryOK)'
      BY <1>5, <2>2, <1>t, PublishRaisesFacts DEF HandlerPublishes, ObjectOK, BrokerOK, HistoryOK
    <3> QED
      BY <1>5, <1>t, <1>w, <3>1, <3>2 DEF HandlerPublishes
  <2> QED
    BY <1>5, <2>1, <2>2 DEF HandlerPublishes
<1>6. CASE Emitted
  <2>1. RunOK'
    BY <1>6, <1>t, EndsRun DEF Emitted, RunOK, Places
  <2>2. HistoryOK'
    <3>1. pkt.packet.qos = 1 => pkt.packet.id \in BrokerIds
      BY <1>t, PacketFacts DEF RunOK, InHand
    <3> QED
      BY <1>6, <1>t, <3>1 DEF Emitted, HistoryOK
  <2> QED
    BY <1>6, <1>t, <1>w, <2>1, <2>2 DEF Emitted, ObjectOK, BrokerOK
<1>7. CASE Ack
  <2>1. RunOK'
    BY <1>7, AfterAckRun, EndsRun DEF Ack, SendRaises
  <2>2. connected' \in BOOLEAN /\ session' \in Sessions
    BY <1>7, NotesTyped DEF Ack, SendRaises
  <2>3. unacked' \subseteq unacked
    BY <1>7 DEF Ack
  <2>4. (ObjectOK /\ BrokerOK /\ HistoryOK)'
    BY <1>7, <1>t, <2>2, <2>3 DEF Ack, ObjectOK, BrokerOK, HistoryOK
  <2> QED
    BY <1>7, <1>t, <1>w, <2>1, <2>4 DEF Ack
<1>8. CASE ConnectReads
  <2>1. PICK p \in Packets :
          /\ Arrives(p)
          /\ \/ Begin("connect", "auth", 0) /\ Accepted /\ UNCHANGED connected
             \/ connected' = TRUE /\ CallEnds /\ UNCHANGED session
             \/ CallEnds /\ UNCHANGED <<connected, session>>
    BY <1>8, Zenon DEF ConnectReads
  <2>2. RunOK'
    BY <2>1, EndsRun, BeginsRun, NumberFacts DEF Calls, Places
  <2>3. WireOK' /\ cut' = cut /\ partial' = 0
    BY <2>1, ReadFacts DEF WireOK
  <2>4. connected' \in BOOLEAN /\ session' \in Sessions
    BY <1>t, <2>1 DEF Accepted, Sessions, ObjectOK, HistoryOK
  <2>5. (ObjectOK /\ BrokerOK /\ HistoryOK)'
    BY <1>8, <1>t, <2>3, <2>4 DEF ConnectReads, ObjectOK, BrokerOK, HistoryOK
  <2> QED
    BY <2>2, <2>3, <2>5
<1>9. CASE AuthEmitted
  <2>1. RunOK'
    BY <1>9, EndsRun, BeginsRun, NumberFacts DEF AuthEmitted, Calls, Places
  <2> QED
    BY <1>9, <1>t, <1>w, <2>1 DEF AuthEmitted, ObjectOK, BrokerOK, HistoryOK
<1>10. CASE Subscribe
  <2>1. CASE PublishSent /\ Begin("register", "request", 0) /\ UNCHANGED <<connected, session>>
    <3>1. RunOK'
      BY <2>1, BeginsRun, NumberFacts DEF Calls, Places
    <3> QED
      BY <1>10, <1>t, <1>w, <2>1, <3>1, PublishSentFacts
      DEF Subscribe, ObjectOK, BrokerOK, HistoryOK
  <2>2. CASE PublishRaises /\ UNCHANGED <<ours, clash>>
    <3>1. RunOK'
      BY <2>2, PublishRaisesFacts, EndsRun
    <3> QED
      BY <1>10, <1>t, <1>w, <2>2, <3>1, PublishRaisesFacts
      DEF Subscribe, ObjectOK, BrokerOK, HistoryOK
  <2> QED
    BY <1>10, <2>1, <2>2 DEF Subscribe
<1>11. CASE RegisterToken
  <2>1. CASE PublishSent /\ owes' = (IF up THEN owes \cup {"reg"} ELSE owes)
             /\ Begin("register", "recv", RegisterPackets) /\ UNCHANGED <<connected, session>>
    <3>1. RunOK'
      BY <2>1, BeginsRun, NumberFacts DEF Calls, Places
    <3> QED
      BY <1>11, <1>t, <1>w, <2>1, <3>1, PublishSentFacts
      DEF RegisterToken, ObjectOK, BrokerOK, HistoryOK
  <2>2. CASE PublishRaises /\ UNCHANGED <<owes, ours, clash>>
    <3>1. RunOK'
      BY <2>2, PublishRaisesFacts, EndsRun
    <3> QED
      BY <1>11, <1>t, <1>w, <2>2, <3>1, PublishRaisesFacts
      DEF RegisterToken, ObjectOK, BrokerOK, HistoryOK
  <2> QED
    BY <1>11, <2>1, <2>2 DEF RegisterToken
<1>12. CASE RegisterPushToken
  BY <1>12, <1>t, <1>w, EndsRun DEF RegisterPushToken, ObjectOK, BrokerOK, HistoryOK
<1>13. CASE UserConnects
  <2>1. RunOK'
    BY <1>13, EndsRun, BeginsRun, NumberFacts DEF UserConnects, Calls, Places
  <2>2. WireOK'
    BY <1>13, <1>t, <1>w, <1>e DEF UserConnects, Opens, NoConnection
  <2>3. ObjectOK'
    <3>1. handlers' \in 0..MaxHandlers /\ packetId' \in 0..(MaxId + 1)
      BY <1>13, <1>t, <1>z DEF UserConnects, ObjectOK
    <3>2. connected' \in BOOLEAN /\ sock' \in BOOLEAN /\ cut' \in BOOLEAN
      BY <1>13, <1>t DEF UserConnects, Opens, NoConnection, ObjectOK
    <3> QED
      BY <1>13, <1>t, <3>1, <3>2 DEF UserConnects, ObjectOK
  <2>4. BrokerOK' /\ HistoryOK'
    BY <1>13, <1>t DEF UserConnects, Opens, NoConnection, Sessions, BrokerOK, HistoryOK
  <2> QED
    BY <2>1, <2>2, <2>3, <2>4
<1>14. CASE UserRegisters
  <2>1. RunOK'
    BY <1>14, <1>t DEF UserRegisters, RunOK
  <2>2. handlers' \in 0..MaxHandlers
    <3>1. CASE client
      BY <1>14, <1>t, <3>1, NumberFacts DEF UserRegisters, ObjectOK
    <3>2. CASE ~client
      BY <1>14, <1>z, <3>2 DEF UserRegisters
    <3> QED
      BY <3>1, <3>2
  <2>3. /\ packetId' \in 0..(MaxId + 1) /\ connected' \in BOOLEAN /\ sock' \in BOOLEAN
        /\ cut' \in BOOLEAN
    BY <1>14, <1>t, <1>z DEF UserRegisters, NoConnection, ObjectOK
  <2>4. WireOK'
    BY <1>14, <1>t, <1>w, <1>e DEF UserRegisters, NoConnection
  <2>5. BrokerOK' /\ HistoryOK'
    BY <1>14, <1>t DEF UserRegisters, NoConnection, Sessions, BrokerOK, HistoryOK
  <2> QED
    BY <1>14, <1>t, <2>1, <2>2, <2>3, <2>4, <2>5 DEF UserRegisters, ObjectOK
<1>15. CASE UserReads
  <2>1. RunOK'
    BY <1>15, BeginsRun, NumberFacts DEF UserReads, Calls, Places
  <2> QED
    BY <1>15, <1>t, <1>w, <2>1 DEF UserReads, ObjectOK, BrokerOK, HistoryOK
<1>16. CASE UserPings
  <2>1. RunOK'
    BY <1>16, BeginsRun, EndsRun, NumberFacts DEF UserPings, SendRaises, Calls, Places
  <2> QED
    BY <1>16, <1>t, <1>w, <2>1 DEF UserPings, SendRaises, Breaks, NotedBreak, Sessions, ObjectOK, BrokerOK, HistoryOK
<1>17. CASE UserPublishes
  <2>1. CASE PublishSent /\ CallEnds /\ UNCHANGED <<connected, session>>
    <3>1. RunOK'
      BY <2>1, EndsRun
    <3> QED
      BY <1>17, <1>t, <1>w, <2>1, <3>1, PublishSentFacts
      DEF UserPublishes, ObjectOK, BrokerOK, HistoryOK
  <2>2. CASE PublishRaises /\ UNCHANGED <<ours, clash>>
    <3>1. RunOK'
      BY <2>2, PublishRaisesFacts, EndsRun
    <3> QED
      BY <1>17, <1>t, <1>w, <2>2, <3>1, PublishRaisesFacts
      DEF UserPublishes, ObjectOK, BrokerOK, HistoryOK
  <2> QED
    BY <1>17, <2>1, <2>2 DEF UserPublishes
<1>18. CASE Disconnect
  <2>1. RunOK'
    BY <1>18, <1>t
    DEF Disconnect, DisconnectBegins, TransportDisconnects, DisconnectNotes, MixinForgets, RunOK
  <2>2. CASE DisconnectBegins
    BY <1>t, <1>w, <2>1, <2>2
    DEF DisconnectBegins, Breaks, NotedBreak, Sessions, ObjectOK, BrokerOK, HistoryOK
  <2>3. CASE TransportDisconnects
    <3>1. WireOK'
      BY <1>e, <2>3 DEF TransportDisconnects, NoConnection
    <3> QED
      BY <1>t, <2>1, <2>3, <3>1
      DEF TransportDisconnects, NoConnection, Sessions, ObjectOK, BrokerOK, HistoryOK
  <2>4. CASE DisconnectNotes
    BY <1>t, <1>w, <2>1, <2>4 DEF DisconnectNotes, ObjectOK, BrokerOK, HistoryOK
  <2>5. CASE MixinForgets
    BY <1>t, <1>w, <2>1, <2>5 DEF MixinForgets, ObjectOK, BrokerOK, HistoryOK
  <2> QED
    BY <1>18, <2>2, <2>3, <2>4, <2>5 DEF Disconnect
<1>19. CASE BrokerAnswers
  <2>1. RunOK'
    BY <1>19, <1>t DEF BrokerAnswers, RunOK
  <2>2. \E p \in Packets : Delivers(p)
    BY <1>19, PacketFacts DEF BrokerAnswers
  <2>3. WireOK'
    BY <1>t, <2>2, DeliversFacts DEF WireOK
  <2> QED
    BY <1>19, <1>t, <2>1, <2>3 DEF BrokerAnswers, ObjectOK, BrokerOK, HistoryOK
<1>20. CASE BrokerAcks
  <2>1. RunOK'
    BY <1>20, <1>t DEF BrokerAcks, RunOK
  <2>2. \E p \in Packets : Delivers(p)
    BY <1>20, PacketFacts DEF BrokerAcks
  <2>3. WireOK'
    BY <1>t, <2>2, DeliversFacts DEF WireOK
  <2> QED
    BY <1>20, <1>t, <2>1, <2>3 DEF BrokerAcks, ObjectOK, BrokerOK, HistoryOK
<1>21. CASE BrokerPublishes
  <2>1. RunOK'
    BY <1>21, <1>t DEF BrokerPublishes, RunOK
  <2>2. PICK p \in Publishes :
          /\ owes' \subseteq owes
          /\ Delivers(p)
          /\ unacked' = (IF p.qos = 1 THEN unacked \cup {p.id} ELSE unacked)
          /\ handled' = (IF p.id \in unacked THEN handled ELSE handled \ {p.id})
    BY <1>21 DEF BrokerPublishes
  <2>3. WireOK'
    BY <1>t, <2>2, PacketFacts, DeliversFacts DEF WireOK
  <2>4. BrokerOK' /\ HistoryOK'
    BY <1>21, <1>t, <2>2, PacketFacts DEF BrokerPublishes, BrokerOK, HistoryOK
  <2> QED
    BY <1>21, <1>t, <2>1, <2>3, <2>4 DEF BrokerPublishes, ObjectOK
<1>22. CASE BrokerGoes
  <2>1. RunOK'
    BY <1>22, <1>t DEF BrokerGoes, RunOK
  <2> QED
    BY <1>22, <1>t, <1>w, <2>1 DEF BrokerGoes, ObjectOK, BrokerOK, HistoryOK
<1>23. CASE UNCHANGED vars
  BY <1>23, <1>t DEF vars, ObjectOK, RunOK, WireOK, BrokerOK, HistoryOK
<1> QED
  BY <1>1, <1>2, <1>3, <1>4, <1>5, <1>6, <1>7, <1>8, <1>9, <1>10, <1>11, <1>12, <1>13,
     <1>14, <1>15, <1>16, <1>17, <1>18, <1>19, <1>20, <1>21, <1>22, <1>23, <1>2t
  DEF Next, Progress, User, Broker

\* The push clients are type correct: whatever the broker sends, whoever calls or
\* disconnects, every part of their state keeps its type.
THEOREM TypeCorrect == Spec => []TypeOK
BY TypeInit, Typing, PTL DEF Spec

-------------------------------------------------------------------------------
(* What the client believes of its connection, and what it has told the       *)
(* broker.                                                                     *)

\* FbnsClient, while connect runs: unless a disconnect is about to take its socket, it
\* reads the CONNACK on a connection nothing has failed on, and runs the handlers of
\* "auth" on one that was accepted, or whose socket went meanwhile.
ConnectsRightly ==
  kind = "fbns" /\ closing # "close" =>
    /\ call = "connect" /\ pc = "recv" => ~sock \/ session \in {"new", "again"}
    /\ pc = "auth" => (sock /\ session = "accepted") \/ session = "undercut"

\* FbnsClient, at any time: unless connect has slipped, or a disconnect is about to say
\* that it is not, what says it is connected has a socket that was accepted and that
\* nothing has failed on.
BelievesRightly ==
  kind = "fbns" /\ connected /\ closing \notin {"close", "note"} =>
    (sock /\ session = "accepted") \/ ConnectSlipped

\* Messages are dispatched by the calls that read them, never by connect.
ConnectDispatchesNothing == pc \in {"emit", "ack"} => call # "connect"

\* Ids are numbered upwards on a connection, and the numbers of a new client start
\* again on a connection of its own.
IdsAscend == ours \subseteq 1..packetId /\ ~clash

\* An acknowledgement about to be sent is one the handlers have earned.  The broker
\* may take the id for another message only when it is free, and then there is
\* nothing to acknowledge.
AckIsEarned ==
  pc = "ack" /\ ~pkt.first /\ pkt.packet.qos = 1 =>
    pkt.packet.id \in handled \/ pkt.packet.id \notin unacked

ConnectionInv ==
  /\ TypeOK
  /\ ConnectsRightly /\ BelievesRightly /\ ConnectDispatchesNothing
  /\ IdsAscend /\ AckIsEarned

LEMMA ConnectionInit == Init => ConnectionInv
<1> SUFFICES ASSUME Init PROVE ConnectionInv
  OBVIOUS
<1> QED
  BY TypeInit
  DEF Init, ConnectionInv, ConnectsRightly, BelievesRightly, ConnectDispatchesNothing,
      IdsAscend, AckIsEarned

\* A call that ends is not connecting, and dispatches and acknowledges nothing.
LEMMA EndsQuiet ==
  ASSUME CallEnds
  PROVE  ConnectsRightly' /\ ConnectDispatchesNothing' /\ AckIsEarned'
BY DEF CallEnds, ConnectsRightly, ConnectDispatchesNothing, AckIsEarned

\* Nor is one that starts, or goes on, anywhere but in connect.
LEMMA BeginsQuiet ==
  ASSUME NEW c, NEW place \in {"recv", "auth", "subscribe", "request"}, NEW n, Begin(c, place, n)
  PROVE  /\ ConnectDispatchesNothing' /\ AckIsEarned'
         /\ c # "connect" /\ place # "auth" => ConnectsRightly'
BY DEF Begin, ConnectsRightly, ConnectDispatchesNothing, AckIsEarned

LEMMA ReadsQuiet ==
  ASSUME TypeOK, call # "connect", NEW p \in Packets,
         ReadOne(p) \/ PingReads(p) \/ RegisterReads(p)
  PROVE  ConnectsRightly' /\ ConnectDispatchesNothing' /\ AckIsEarned'
BY ReadsRun DEF ConnectsRightly, ConnectDispatchesNothing, AckIsEarned

LEMMA AfterAckQuiet ==
  ASSUME TypeOK, call # "connect", AfterAck
  PROVE  ConnectsRightly' /\ ConnectDispatchesNothing' /\ AckIsEarned'
BY AfterAckRun DEF ConnectsRightly, ConnectDispatchesNothing, AckIsEarned

\* What FbnsClient believes stays right in a step that leaves its connection alone, or
\* sees it fail.
LEMMA BelievesUnmoved ==
  ASSUME BelievesRightly, UNCHANGED <<kind, closing, sock>>,
         UNCHANGED <<connected, session>> \/ Breaks
  PROVE  BelievesRightly'
<1>1. CASE UNCHANGED <<connected, session>>
  BY <1>1 DEF BelievesRightly, ConnectSlipped
<1>2. CASE Breaks
  BY <1>2 DEF Breaks, NotedBreak, BelievesRightly, ConnectSlipped
<1> QED
  BY <1>1, <1>2

LEMMA ConnectsUnmoved ==
  ASSUME ConnectsRightly, UNCHANGED <<kind, closing, sock, session, call, pc>>
  PROVE  ConnectsRightly'
BY DEF ConnectsRightly

\* What the ids need of a step: those outstanding are none, or the same.
LEMMA IdsUnmoved ==
  ASSUME TypeOK, IdsAscend, packetId' \in Nat, packetId' >= packetId, ours' \subseteq ours,
         clash' = clash
  PROVE  IdsAscend'
<1>1. packetId \in Nat /\ packetId' >= packetId
  BY DEF TypeOK
<1>2. 1..packetId \subseteq 1..packetId'
  BY <1>1
<1> QED
  BY <1>2 DEF IdsAscend

\* A publish takes an id above every id that is outstanding.
LEMMA PublishAscends ==
  ASSUME TypeOK, IdsAscend, PublishSent
  PROVE  IdsAscend'
<1>1. /\ packetId \in Nat /\ packetId' = packetId + 1
      /\ ours' \subseteq ours \cup {packetId'} /\ ours \subseteq 1..packetId /\ sock
  BY PublishSentFacts DEF TypeOK, IdsAscend
<1>2. packetId' \notin ours /\ ours' \subseteq 1..packetId'
  BY <1>1
<1>3. ~clash'
  BY <1>2 DEF PublishSent, IdsAscend
<1> QED
  BY <1>1, <1>2, <1>3 DEF IdsAscend

LEMMA PublishRaisesKeepsIds ==
  ASSUME TypeOK, IdsAscend, PublishRaises, UNCHANGED <<ours, clash>>
  PROVE  IdsAscend'
BY PublishRaisesFacts, IdsUnmoved

LEMMA ConnectionKept == ConnectionInv /\ TypeOK' /\ [Next]_vars => ConnectionInv'
<1> SUFFICES ASSUME ConnectionInv, TypeOK', [Next]_vars
             PROVE  /\ ConnectsRightly' /\ BelievesRightly' /\ ConnectDispatchesNothing'
                    /\ IdsAscend' /\ AckIsEarned'
  BY DEF ConnectionInv
<1> USE DEF object, reading, running, broker, history
<1>t. /\ TypeOK /\ ConnectsRightly /\ BelievesRightly /\ ConnectDispatchesNothing
      /\ IdsAscend /\ AckIsEarned
  BY DEF ConnectionInv
<1>n. packetId \in Nat /\ packetId' \in Nat
  BY <1>t DEF TypeOK
<1>i. UNCHANGED <<packetId, clash>> /\ ours' \subseteq ours => IdsAscend'
  BY <1>t, <1>n, IdsUnmoved
<1>1. CASE RecvFails
  <2>1. CallEnds /\ (UNCHANGED <<connected, session>> \/ Breaks)
    BY <1>1 DEF RecvFails
  <2> QED
    BY <1>1, <1>t, <1>i, <2>1, EndsQuiet, BelievesUnmoved DEF RecvFails
<1>2. CASE Reads
  <2>1. PICK p \in Packets : (Arrives(p) \/ Misread(p)) /\ (ReadOne(p) \/ PingReads(p) \/ RegisterReads(p))
    BY <1>2 DEF Reads
  <2>2. ConnectsRightly' /\ ConnectDispatchesNothing' /\ AckIsEarned'
    BY <1>2, <1>t, <2>1, ReadsQuiet DEF Reads
  <2> QED
    BY <1>2, <1>t, <1>i, <2>2, BelievesUnmoved DEF Reads
<1>2t. CASE Trickle
  BY <1>2t, <1>t, <1>i, ConnectsUnmoved, BelievesUnmoved
  DEF Trickle, ConnectDispatchesNothing, AckIsEarned
<1>3. CASE HandlerReturns
  BY <1>3, <1>t, <1>i, ConnectsUnmoved, BelievesUnmoved
  DEF HandlerReturns, ConnectDispatchesNothing, AckIsEarned
<1>4. CASE HandlerRaises
  BY <1>4, <1>t, <1>i, EndsQuiet, BelievesUnmoved DEF HandlerRaises
<1>5. CASE HandlerPublishes
  <2>1. CASE PublishSent /\ pkt' = [pkt EXCEPT !.todo = @ - 1] /\ UNCHANGED <<connected, session, call, pc, left>>
    BY <1>5, <2>1, <1>t, ConnectsUnmoved, BelievesUnmoved, PublishAscends
    DEF HandlerPublishes, ConnectDispatchesNothing, AckIsEarned
  <2>2. CASE PublishRaises /\ UNCHANGED <<ours, clash>>
    BY <1>5, <2>2, <1>t, PublishRaisesFacts, PublishRaisesKeepsIds, EndsQuiet, BelievesUnmoved
    DEF HandlerPublishes
  <2> QED
    BY <1>5, <2>1, <2>2 DEF HandlerPublishes
<1>6. CASE Emitted
  <2>1. CASE ~pkt.first
    <3>1. ConnectsRightly' /\ ConnectDispatchesNothing'
      BY <1>6, <2>1, <1>t DEF Emitted, ConnectsRightly, ConnectDispatchesNothing
    <3>2. AckIsEarned'
      BY <1>6, <2>1 DEF Emitted, AckIsEarned
    <3> QED
      BY <1>6, <1>t, <1>i, <3>1, <3>2, BelievesUnmoved DEF Emitted
  <2>2. CASE pkt.first
    <3>1. ConnectsRightly' /\ ConnectDispatchesNothing' /\ AckIsEarned'
      BY <1>6, <2>2, EndsQuiet DEF Emitted, ConnectsRightly, ConnectDispatchesNothing, AckIsEarned
    <3> QED
      BY <1>6, <1>t, <1>i, <3>1, BelievesUnmoved DEF Emitted
  <2> QED
    BY <2>1, <2>2
<1>7. CASE Ack
  <2>1. call # "connect"
    BY <1>7, <1>t DEF Ack, ConnectDispatchesNothing
  <2>2. ConnectsRightly' /\ ConnectDispatchesNothing' /\ AckIsEarned'
    BY <1>7, <1>t, <2>1, AfterAckQuiet, EndsQuiet DEF Ack, SendRaises
  <2> QED
    BY <1>7, <1>t, <1>i, <2>2, SendRaisesFacts, BelievesUnmoved DEF Ack
<1>8. CASE ConnectReads
  <2>1. PICK p \in Packets :
          /\ Arrives(p)
          /\ \/ Begin("connect", "auth", 0) /\ Accepted /\ UNCHANGED connected
             \/ kind = "realtime" /\ CallEnds
             \/ CallEnds /\ UNCHANGED <<connected, session>>
    BY <1>8, Zenon DEF ConnectReads
  <2>2. ConnectDispatchesNothing' /\ AckIsEarned'
    BY <2>1, BeginsQuiet, EndsQuiet
  <2>3. sock /\ call = "connect" /\ pc = "recv" /\ UNCHANGED <<kind, closing, sock>>
    BY <1>8, <2>1 DEF ConnectReads, Arrives
  <2>4. CASE Begin("connect", "auth", 0) /\ Accepted /\ UNCHANGED connected
    <3>1. kind = "fbns" /\ closing # "close" => session' = "accepted"
      BY <1>t, <2>3, <2>4 DEF ConnectsRightly, Accepted
    <3>2. ConnectsRightly' /\ BelievesRightly'
      BY <2>3, <2>4, <3>1 DEF Begin, ConnectsRightly, BelievesRightly
    <3> QED
      BY <1>8, <1>i, <2>2, <3>2 DEF ConnectReads
  <2>5. CASE kind = "realtime" /\ CallEnds
    BY <1>8, <1>i, <2>2, <2>3, <2>5 DEF ConnectReads, ConnectsRightly, BelievesRightly
  <2>6. CASE CallEnds /\ UNCHANGED <<connected, session>>
    BY <1>8, <1>t, <1>i, <2>2, <2>3, <2>6, EndsQuiet, BelievesUnmoved DEF ConnectReads
  <2> QED
    BY <2>1, <2>4, <2>5, <2>6
<1>9. CASE AuthEmitted
  <2>1. ConnectsRightly' /\ ConnectDispatchesNothing' /\ AckIsEarned'
    BY <1>9, BeginsQuiet, EndsQuiet DEF AuthEmitted
  <2>2. BelievesRightly'
    BY <1>9, <1>t DEF AuthEmitted, ConnectsRightly, BelievesRightly, ConnectSlipped
  <2> QED
    BY <1>9, <1>i, <2>1, <2>2 DEF AuthEmitted
<1>10. CASE Subscribe
  <2>1. IdsAscend'
    BY <1>10, <1>t, PublishAscends, PublishRaisesKeepsIds DEF Subscribe
  <2>2. ConnectsRightly' /\ ConnectDispatchesNothing' /\ AckIsEarned'
    <3>1. Begin("register", "request", 0) \/ CallEnds
      BY <1>10, <1>t, PublishRaisesFacts DEF Subscribe
    <3> QED
      BY <3>1, BeginsQuiet, EndsQuiet
  <2> QED
    BY <1>10, <1>t, <2>1, <2>2, PublishRaisesFacts, BelievesUnmoved DEF Subscribe
<1>11. CASE RegisterToken
  <2>1. IdsAscend'
    BY <1>11, <1>t, PublishAscends, PublishRaisesKeepsIds DEF RegisterToken
  <2>2. ConnectsRightly' /\ ConnectDispatchesNothing' /\ AckIsEarned'
    <3>1. Begin("register", "recv", RegisterPackets) \/ CallEnds
      BY <1>11, <1>t, PublishRaisesFacts DEF RegisterToken
    <3>2. CASE Begin("register", "recv", RegisterPackets)
      BY <3>2, BeginsQuiet
    <3> QED
      BY <3>1, <3>2, EndsQuiet
  <2> QED
    BY <1>11, <1>t, <2>1, <2>2, PublishRaisesFacts, BelievesUnmoved DEF RegisterToken
<1>12. CASE RegisterPushToken
  BY <1>12, <1>t, <1>i, EndsQuiet, BelievesUnmoved DEF RegisterPushToken
<1>13. CASE UserConnects
  <2>1. ConnectDispatchesNothing' /\ AckIsEarned'
    BY <1>13, BeginsQuiet, EndsQuiet DEF UserConnects
  <2>2. UNCHANGED <<kind, closing>>
    BY <1>13 DEF UserConnects
  <2>3. IdsAscend'
    BY <1>13, <1>t DEF UserConnects, Opens, NoConnection, IdsAscend
  <2>4. CASE /\ Opens /\ Begin("connect", "recv", 1) /\ connected' = (client /\ connected)
             /\ session' = IF kind = "fbns" /\ client /\ connected THEN "again" ELSE "new"
    BY <2>1, <2>2, <2>3, <2>4 DEF Begin, ConnectsRightly, BelievesRightly, ConnectSlipped
  <2>5. CASE CallEnds /\ connected' = (client /\ connected /\ kind # "fbns")
    BY <2>1, <2>2, <2>3, <2>5, EndsQuiet DEF BelievesRightly
  <2>6. CASE /\ CallEnds /\ connected' = (client /\ connected)
             /\ client => UNCHANGED <<sock, session>>
    <3>1. connected' => connected /\ UNCHANGED <<sock, session>>
      BY <2>6, Zenon
    <3>2. BelievesRightly'
      BY <1>t, <2>2, <3>1 DEF BelievesRightly, ConnectSlipped
    <3> QED
      BY <2>1, <2>3, <2>6, <3>2, EndsQuiet
  <2> QED
    BY <1>13, <2>4, <2>5, <2>6 DEF UserConnects
<1>14. CASE UserRegisters
  <2>1. ConnectsRightly'
    BY <1>14 DEF UserRegisters, ConnectsRightly
  <2>2. BelievesRightly'
    BY <1>14, <1>t DEF UserRegisters, BelievesRightly, ConnectSlipped
  <2>3. IdsAscend'
    BY <1>14, <1>t DEF UserRegisters, NoConnection, IdsAscend
  <2> QED
    BY <1>14, <2>1, <2>2, <2>3 DEF UserRegisters, ConnectDispatchesNothing, AckIsEarned
<1>15. CASE UserReads
  BY <1>15, <1>t, <1>i, BeginsQuiet, BelievesUnmoved DEF UserReads
<1>16. CASE UserPings
  <2>1. ConnectsRightly' /\ ConnectDispatchesNothing' /\ AckIsEarned'
    <3>1. Begin("ping", "recv", PingPackets) \/ CallEnds
      BY <1>16 DEF UserPings, SendRaises
    <3> QED
      BY <3>1, BeginsQuiet, EndsQuiet
  <2> QED
    BY <1>16, <1>t, <1>i, <2>1, SendRaisesFacts, BelievesUnmoved DEF UserPings
<1>17. CASE UserPublishes
  <2>1. IdsAscend'
    BY <1>17, <1>t, PublishAscends, PublishRaisesKeepsIds DEF UserPublishes
  <2>2. ConnectsRightly' /\ ConnectDispatchesNothing' /\ AckIsEarned'
    BY <1>17, <1>t, EndsQuiet, PublishRaisesFacts DEF UserPublishes
  <2> QED
    BY <1>17, <1>t, <2>1, <2>2, PublishRaisesFacts, BelievesUnmoved DEF UserPublishes
<1>18. CASE Disconnect
  <2>1. CASE DisconnectBegins
    <3>1. ConnectsRightly' /\ BelievesRightly'
      BY <1>t, <2>1
      DEF DisconnectBegins, Breaks, NotedBreak, ConnectsRightly, BelievesRightly, ConnectSlipped
    <3> QED
      BY <1>t, <1>i, <2>1, <3>1 DEF DisconnectBegins, ConnectDispatchesNothing, AckIsEarned
  <2>2. CASE TransportDisconnects
    <3>1. ConnectsRightly' /\ BelievesRightly'
      BY <2>2 DEF TransportDisconnects, NoConnection, ConnectsRightly, BelievesRightly
    <3> QED
      BY <1>t, <1>i, <2>2, <3>1
      DEF TransportDisconnects, NoConnection, ConnectDispatchesNothing, AckIsEarned
  <2>3. CASE DisconnectNotes
    <3>1. ConnectsRightly' /\ BelievesRightly'
      BY <1>t, <2>3 DEF DisconnectNotes, ConnectsRightly, BelievesRightly
    <3> QED
      BY <1>t, <1>i, <2>3, <3>1 DEF DisconnectNotes, ConnectDispatchesNothing, AckIsEarned
  <2>4. CASE MixinForgets
    <3>1. ConnectsRightly' /\ BelievesRightly'
      BY <1>t, <2>4 DEF MixinForgets, ConnectsRightly, BelievesRightly, ConnectSlipped
    <3> QED
      BY <1>t, <1>i, <2>4, <3>1 DEF MixinForgets, ConnectDispatchesNothing, AckIsEarned
  <2> QED
    BY <1>18, <2>1, <2>2, <2>3, <2>4 DEF Disconnect
<1>19. CASE BrokerAnswers
  BY <1>19, <1>t, <1>i, ConnectsUnmoved, BelievesUnmoved
  DEF BrokerAnswers, ConnectDispatchesNothing, AckIsEarned
<1>20. CASE BrokerAcks
  <2>1. ours' \subseteq ours
    BY <1>20 DEF BrokerAcks
  <2> QED
    BY <1>20, <1>t, <1>i, <2>1, ConnectsUnmoved, BelievesUnmoved
    DEF BrokerAcks, ConnectDispatchesNothing, AckIsEarned
<1>21. CASE BrokerPublishes
  <2>1. PICK p \in Publishes :
          /\ p.qos = 1 /\ p.id \notin unacked => ~Pending(p.id)
          /\ unacked' = (IF p.qos = 1 THEN unacked \cup {p.id} ELSE unacked)
          /\ handled' = (IF p.id \in unacked THEN handled ELSE handled \ {p.id})
    BY <1>21 DEF BrokerPublishes
  <2>2. AckIsEarned'
    <3> SUFFICES ASSUME pc = "ack", ~pkt.first, pkt.packet.qos = 1
                 PROVE  pkt.packet.id \in handled' \/ pkt.packet.id \notin unacked'
      BY <1>21 DEF BrokerPublishes, AckIsEarned
    <3>1. CASE p.id # pkt.packet.id
      BY <1>t, <2>1, <3>1 DEF AckIsEarned
    <3>2. CASE p.id = pkt.packet.id /\ p.id \in unacked
      BY <1>t, <2>1, <3>2 DEF AckIsEarned
    <3>3. CASE p.id = pkt.packet.id /\ p.id \notin unacked
      <4>1. Pending(p.id)
        BY <3>3 DEF Pending
      <4> QED
        BY <2>1, <3>3, <4>1
    <3> QED
      BY <3>1, <3>2, <3>3
  <2> QED
    BY <1>21, <1>t, <1>i, <2>2, ConnectsUnmoved, BelievesUnmoved
    DEF BrokerPublishes, ConnectDispatchesNothing
<1>22. CASE BrokerGoes
  BY <1>22, <1>t, <1>i, ConnectsUnmoved, BelievesUnmoved
  DEF BrokerGoes, ConnectDispatchesNothing, AckIsEarned
<1>23. CASE UNCHANGED vars
  BY <1>23, <1>t, <1>i, ConnectsUnmoved, BelievesUnmoved
  DEF vars, ConnectDispatchesNothing, AckIsEarned
<1> QED
  BY <1>1, <1>2, <1>3, <1>4, <1>5, <1>6, <1>7, <1>8, <1>9, <1>10, <1>11, <1>12, <1>13,
     <1>14, <1>15, <1>16, <1>17, <1>18, <1>19, <1>20, <1>21, <1>22, <1>23, <1>2t
  DEF Next, Progress, User, Broker

LEMMA ConnectionHolds == Spec => []ConnectionInv
<1>1. ConnectionInv /\ [Next]_vars => ConnectionInv'
  BY Typing, ConnectionKept DEF ConnectionInv
<1> QED
  BY ConnectionInit, <1>1, PTL DEF Spec

\* What a client believes of its connection is true: FbnsClient says it is connected
\* only with a socket that was accepted and on which nothing has failed, in the middle
\* of a call as between calls, unless a disconnect is under way or connect has slipped
\* (FbnsClient.connect and disconnect); and no publish of either client, at any length
\* of the connection and from within any number of handlers, takes an id that is still
\* outstanding (_publish_bytes).
THEOREM ConnectionKnown == Spec => []ConnectionIsKnown
<1>1. ConnectionInv => ConnectionIsKnown
  BY DEF ConnectionInv, BelievesRightly, IdsAscend, ConnectionIsKnown, FbnsKnowsItIsClosed, NoIdTwice
<1> QED
  BY ConnectionHolds, <1>1, PTL

\* A message is acknowledged only when every handler of it has returned, also where
\* the broker sends it again, and others with ids that are free, meanwhile.
THEOREM AcksAreEarned == Spec => AcksFollowHandlers
<1>1. ConnectionInv /\ [Next]_vars =>
        [pc = "ack" /\ sock' /\ ~pkt.first /\ ~cut => (unacked \ unacked') \subseteq handled]_vars
  <2> SUFFICES ASSUME ConnectionInv, Next, pc = "ack", sock', ~pkt.first
               PROVE  (unacked \ unacked') \subseteq handled
    OBVIOUS
  <2> USE DEF object, reading, running, broker, history
  <2>1. CASE Ack
    <3>1. unacked \ unacked' \subseteq (IF pkt.packet.qos = 1 THEN {pkt.packet.id} ELSE {})
      BY <2>1 DEF Ack
    <3> QED
      BY <3>1 DEF ConnectionInv, AckIsEarned
  <2>2. CASE Disconnect
    BY <2>2
    DEF Disconnect, DisconnectBegins, TransportDisconnects, NoConnection, DisconnectNotes, MixinForgets
  <2>3. CASE BrokerPublishes
    BY <2>3 DEF BrokerPublishes
  <2>4. CASE UserConnects \/ UserRegisters \/ UserReads \/ UserPings \/ UserPublishes
    BY <2>4 DEF UserConnects, UserRegisters, UserReads, UserPings, UserPublishes
  <2>5. CASE HandlerPublishes \/ BrokerAnswers \/ BrokerAcks \/ BrokerGoes
    BY <2>5 DEF HandlerPublishes, BrokerAnswers, BrokerAcks, BrokerGoes
  <2>8. CASE Trickle
    BY <2>8 DEF Trickle
  <2>6. CASE RecvFails \/ Reads \/ HandlerReturns \/ HandlerRaises \/ Emitted
    BY <2>6 DEF RecvFails, Reads, HandlerReturns, HandlerRaises, Emitted
  <2>7. CASE ConnectReads \/ AuthEmitted \/ Subscribe \/ RegisterToken \/ RegisterPushToken
    BY <2>7 DEF ConnectReads, AuthEmitted, Subscribe, RegisterToken, RegisterPushToken
  <2> QED
    BY <2>1, <2>2, <2>3, <2>4, <2>5, <2>6, <2>7, <2>8 DEF Next, Progress, User, Broker
<1> QED
  BY ConnectionHolds, <1>1, PTL DEF Spec, AcksFollowHandlers

-------------------------------------------------------------------------------
(* The length of a packet is read as it was written, however long.           *)

LEMMA SmallestNumber ==
  ASSUME NEW S \in SUBSET Nat, S # {}
  PROVE  \E n \in S : \A k \in S : n <= k
<1> DEFINE less == {p \in Nat \X Nat : p[1] < p[2]}
<1>1. OpToRel(<, Nat) = less
  BY Zenon DEF OpToRel
<1>2. IsWellFoundedOn(less, Nat)
  BY <1>1, NatLessThanWellFounded
<1>3. PICK n \in S : \A k \in S : <<k, n>> \notin less
  <2> HIDE DEF less
  <2> QED
    BY <1>2, WFMin
<1>4. \A k \in S : ~(k < n)
  BY <1>3
<1> QED
  BY <1>4

\* The bytes of n, when f has those of smaller numbers.
Digits(f, n) ==
  IF n \div 128 = 0 THEN <<n % 128>> ELSE <<128 + (n % 128)>> \o f[n \div 128]
IsEncoding(n, f) == f = [i \in 0..n |-> Digits(f, i)]

LEMMA EncodingExists ==
  ASSUME NEW top \in Nat
  PROVE  \E f : IsEncoding(top, f)
<1> DEFINE Bad == {n \in Nat : ~ \E f : IsEncoding(n, f)}
<1>1. SUFFICES ASSUME Bad # {} PROVE FALSE
  BY Zenon
<1>2. PICK n \in Bad : \A k \in Bad : n <= k
  <2>1. Bad \in SUBSET Nat
    OBVIOUS
  <2> HIDE DEF Bad
  <2> QED
    BY <1>1, <2>1, SmallestNumber
<1>3. n \in Nat /\ ~ \E f : IsEncoding(n, f)
  BY <1>2
<1>4. CASE n = 0
  <2>1. IsEncoding(0, [i \in 0..0 |-> <<0>>])
    <3>1. \A f : \A i \in 0..0 : Digits(f, i) = <<0>>
      BY DEF Digits
    <3> QED
      BY <3>1 DEF IsEncoding
  <2> QED
    BY <1>3, <1>4, <2>1
<1>5. CASE n # 0
  <2>1. n - 1 \in Nat /\ n - 1 \notin Bad
    BY <1>2, <1>3, <1>5
  <2>2. PICK f : IsEncoding(n - 1, f)
    BY <2>1
  <2> DEFINE more == [i \in 0..n |-> IF i < n THEN f[i] ELSE Digits(f, i)]
  <2>3. \A i \in 0..(n - 1) : f[i] = Digits(f, i)
    BY <2>2 DEF IsEncoding
  <2>4. \A i \in 0..(n - 1) : more[i] = f[i]
    BY <1>3
  <2>5. more[n] = Digits(f, n) /\ more = [i \in 0..n |-> more[i]]
    BY <1>3
  <2> HIDE DEF more
  <2>6. \A i \in 0..n : more[i] = Digits(f, i)
    <3>1. \A i \in 0..n : i = n \/ i \in 0..(n - 1)
      BY <1>3
    <3>2. \A i \in 0..(n - 1) : more[i] = Digits(f, i)
      BY <2>3, <2>4, Zenon
    <3>3. more[n] = Digits(f, n)
      BY <2>5
    <3> QED
      BY <3>1, <3>2, <3>3, Zenon
  <2>7. \A i \in 0..n : Digits(more, i) = Digits(f, i)
    <3> SUFFICES ASSUME NEW i \in 0..n, i \div 128 # 0
                 PROVE  more[i \div 128] = f[i \div 128]
      BY DEF Digits
    <3>1. i \div 128 \in 0..(n - 1)
      BY <1>3
    <3> QED
      BY <2>4, <3>1
  <2>8. IsEncoding(n, more)
    BY <2>5, <2>6, <2>7 DEF IsEncoding
  <2> QED
    BY <1>3, <2>8
<1> QED
  BY <1>4, <1>5

LEMMA EncodingsAgree ==
  ASSUME NEW m \in Nat, NEW n \in Nat, NEW f, NEW g, IsEncoding(m, f), IsEncoding(n, g)
  PROVE  \A i \in Nat : i <= m /\ i <= n => f[i] = g[i]
<1> DEFINE Bad == {i \in Nat : i <= m /\ i <= n /\ f[i] # g[i]}
<1>1. SUFFICES ASSUME Bad # {} PROVE FALSE
  BY Zenon
<1>2. PICK i \in Bad : \A k \in Bad : i <= k
  <2>1. Bad \in SUBSET Nat
    OBVIOUS
  <2> HIDE DEF Bad
  <2> QED
    BY <1>1, <2>1, SmallestNumber
<1>3. i \in Nat /\ i <= m /\ i <= n /\ f[i] # g[i]
  BY <1>2
<1>4. f[i] = Digits(f, i) /\ g[i] = Digits(g, i)
  <2>1. i \in 0..m /\ i \in 0..n
    BY <1>3
  <2>2. \A j \in 0..m : f[j] = Digits(f, j)
    BY DEF IsEncoding
  <2>3. \A j \in 0..n : g[j] = Digits(g, j)
    BY DEF IsEncoding
  <2> QED
    BY <2>1, <2>2, <2>3, Zenon
<1>5. CASE i \div 128 = 0
  BY <1>3, <1>4, <1>5 DEF Digits
<1>6. CASE i \div 128 # 0
  <2>1. i \div 128 \in Nat /\ i \div 128 < i
    BY <1>3, <1>6
  <2>2. f[i \div 128] = g[i \div 128]
    BY <1>2, <1>3, <2>1
  <2> QED
    BY <1>3, <1>4, <1>6, <2>2 DEF Digits
<1> QED
  BY <1>5, <1>6

LEMMA EncodeLengthIs == \A n \in Nat : EncodeLength[n] = Digits(EncodeLength, n)
<1> DEFINE upto(n) == CHOOSE f : IsEncoding(n, f)
           all == [n \in Nat |-> upto(n)[n]]
<1>1. \A n \in Nat : IsEncoding(n, upto(n))
  BY EncodingExists, Zenon
<1>2. ASSUME NEW n \in Nat
      PROVE  all[n] = Digits(all, n)
  <2>1. all[n] = upto(n)[n]
    OBVIOUS
  <2>2. upto(n)[n] = Digits(upto(n), n)
    <3> HIDE DEF upto
    <3> QED
      BY <1>1 DEF IsEncoding
  <2>3. ASSUME n \div 128 # 0
        PROVE  all[n \div 128] = upto(n)[n \div 128]
    <3>1. n \div 128 \in Nat /\ n \div 128 <= n
      OBVIOUS
    <3>2. all[n \div 128] = upto(n \div 128)[n \div 128]
      BY <3>1
    <3> HIDE DEF all, upto
    <3> QED
      BY <1>1, <3>1, <3>2, EncodingsAgree
  <2> HIDE DEF all, upto
  <2> QED
    BY <2>1, <2>2, <2>3 DEF Digits
<1>3. all = [n \in Nat |-> Digits(all, n)]
  <2>1. all = [n \in Nat |-> all[n]]
    OBVIOUS
  <2> HIDE DEF all
  <2> QED
    BY <1>2, <2>1
<1> HIDE DEF all
<1>4. EncodeLength = CHOOSE f : f = [n \in Nat |-> Digits(f, n)]
  BY Zenon DEF EncodeLength, Digits
<1>5. EncodeLength = [n \in Nat |-> Digits(EncodeLength, n)]
  BY <1>3, <1>4, Zenon
<1> QED
  BY <1>5, Zenon

\* The bytes of n: all but the last from 128 on.
LEMMA EncodingFacts ==
  \A n \in Nat : /\ EncodeLength[n] \in Seq(Byte)
                 /\ Len(EncodeLength[n]) >= 1
                 /\ EncodeLength[n][Len(EncodeLength[n])] < 128
                 /\ \A i \in 1..(Len(EncodeLength[n]) - 1) : EncodeLength[n][i] >= 128
<1> DEFINE Good(s) == /\ s \in Seq(Byte) /\ Len(s) >= 1 /\ s[Len(s)] < 128
                      /\ \A i \in 1..(Len(s) - 1) : s[i] >= 128
           Bad == {n \in Nat : ~Good(EncodeLength[n])}
<1>1. SUFFICES ASSUME Bad # {} PROVE FALSE
  OBVIOUS
<1>2. PICK n \in Bad : \A k \in Bad : n <= k
  <2>1. Bad \in SUBSET Nat
    OBVIOUS
  <2> HIDE DEF Bad
  <2> QED
    BY <1>1, <2>1, SmallestNumber
<1>3. n \in Nat /\ ~Good(EncodeLength[n])
  BY <1>2
<1>4. EncodeLength[n] = Digits(EncodeLength, n)
  BY <1>3, EncodeLengthIs
<1>5. CASE n \div 128 = 0
  <2>1. EncodeLength[n] = <<n % 128>> /\ n % 128 \in Byte /\ n % 128 < 128
    BY <1>3, <1>4, <1>5 DEF Digits, Byte
  <2> QED
    BY <1>3, <2>1
<1>6. CASE n \div 128 # 0
  <2>1. n \div 128 \in Nat /\ n \div 128 < n
    BY <1>3, <1>6
  <2>2. Good(EncodeLength[n \div 128])
    BY <1>2, <1>3, <2>1
  <2> DEFINE s == EncodeLength[n \div 128]
             b == 128 + (n % 128)
  <2>3. EncodeLength[n] = <<b>> \o s
    BY <1>4, <1>6 DEF Digits
  <2>4. b \in Byte /\ b >= 128
    BY <1>3 DEF Byte
  <2> HIDE DEF s, b
  <2>5. s \in Seq(Byte) /\ Len(s) >= 1 /\ s[Len(s)] < 128 /\ \A i \in 1..(Len(s) - 1) : s[i] >= 128
    BY <2>2 DEF s
  <2>6. /\ <<b>> \o s \in Seq(Byte) /\ Len(<<b>> \o s) = Len(s) + 1 /\ (<<b>> \o s)[1] = b
        /\ \A i \in 1..Len(s) : (<<b>> \o s)[i + 1] = s[i]
    BY <2>4, <2>5
  <2>7. ASSUME NEW i \in 1..Len(s)
        PROVE  (<<b>> \o s)[i] >= 128
    <3>1. CASE i = 1
      BY <2>4, <2>6, <3>1
    <3>2. CASE i # 1
      <4>1. i - 1 \in 1..(Len(s) - 1) /\ (i - 1) + 1 = i
        BY <2>5, <3>2
      <4> QED
        BY <2>5, <2>6, <4>1
    <3> QED
      BY <3>1, <3>2
  <2>8. Good(<<b>> \o s)
    <3>1. Len(s) \in 1..Len(s)
      BY <2>5
    <3>2. (<<b>> \o s)[Len(s) + 1] < 128
      BY <2>5, <2>6, <3>1
    <3> QED
      BY <2>5, <2>6, <2>7, <3>2
  <2> QED
    BY <1>3, <2>3, <2>8
<1> QED
  BY <1>5, <1>6

LEMMA ByteFacts == \A b \in Byte : b \in Nat /\ b < 256
BY DEF Byte

\* The bytes s stand in data from pos on.
Holds(data, pos, s) ==
  pos + Len(s) - 1 <= Len(data) /\ \A i \in 1..Len(s) : data[pos + i - 1] = s[i]

LEMMA EndFound ==
  ASSUME NEW data \in Seq(Byte), NEW pos \in Nat \ {0}, NEW n \in Nat, Holds(data, pos, EncodeLength[n])
  PROVE  LengthEnd(data, pos) = pos + Len(EncodeLength[n]) - 1
<1> DEFINE s == EncodeLength[n]
           end == pos + Len(s) - 1
           Ends(e) == data[e] < 128 /\ \A i \in pos..(e - 1) : data[i] >= 128
<1>1. /\ s \in Seq(Byte) /\ Len(s) >= 1 /\ s[Len(s)] < 128
      /\ \A i \in 1..(Len(s) - 1) : s[i] >= 128
  BY EncodingFacts
<1>2. end <= Len(data) /\ \A i \in 1..Len(s) : data[pos + i - 1] = s[i]
  BY DEF Holds
<1> HIDE DEF s
<1>3. Len(s) \in Nat /\ end \in pos..Len(data)
  BY <1>1, <1>2
<1>4. data[end] < 128
  <2>1. Len(s) \in 1..Len(s) /\ pos + Len(s) - 1 = end
    BY <1>1, <1>3
  <2> QED
    BY <1>1, <1>2, <2>1
<1>5. ASSUME NEW i \in pos..(end - 1) PROVE data[i] >= 128
  <2>1. i - pos + 1 \in 1..(Len(s) - 1) /\ i - pos + 1 \in 1..Len(s) /\ pos + (i - pos + 1) - 1 = i
    BY <1>3
  <2> QED
    BY <1>1, <1>2, <2>1
<1>6. ASSUME NEW e \in pos..Len(data), Ends(e) PROVE e = end
  <2>0. e \in Nat /\ end \in Nat
    BY <1>3
  <2>a. \A i \in pos..Len(data) : data[i] \in Nat
    <3>0. (\A i \in 1..Len(data) : data[i] \in Byte) /\ Len(data) \in Nat
      OBVIOUS
    <3>1. \A i \in 1..Len(data) : data[i] \in Nat
      BY <3>0, ByteFacts
    <3>2. ASSUME NEW i \in pos..Len(data) PROVE i \in 1..Len(data)
      OBVIOUS
    <3> QED
      BY <3>1, <3>2, Zenon
  <2>1. ~(e < end)
    <3> SUFFICES ASSUME e < end PROVE FALSE
      OBVIOUS
    <3>1. e \in pos..(end - 1)
      BY <2>0
    <3>2. data[e] >= 128 /\ data[e] < 128
      BY <1>5, <1>6, <3>1
    <3> QED
      BY <2>a, <3>2
  <2>2. ~(end < e)
    <3> SUFFICES ASSUME end < e PROVE FALSE
      OBVIOUS
    <3>1. end \in pos..(e - 1)
      BY <1>3, <2>0
    <3>2. data[end] >= 128
      BY <1>6, <3>1
    <3>3. data[end] \in Nat /\ data[end] < 128
      BY <1>3, <1>4, <2>a
    <3> HIDE DEF end
    <3> QED
      BY <3>2, <3>3
  <2> QED
    BY <2>0, <2>1, <2>2
<1>7. LengthEnd(data, pos) = CHOOSE e \in pos..Len(data) : Ends(e)
  BY Zenon DEF LengthEnd
<1>8. Ends(end)
  BY <1>4, <1>5
<1> HIDE DEF Ends, end
<1>9. LengthEnd(data, pos) = end
  BY <1>3, <1>6, <1>7, <1>8
<1> QED
  BY <1>9 DEF end, s

\* The value of the bytes from i to end.
ValueStep(data, end, v, i) == (data[i] % 128) + (IF i = end THEN 0 ELSE 128 * v[i + 1])
IsValue(data, low, end, v) == v = [i \in low..end |-> ValueStep(data, end, v, i)]

LEMMA ValueExists ==
  ASSUME NEW data, NEW pos \in Nat, NEW end \in Nat, pos <= end
  PROVE  \E v : IsValue(data, pos, end, v)
<1> DEFINE Bad == {n \in 0..end : ~ \E v : IsValue(data, end - n, end, v)}
<1>1. SUFFICES ASSUME Bad # {} PROVE FALSE
  <2>1. end - pos \in 0..end /\ end - (end - pos) = pos
    OBVIOUS
  <2>2. Bad = {} => \E v : IsValue(data, end - (end - pos), end, v)
    BY <2>1, Zenon
  <2> QED
    BY <2>1, <2>2
<1>2. PICK n \in Bad : \A k \in Bad : n <= k
  <2>1. Bad \in SUBSET Nat
    OBVIOUS
  <2> HIDE DEF Bad
  <2> QED
    BY <1>1, <2>1, SmallestNumber
<1>3. n \in 0..end /\ ~ \E v : IsValue(data, end - n, end, v)
  BY <1>2
<1>4. CASE n = 0
  <2>1. end - n = end
    BY <1>4
  <2>2. IsValue(data, end, end, [i \in end..end |-> (data[i] % 128) + 0])
    <3>1. \A v : \A i \in end..end : ValueStep(data, end, v, i) = (data[i] % 128) + 0
      BY DEF ValueStep
    <3> QED
      BY <3>1 DEF IsValue
  <2> QED
    BY <1>3, <2>1, <2>2
<1>5. CASE n # 0
  <2> DEFINE low == end - n
  <2>1. n - 1 \in 0..end /\ n - 1 \notin Bad /\ end - (n - 1) = low + 1 /\ low \in Nat /\ low < end
    BY <1>2, <1>3, <1>5
  <2>2. PICK v : IsValue(data, low + 1, end, v)
    BY <2>1
  <2> DEFINE more == [i \in low..end |-> IF i = low THEN ValueStep(data, end, v, i) ELSE v[i]]
  <2> HIDE DEF low
  <2>3. \A i \in (low + 1)..end : v[i] = ValueStep(data, end, v, i)
    BY <2>2 DEF IsValue
  <2>4. \A i \in (low + 1)..end : more[i] = v[i]
    BY <2>1
  <2>5. more[low] = ValueStep(data, end, v, low) /\ more = [i \in low..end |-> more[i]]
    BY <2>1
  <2> HIDE DEF more
  <2>6. \A i \in low..end : more[i] = ValueStep(data, end, v, i)
    <3>1. \A i \in low..end : i = low \/ i \in (low + 1)..end
      BY <2>1
    <3>2. \A i \in (low + 1)..end : more[i] = ValueStep(data, end, v, i)
      BY <2>3, <2>4, Zenon
    <3>3. more[low] = ValueStep(data, end, v, low)
      BY <2>5
    <3> QED
      BY <3>1, <3>2, <3>3, Zenon
  <2>7. \A i \in low..end : ValueStep(data, end, more, i) = ValueStep(data, end, v, i)
    <3> SUFFICES ASSUME NEW i \in low..end, i # end PROVE more[i + 1] = v[i + 1]
      BY DEF ValueStep
    <3>1. i + 1 \in (low + 1)..end
      BY <2>1
    <3> QED
      BY <2>4, <3>1
  <2>8. IsValue(data, low, end, more)
    BY <2>5, <2>6, <2>7 DEF IsValue
  <2> QED
    BY <1>3, <2>8 DEF low
<1> QED
  BY <1>4, <1>5

LEMMA ValueIs ==
  ASSUME NEW data \in Seq(Byte), NEW low \in Nat \ {0}, NEW end \in Nat, NEW v, IsValue(data, low, end, v)
  PROVE  \A n \in Nat : \A pos \in low..end :
           Holds(data, pos, EncodeLength[n]) /\ pos + Len(EncodeLength[n]) - 1 = end => v[pos] = n
<1> DEFINE Good(n) == \A pos \in low..end :
             Holds(data, pos, EncodeLength[n]) /\ pos + Len(EncodeLength[n]) - 1 = end => v[pos] = n
           Bad == {n \in Nat : ~Good(n)}
<1>1. SUFFICES ASSUME Bad # {} PROVE FALSE
  OBVIOUS
<1>2. PICK n \in Bad : \A k \in Bad : n <= k
  <2>1. Bad \in SUBSET Nat
    OBVIOUS
  <2> HIDE DEF Bad
  <2> QED
    BY <1>1, <2>1, SmallestNumber
<1>3. n \in Nat /\ ~Good(n) /\ \A k \in Nat : k < n => Good(k)
  BY <1>2
<1>4. PICK pos \in low..end :
        Holds(data, pos, EncodeLength[n]) /\ pos + Len(EncodeLength[n]) - 1 = end /\ v[pos] # n
  BY <1>3
<1> DEFINE s == EncodeLength[n]
<1>5. s \in Seq(Byte) /\ Len(s) >= 1 /\ Len(s) \in Nat
  BY <1>3, EncodingFacts
<1>6. s = Digits(EncodeLength, n)
  BY <1>3, EncodeLengthIs
<1>7. \A i \in 1..Len(s) : data[pos + i - 1] = s[i]
  BY <1>4 DEF Holds
<1>8. end <= Len(data)
  BY <1>4 DEF Holds
<1>9. v[pos] = ValueStep(data, end, v, pos)
  BY DEF IsValue
<1>10. CASE n \div 128 = 0
  <2>1. s = <<n % 128>> /\ n % 128 = n
    BY <1>3, <1>6, <1>10 DEF Digits
  <2>2. pos = end /\ data[pos] = n
    BY <1>4, <1>7, <2>1
  <2>3. v[pos] = (n % 128) + 0
    BY <1>9, <2>2 DEF ValueStep
  <2> QED
    BY <1>3, <1>4, <2>1, <2>3
<1>11. CASE n \div 128 # 0
  <2> DEFINE m == n \div 128
             t == EncodeLength[m]
             b == 128 + (n % 128)
  <2>1. m \in Nat /\ m < n
    BY <1>3, <1>11
  <2>2. t \in Seq(Byte) /\ Len(t) >= 1 /\ Len(t) \in Nat
    BY <2>1, EncodingFacts
  <2>3. s = <<b>> \o t
    BY <1>6, <1>11 DEF Digits
  <2>4. b \in Nat /\ b % 128 = n % 128 /\ 128 * m + (n % 128) = n
    BY <1>3
  <2> HIDE DEF s, t, b, m
  <2>5. Len(s) = Len(t) + 1 /\ s[1] = b /\ \A i \in 1..Len(t) : s[i + 1] = t[i]
    BY <2>2, <2>3, <2>4
  <2>6. pos + 1 \in low..end /\ (pos + 1) + Len(t) - 1 = end /\ pos # end
    BY <1>4, <2>2, <2>5 DEF s
  <2>7. Holds(data, pos + 1, t)
    <3>1. ASSUME NEW i \in 1..Len(t)
          PROVE  data[(pos + 1) + i - 1] = t[i]
      <4>1. i + 1 \in 1..Len(s) /\ pos + (i + 1) - 1 = (pos + 1) + i - 1
        <5>1. pos \in Nat /\ i \in Nat /\ i <= Len(t) /\ Len(s) = Len(t) + 1
          BY <2>2, <2>5
        <5> QED
          BY <2>2, <5>1
      <4>2. data[pos + (i + 1) - 1] = s[i + 1]
        BY <1>7, <4>1
      <4>3. s[i + 1] = t[i]
        BY <2>5
      <4> QED
        BY <4>1, <4>2, <4>3
    <3>2. (pos + 1) + Len(t) - 1 <= Len(data)
      BY <1>8, <2>6
    <3> QED
      BY <3>1, <3>2, Zenon DEF Holds
  <2>8. v[pos + 1] = m
    BY <1>3, <2>1, <2>6, <2>7 DEF t
  <2>9. data[pos] = b
    <3>1. 1 \in 1..Len(s) /\ pos + 1 - 1 = pos
      BY <1>5
    <3> QED
      BY <1>7, <2>5, <3>1
  <2>10. v[pos] = (b % 128) + 128 * m
    BY <1>9, <2>6, <2>8, <2>9 DEF ValueStep
  <2>11. v[pos] = n
    BY <1>3, <2>1, <2>4, <2>10
  <2> QED
    BY <1>4, <2>11
<1> QED
  BY <1>10, <1>11

ValueOf(data, pos, end) == CHOOSE v : IsValue(data, pos, end, v)

LEMMA LengthRead ==
  ASSUME NEW data \in Seq(Byte), NEW pos \in Nat \ {0}, NEW n \in Nat, Holds(data, pos, EncodeLength[n])
  PROVE  DecodeLength(data, pos) = n
<1> DEFINE end == pos + Len(EncodeLength[n]) - 1
           value == ValueOf(data, pos, end)
<1>1. LengthEnd(data, pos) = end
  BY EndFound
<1>2. end \in Nat /\ pos <= end
  BY EncodingFacts
<1>3. DecodeLength(data, pos) = value[pos]
  <2>1. DecodeLength(data, pos) = ValueOf(data, pos, LengthEnd(data, pos))[pos]
    BY Zenon DEF DecodeLength, ValueOf, IsValue, ValueStep
  <2> HIDE DEF end
  <2> QED
    BY <1>1, <2>1, Zenon
<1>4. IsValue(data, pos, end, value)
  <2> HIDE DEF end
  <2> QED
    BY <1>2, ValueExists, Zenon DEF ValueOf
<1>5. pos \in pos..end
  BY <1>2
<1>6. \A k \in Nat : \A p \in pos..end :
        Holds(data, p, EncodeLength[k]) /\ p + Len(EncodeLength[k]) - 1 = end => value[p] = k
  <2> HIDE DEF end, value
  <2> QED
    BY <1>2, <1>4, ValueIs
<1>7. value[pos] = n
  <2> HIDE DEF value
  <2> QED
    BY <1>5, <1>6
<1> QED
  BY <1>3, <1>7

-------------------------------------------------------------------------------
(* A packet is cut off the stream and taken apart as it was put together.    *)

LEMMA JoinFacts ==
  ASSUME NEW s \in Seq(Byte), NEW t \in Seq(Byte)
  PROVE  /\ s \o t \in Seq(Byte) /\ Len(s \o t) = Len(s) + Len(t)
         /\ Len(s) \in Nat /\ Len(t) \in Nat
         /\ \A i \in 1..Len(s) : (s \o t)[i] = s[i]
         /\ \A i \in 1..Len(t) : (s \o t)[Len(s) + i] = t[i]
OBVIOUS

LEMMA PartFacts ==
  ASSUME NEW s \in Seq(Byte), NEW a \in Nat, NEW n \in Nat, a + n <= Len(s)
  PROVE  /\ SubSeq(s, a + 1, a + n) \in Seq(Byte) /\ Len(SubSeq(s, a + 1, a + n)) = n
         /\ \A i \in 1..n : SubSeq(s, a + 1, a + n)[i] = s[a + i]
<1>1. SubSeq(s, a + 1, a + n) = [i \in 1..n |-> s[a + i]]
  BY SMTT(20)
<1>2. \A i \in 1..n : s[a + i] \in Byte
  OBVIOUS
<1> QED
  BY <1>1, <1>2

LEMMA SameBytes ==
  ASSUME NEW s \in Seq(Byte), NEW t \in Seq(Byte), Len(s) = Len(t), \A i \in 1..Len(t) : s[i] = t[i]
  PROVE  s = t
OBVIOUS

LEMMA BehindFacts ==
  ASSUME NEW s \in Seq(Byte), NEW n \in Nat, n <= Len(s)
  PROVE  /\ Behind(n, s) \in Seq(Byte) /\ Len(Behind(n, s)) = Len(s) - n
         /\ \A i \in 1..(Len(s) - n) : Behind(n, s)[i] = s[n + i]
<1> DEFINE k == Len(s) - n
<1>1. k \in Nat /\ n + k = Len(s)
  OBVIOUS
<1> HIDE DEF k
<1>2. Behind(n, s) = SubSeq(s, n + 1, n + k)
  BY <1>1 DEF Behind
<1>3. /\ Behind(n, s) \in Seq(Byte) /\ Len(Behind(n, s)) = k
      /\ \A i \in 1..k : Behind(n, s)[i] = s[n + i]
  BY <1>1, <1>2, PartFacts
<1> QED
  BY <1>3 DEF k

LEMMA BehindJoin ==
  ASSUME NEW s \in Seq(Byte), NEW t \in Seq(Byte)
  PROVE  Behind(Len(s), s \o t) = t
<1> DEFINE u == s \o t
           n == Len(s)
<1>1. /\ u \in Seq(Byte) /\ Len(u) = n + Len(t)
      /\ \A i \in 1..Len(t) : u[n + i] = t[i]
      /\ n \in Nat /\ Len(t) \in Nat
  BY JoinFacts
<1> HIDE DEF u, n
<1>2. Len(u) - n = Len(t) /\ n <= Len(u)
  BY <1>1
<1>3. /\ Behind(n, u) \in Seq(Byte) /\ Len(Behind(n, u)) = Len(t)
      /\ \A i \in 1..Len(t) : Behind(n, u)[i] = u[n + i]
  <2>1. /\ Behind(n, u) \in Seq(Byte) /\ Len(Behind(n, u)) = Len(u) - n
        /\ \A i \in 1..(Len(u) - n) : Behind(n, u)[i] = u[n + i]
    BY <1>1, <1>2, BehindFacts
  <2> QED
    BY <1>2, <2>1
<1>4. Behind(n, u) = t
  BY <1>1, <1>3, SameBytes
<1> QED
  BY <1>4 DEF n, u

LEMMA HeldWhole ==
  ASSUME NEW data \in Seq(Byte), NEW a \in Nat, NEW s \in Seq(Byte), Holds(data, a + 1, s)
  PROVE  SubSeq(data, a + 1, a + Len(s)) = s
<1>1. a + Len(s) <= Len(data) /\ Len(s) \in Nat
  BY DEF Holds
<1>2. \A i \in 1..Len(s) : data[a + i] = s[i]
  <2> SUFFICES ASSUME NEW i \in 1..Len(s) PROVE data[a + i] = s[i]
    OBVIOUS
  <2>1. data[(a + 1) + i - 1] = s[i] /\ (a + 1) + i - 1 = a + i
    BY DEF Holds
  <2> QED
    BY <2>1
<1> QED
  BY <1>1, <1>2, PartFacts, SameBytes

LEMMA HeldInside ==
  ASSUME NEW data \in Seq(Byte), NEW f \in Seq(Byte), NEW s \in Seq(Byte), NEW a \in Nat, NEW b \in Nat,
         Holds(data, a + 1, f), Holds(f, b + 1, s)
  PROVE  Holds(data, a + b + 1, s)
<1>1. /\ a + Len(f) <= Len(data) /\ b + Len(s) <= Len(f)
      /\ Len(s) \in Nat /\ Len(f) \in Nat /\ Len(data) \in Nat
  BY DEF Holds
<1>2. ASSUME NEW i \in 1..Len(s)
      PROVE  data[a + b + 1 + i - 1] = s[i]
  <2>1. f[(b + 1) + i - 1] = s[i] /\ (b + 1) + i - 1 = b + i
    BY DEF Holds
  <2>2. b + i \in 1..Len(f)
    BY <1>1
  <2>3. data[(a + 1) + (b + i) - 1] = f[b + i]
    BY <2>2 DEF Holds
  <2>4. (a + 1) + (b + i) - 1 = a + b + 1 + i - 1
    BY <1>1
  <2> QED
    BY <2>1, <2>3, <2>4
<1> QED
  BY <1>1, <1>2 DEF Holds

LEMMA HeldFirst ==
  ASSUME NEW s \in Seq(Byte), NEW t \in Seq(Byte)
  PROVE  Holds(s \o t, 1, s) /\ Holds(s \o t, Len(s) + 1, t)
<1>1. /\ Len(s \o t) = Len(s) + Len(t) /\ Len(s) \in Nat /\ Len(t) \in Nat
      /\ \A i \in 1..Len(s) : (s \o t)[i] = s[i]
      /\ \A i \in 1..Len(t) : (s \o t)[Len(s) + i] = t[i]
  BY JoinFacts
<1>2. \A i \in 1..Len(s) : 1 + i - 1 = i
  OBVIOUS
<1>3. \A i \in 1..Len(t) : Len(s) + 1 + i - 1 = Len(s) + i
  BY <1>1
<1>4. \A i \in 1..Len(s) : (s \o t)[1 + i - 1] = s[i]
  BY <1>1, <1>2
<1>5. \A i \in 1..Len(t) : (s \o t)[Len(s) + 1 + i - 1] = t[i]
  BY <1>1, <1>3
<1>6. 1 + Len(s) - 1 <= Len(s \o t) /\ Len(s) + 1 + Len(t) - 1 <= Len(s \o t)
  BY <1>1
<1> QED
  BY <1>4, <1>5, <1>6 DEF Holds

LEMMA FramedFacts ==
  ASSUME NEW first \in Byte, NEW body \in Seq(Byte)
  PROVE  LET f == Framed(first, body)
             size == EncodeLength[Len(body)]
         IN  /\ size \in Seq(Byte) /\ Len(size) \in Nat /\ Len(body) \in Nat
             /\ f \in Seq(Byte) /\ Len(f) = 1 + Len(size) + Len(body) /\ f[1] = first
             /\ Holds(f, 2, size) /\ Holds(f, 1 + Len(size) + 1, body)
<1> DEFINE f == Framed(first, body)
           size == EncodeLength[Len(body)]
           head == <<first>>
<1>1. Len(body) \in Nat /\ size \in Seq(Byte)
  BY EncodingFacts
<1>2. f = head \o (size \o body)
  BY DEF Framed
<1>3. head \in Seq(Byte) /\ Len(head) = 1 /\ head[1] = first
  OBVIOUS
<1> HIDE DEF size, head, f
<1>4. /\ size \o body \in Seq(Byte) /\ Len(size \o body) = Len(size) + Len(body) /\ Len(size) \in Nat
      /\ Holds(size \o body, 1, size) /\ Holds(size \o body, Len(size) + 1, body)
  BY <1>1, JoinFacts, HeldFirst
<1>5. /\ f \in Seq(Byte) /\ Len(f) = 1 + Len(size \o body) /\ f[1] = first
      /\ Holds(f, 2, size \o body)
  <2>1. Holds(f, Len(head) + 1, size \o body)
    BY <1>2, <1>3, <1>4, HeldFirst
  <2>2. Len(head) + 1 = 2
    BY <1>3
  <2>3. f \in Seq(Byte) /\ Len(f) = Len(head) + Len(size \o body) /\ f[1] = head[1]
    <3> DEFINE rest == size \o body
    <3>1. rest \in Seq(Byte) /\ 1 \in 1..Len(head)
      BY <1>3, <1>4
    <3> HIDE DEF rest
    <3>2. /\ head \o rest \in Seq(Byte) /\ Len(head \o rest) = Len(head) + Len(rest)
          /\ \A i \in 1..Len(head) : (head \o rest)[i] = head[i]
      BY <1>3, <3>1, JoinFacts
    <3>3. (head \o rest)[1] = head[1]
      BY <3>1, <3>2
    <3> QED
      BY <1>2, <3>2, <3>3 DEF rest
  <2> QED
    BY <1>3, <2>1, <2>2, <2>3
<1>6. Holds(f, 1 + 0 + 1, size) /\ Holds(f, 1 + Len(size) + 1, body)
  <2>1. Holds(f, 1 + 1, size \o body) /\ Holds(size \o body, 0 + 1, size)
    BY <1>4, <1>5
  <2> QED
    BY <1>1, <1>4, <1>5, <2>1, HeldInside
<1>7. Holds(f, 2, size)
  BY <1>6
<1> QED
  BY <1>1, <1>4, <1>5, <1>6, <1>7 DEF f, size

\* As much as the packet is taken off the stream, whatever comes behind it.
LEMMA FramedReceived ==
  ASSUME NEW first \in Byte, NEW body \in Seq(Byte), NEW data \in Seq(Byte),
         Holds(data, 1, Framed(first, body))
  PROVE  RecvPacket(data) = Framed(first, body)
<1> DEFINE f == Framed(first, body)
           size == EncodeLength[Len(body)]
<1>1. /\ size \in Seq(Byte) /\ Len(size) \in Nat /\ Len(body) \in Nat
      /\ f \in Seq(Byte) /\ Len(f) = 1 + Len(size) + Len(body) /\ Holds(f, 2, size)
  BY FramedFacts
<1>2. Holds(data, 2, size)
  <2>1. Holds(data, 0 + 1, f) /\ Holds(f, 1 + 1, size)
    BY <1>1
  <2> HIDE DEF f, size
  <2>2. Holds(data, 0 + 1 + 1, size)
    BY <1>1, <2>1, HeldInside
  <2> QED
    BY <2>2
<1>3. LengthEnd(data, 2) = 2 + Len(size) - 1 /\ DecodeLength(data, 2) = Len(body)
  BY <1>1, <1>2, EndFound, LengthRead
<1>4. LengthEnd(data, 2) + DecodeLength(data, 2) = 0 + Len(f)
  <2>1. 2 + Len(size) - 1 + Len(body) = 1 + Len(size) + Len(body)
    BY <1>1
  <2>2. 0 + Len(f) = 1 + Len(size) + Len(body)
    BY <1>1
  <2> HIDE DEF f, size
  <2> QED
    BY <1>3, <2>1, <2>2
<1>5. SubSeq(data, 0 + 1, 0 + Len(f)) = f
  <2>1. Holds(data, 0 + 1, f)
    OBVIOUS
  <2> HIDE DEF f
  <2> QED
    BY <1>1, <2>1, HeldWhole
<1> QED
  BY <1>4, <1>5 DEF RecvPacket

LEMMA FramedDecoded ==
  ASSUME NEW first \in Byte, NEW body \in Seq(Byte)
  PROVE  DecodePacket(Framed(first, body)) = DecodeBody(first, body)
<1> DEFINE f == Framed(first, body)
           size == EncodeLength[Len(body)]
           end == 1 + Len(size)
<1>1. /\ size \in Seq(Byte) /\ Len(size) \in Nat /\ Len(body) \in Nat
      /\ f \in Seq(Byte) /\ f[1] = first /\ Holds(f, 2, size) /\ Holds(f, 1 + Len(size) + 1, body)
  BY FramedFacts
<1>2. LengthEnd(f, 2) = end /\ DecodeLength(f, 2) = Len(body)
  <2>1. LengthEnd(f, 2) = 2 + Len(size) - 1 /\ DecodeLength(f, 2) = Len(body)
    <3> HIDE DEF f
    <3> QED
      BY <1>1, EndFound, LengthRead
  <2> HIDE DEF f, size
  <2> QED
    BY <1>1, <2>1
<1>3. SubSeq(f, end + 1, end + Len(body)) = body
  <2>1. end \in Nat /\ Holds(f, end + 1, body)
    BY <1>1
  <2> HIDE DEF f, size, end
  <2> QED
    BY <1>1, <2>1, HeldWhole
<1>4. DecodePacket(f) = DecodeBody(f[1], SubSeq(f, LengthEnd(f, 2) + 1, LengthEnd(f, 2) + DecodeLength(f, 2)))
  BY Zenon DEF DecodePacket
<1> HIDE DEF f, end
<1>5. DecodePacket(f) = DecodeBody(first, body)
  BY <1>1, <1>2, <1>3, <1>4
<1> QED
  BY <1>5 DEF f

-------------------------------------------------------------------------------
(* Every kind of packet.                                                     *)

LEMMA ShortFacts == \A n \in Short : n \in Nat
BY SMT DEF Short

LEMMA EmptyIsBytes == <<>> \in Seq(Byte)
OBVIOUS

LEMMA TwoBytesRead ==
  ASSUME NEW n \in Short, NEW rest \in Seq(Byte)
  PROVE  LET b == TwoBytes(n) \o rest
         IN  /\ TwoBytes(n) \in Seq(Byte) /\ Len(TwoBytes(n)) = 2
             /\ b \in Seq(Byte) /\ Len(b) = 2 + Len(rest)
             /\ TwoByteNumber(b, 1) = n /\ Behind(2, b) = rest
<1> DEFINE high == n \div 256
           low == n % 256
           t == TwoBytes(n)
           b == t \o rest
<1>1. high \in Byte /\ low \in Byte /\ 256 * high + low = n
  BY SMT DEF Byte, Short
<1> HIDE DEF high, low
<1>2. t = <<high, low>>
  BY DEF TwoBytes, high, low
<1>3. t \in Seq(Byte) /\ Len(t) = 2 /\ t[1] = high /\ t[2] = low
  BY <1>1, <1>2
<1> HIDE DEF t
<1>4. /\ b \in Seq(Byte) /\ Len(b) = 2 + Len(rest) /\ b[1] = high /\ b[2] = low
  <2>1. b \in Seq(Byte) /\ Len(b) = Len(t) + Len(rest) /\ \A i \in 1..Len(t) : b[i] = t[i]
    BY <1>3, JoinFacts
  <2>2. 1 \in 1..Len(t) /\ 2 \in 1..Len(t)
    BY <1>3
  <2> HIDE DEF b
  <2> QED
    BY <1>3, <2>1, <2>2
<1>5. Behind(2, b) = rest
  BY <1>3, BehindJoin
<1>6. TwoByteNumber(b, 1) = 256 * b[1] + b[1 + 1]
  BY DEF TwoByteNumber
<1> HIDE DEF b
<1>7. TwoByteNumber(b, 1) = n
  BY <1>1, <1>4, <1>6
<1> QED
  BY <1>3, <1>4, <1>5, <1>7 DEF t, b

LEMMA Utf8Read ==
  ASSUME NEW t \in Texts, NEW rest \in Seq(Byte)
  PROVE  LET b == Utf8(t) \o rest
         IN  /\ Utf8(t) \in Seq(Byte) /\ b \in Seq(Byte)
             /\ ReadUtf8(b) = t /\ BehindUtf8(b) = rest
<1> DEFINE head == TwoBytes(Len(t))
           u == Utf8(t)
           b == u \o rest
<1>1. t \in Seq(Byte) /\ Len(t) \in Short
  BY DEF Texts
<1>2. u = head \o t
  BY DEF Utf8
<1>3. /\ head \in Seq(Byte) /\ Len(head) = 2 /\ u \in Seq(Byte) /\ Len(u) = 2 + Len(t)
  BY <1>1, <1>2, TwoBytesRead
<1> HIDE DEF head, u
<1>4. b \in Seq(Byte) /\ Len(b) = Len(u) + Len(rest) /\ Holds(b, 1, u) /\ Behind(Len(u), b) = rest
  BY <1>3, JoinFacts, HeldFirst, BehindJoin
<1>5. t \o rest \in Seq(Byte) /\ b = head \o (t \o rest)
  <2>1. (head \o t) \o rest = head \o (t \o rest)
    BY <1>1, <1>3, SMTT(30)
  <2> QED
    BY <1>1, <1>2, <2>1, JoinFacts
<1>6. TwoByteNumber(b, 1) = Len(t)
  <2> DEFINE r == t \o rest
  <2>1. r \in Seq(Byte)
    BY <1>5
  <2> HIDE DEF r
  <2>2. TwoByteNumber(TwoBytes(Len(t)) \o r, 1) = Len(t)
    BY <1>1, <2>1, TwoBytesRead
  <2> QED
    BY <1>5, <2>2 DEF head, r
<1>7. ReadUtf8(b) = t
  <2>1. Holds(u, 2 + 1, t)
    BY <1>1, <1>2, <1>3, HeldFirst
  <2> HIDE DEF b
  <2>2. Holds(b, 0 + 2 + 1, t)
    <3>1. Holds(b, 0 + 1, u)
      BY <1>4
    <3> QED
      BY <1>1, <1>3, <1>4, <2>1, <3>1, HeldInside
  <2>3. SubSeq(b, 2 + 1, 2 + Len(t)) = t
    <3>1. Holds(b, 2 + 1, t)
      BY <2>2
    <3> QED
      BY <1>1, <1>4, <3>1, HeldWhole
  <2> QED
    BY <1>1, <1>6, <2>3 DEF ReadUtf8
<1>8. BehindUtf8(b) = rest
  <2> HIDE DEF b
  <2>1. BehindUtf8(b) = SubSeq(b, Len(t) + 3, Len(b))
    BY <1>6 DEF BehindUtf8
  <2>2. Len(t) + 3 = Len(u) + 1
    BY <1>1, <1>3
  <2> QED
    BY <1>4, <2>1, <2>2 DEF Behind
<1> QED
  BY <1>3, <1>4, <1>7, <1>8 DEF u, b

\* The bytes of a packet have their length, and decode_packet reads them.
IsRead(p) ==
  /\ \E first \in Byte, body \in Seq(Byte) : Bytes(p) = Framed(first, body)
  /\ DecodePacket(Bytes(p)) = Seen(p)

LEMMA ConstantFacts ==
  /\ \A p \in ConnectPackets : /\ p.type = "connect" /\ p.name \in Texts /\ p.level = 3 /\ p.flags = 194
                               /\ p.keepAlive \in Short /\ p.payload \in Seq(Byte)
  /\ \A p \in ConnackPackets : p.type = "connack" /\ p.code \in Byte /\ p.payload \in Seq(Byte)
  /\ \A p \in PublishPackets : /\ p.type = "publish" /\ p.topic \in Texts /\ p.payload \in Seq(Byte)
                               /\ p.qos \in {0, 1} /\ (p.qos = 1 => p.id \in Short) /\ (p.qos = 0 => p.id = 0)
  /\ \A p \in SubscribePackets : p.type = "subscribe" /\ p.topic \in Texts /\ p.id \in Short
  /\ \A p \in PlainPackets : p.type \in {"pingreq", "disconnect", "pingresp"} /\ p.payload = <<>>
BY PacketAssumption DEF ConnectPackets, ConnackPackets, PublishPackets, SubscribePackets, PlainPackets

\* Three parts, one behind the other.
LEMMA PartsRead ==
  ASSUME NEW s \in Seq(Byte), NEW t \in Seq(Byte), NEW u \in Seq(Byte)
  PROVE  LET b == s \o (t \o u)
         IN  /\ b \in Seq(Byte)
             /\ \A i \in 1..Len(s) : b[i] = s[i]
             /\ \A i \in 1..Len(t) : b[Len(s) + i] = t[i]
             /\ Behind(Len(s) + Len(t), b) = u
<1> DEFINE v == t \o u
           b == s \o v
           n == Len(s) + Len(t)
<1>1. /\ v \in Seq(Byte) /\ Len(v) = Len(t) + Len(u) /\ Len(t) \in Nat /\ Len(u) \in Nat
      /\ \A i \in 1..Len(t) : v[i] = t[i]
  BY JoinFacts
<1>2. Holds(v, Len(t) + 1, u)
  BY HeldFirst
<1> HIDE DEF v
<1>3. /\ b \in Seq(Byte) /\ Len(b) = Len(s) + Len(v) /\ Len(s) \in Nat
      /\ \A i \in 1..Len(s) : b[i] = s[i]
      /\ \A i \in 1..Len(v) : b[Len(s) + i] = v[i]
  BY <1>1, JoinFacts
<1>4. Holds(b, Len(s) + 1, v)
  BY <1>1, HeldFirst
<1> HIDE DEF b
<1>5. \A i \in 1..Len(t) : b[Len(s) + i] = t[i]
  <2>1. \A i \in 1..Len(t) : i \in 1..Len(v)
    BY <1>1
  <2> QED
    BY <1>1, <1>3, <2>1
<1>6. Holds(b, n + 1, u) /\ n \in Nat /\ Len(b) = n + Len(u)
  <2>1. Holds(b, Len(s) + Len(t) + 1, u)
    BY <1>1, <1>2, <1>3, <1>4, HeldInside
  <2> QED
    BY <1>1, <1>3, <2>1
<1> HIDE DEF n
<1>7. SubSeq(b, n + 1, n + Len(u)) = u
  BY <1>3, <1>6, HeldWhole
<1>8. Behind(n, b) = u
  BY <1>6, <1>7 DEF Behind
<1> QED
  BY <1>3, <1>5, <1>8 DEF v, b, n

LEMMA ConnectRead == ASSUME NEW p \in ConnectPackets PROVE IsRead(p)
<1> DEFINE h == <<p.level, p.flags>>
           k == TwoBytes(p.keepAlive)
           rest == h \o (k \o p.payload)
           body == Utf8(p.name) \o rest
<1>1. /\ p.type = "connect" /\ p.name \in Texts /\ p.level = 3 /\ p.flags = 194
      /\ p.keepAlive \in Short /\ p.payload \in Seq(Byte)
  BY ConstantFacts
<1>2. /\ k \in Seq(Byte) /\ Len(k) = 2 /\ 256 * k[1] + k[2] = p.keepAlive
  <2> DEFINE n == p.keepAlive
  <2>1. n \in Short
    BY <1>1
  <2> HIDE DEF n
  <2>2. TwoBytes(n) \in Seq(Byte) /\ Len(TwoBytes(n)) = 2
    BY <2>1, TwoBytesRead, EmptyIsBytes
  <2>3. 256 * TwoBytes(n)[1] + TwoBytes(n)[2] = n
    BY <2>1, SMT DEF TwoBytes, Short
  <2> QED
    BY <2>2, <2>3 DEF n
<1>3. h \in Seq(Byte) /\ Len(h) = 2 /\ h[1] = p.level /\ h[2] = p.flags /\ 16 \in Byte
  BY <1>1 DEF Byte
<1> HIDE DEF k, h
<1>4. /\ rest \in Seq(Byte) /\ rest[1] = 3 /\ rest[2] = 194
      /\ rest[3] = k[1] /\ rest[4] = k[2] /\ Behind(4, rest) = p.payload
  <2> DEFINE c == p.payload
  <2>1. c \in Seq(Byte)
    BY <1>1
  <2> HIDE DEF c
  <2> DEFINE r == h \o (k \o c)
  <2>2. /\ r \in Seq(Byte)
        /\ \A i \in 1..Len(h) : r[i] = h[i]
        /\ \A i \in 1..Len(k) : r[Len(h) + i] = k[i]
        /\ Behind(Len(h) + Len(k), r) = c
    BY <1>2, <1>3, <2>1, PartsRead
  <2> HIDE DEF r
  <2>3. 1 \in 1..Len(h) /\ 2 \in 1..Len(h) /\ 1 \in 1..Len(k) /\ 2 \in 1..Len(k)
    BY <1>2, <1>3
  <2>4. Len(h) + Len(k) = 4 /\ Len(h) + 1 = 3 /\ Len(h) + 2 = 4
    BY <1>2, <1>3
  <2>5. r[1] = h[1] /\ r[2] = h[2] /\ r[3] = k[1] /\ r[4] = k[2]
    BY <2>2, <2>3, <2>4
  <2>6. Behind(4, r) = c
    BY <2>2, <2>4
  <2> QED
    BY <1>1, <1>3, <2>2, <2>5, <2>6 DEF r, c
<1> HIDE DEF rest
<1>5. body \in Seq(Byte) /\ ReadUtf8(body) = p.name /\ BehindUtf8(body) = rest
  BY <1>1, <1>4, Utf8Read
<1>6. TwoByteNumber(rest, 3) = p.keepAlive
  <2>1. TwoByteNumber(rest, 3) = 256 * rest[3] + rest[3 + 1]
    BY DEF TwoByteNumber
  <2>2. 3 + 1 = 4
    OBVIOUS
  <2> QED
    BY <1>2, <1>4, <2>1, <2>2
<1>7. Behind(4, rest) = p.payload
  BY <1>4
<1>8. Bytes(p) = Framed(16, body)
  BY <1>1 DEF Bytes, WriteConnect, rest, h, k
<1> HIDE DEF body
<1>9. 16 \div 16 = 1
  OBVIOUS
<1>10. DecodeBody(16, body) = [type |-> "connect", name |-> p.name, level |-> 3, flags |-> 194,
                               keepAlive |-> p.keepAlive, payload |-> p.payload]
  BY <1>4, <1>5, <1>6, <1>7, <1>9 DEF DecodeBody
<1>11. p = [type |-> "connect", name |-> p.name, level |-> 3, flags |-> 194,
            keepAlive |-> p.keepAlive, payload |-> p.payload]
  BY <1>1 DEF ConnectPackets
<1>12. Seen(p) = p
  BY <1>1 DEF Seen
<1>13. DecodePacket(Bytes(p)) = DecodeBody(16, body)
  BY <1>3, <1>5, <1>8, FramedDecoded
<1> QED
  BY <1>3, <1>5, <1>8, <1>10, <1>11, <1>12, <1>13, Zenon DEF IsRead

LEMMA ConnackRead == ASSUME NEW p \in ConnackPackets PROVE IsRead(p)
<1> DEFINE h == <<0, p.code>>
           body == h \o p.payload
<1>1. p.type = "connack" /\ p.code \in Byte /\ p.payload \in Seq(Byte) /\ 0 \in Byte /\ 32 \in Byte
  BY ConstantFacts DEF Byte
<1>2. h \in Seq(Byte) /\ Len(h) = 2 /\ h[2] = p.code
  BY <1>1
<1> HIDE DEF h
<1>3. body \in Seq(Byte) /\ body[2] = p.code /\ Behind(2, body) = p.payload
  BY <1>1, <1>2, JoinFacts, BehindJoin
<1>4. Bytes(p) = Framed(32, body)
  BY <1>1 DEF Bytes, WriteConnack, h
<1> HIDE DEF body
<1>5. 32 \div 16 = 2
  OBVIOUS
<1>6. DecodeBody(32, body) = [type |-> "connack", code |-> p.code, payload |-> p.payload]
  BY <1>3, <1>5 DEF DecodeBody
<1>7. p = [type |-> "connack", code |-> p.code, payload |-> p.payload]
  BY <1>1 DEF ConnackPackets
<1>8. Seen(p) = p
  BY <1>1 DEF Seen
<1>9. DecodePacket(Bytes(p)) = DecodeBody(32, body)
  BY <1>1, <1>3, <1>4, FramedDecoded
<1> QED
  BY <1>1, <1>3, <1>4, <1>6, <1>7, <1>8, <1>9, Zenon DEF IsRead

LEMMA PublishRead == ASSUME NEW p \in PublishPackets PROVE IsRead(p)
<1> DEFINE rest == IF p.qos = 1 THEN TwoBytes(p.id) \o p.payload ELSE p.payload
           body == Utf8(p.topic) \o rest
           first == 48 + 2 * p.qos
<1>1. /\ p.type = "publish" /\ p.topic \in Texts /\ p.payload \in Seq(Byte) /\ p.qos \in {0, 1}
      /\ (p.qos = 1 => p.id \in Short) /\ (p.qos = 0 => p.id = 0)
  BY ConstantFacts
<1>2. /\ rest \in Seq(Byte)
      /\ p.qos = 1 => TwoByteNumber(rest, 1) = p.id /\ Behind(2, rest) = p.payload
      /\ p.qos = 0 => rest = p.payload
  <2>1. CASE p.qos = 1
    BY <1>1, <2>1, TwoBytesRead
  <2>2. CASE p.qos = 0
    BY <1>1, <2>2
  <2> QED
    BY <1>1, <2>1, <2>2
<1>3. Bytes(p) = Framed(first, body)
  BY <1>1 DEF Bytes, WritePublish
<1> HIDE DEF rest
<1>4. body \in Seq(Byte) /\ ReadUtf8(body) = p.topic /\ BehindUtf8(body) = rest
  BY <1>1, <1>2, Utf8Read
<1>5. first \in Byte /\ first \div 16 = 3 /\ (first \div 2) % 4 = p.qos
  <2>1. CASE p.qos = 1
    BY <2>1 DEF Byte
  <2>2. CASE p.qos = 0
    BY <2>2 DEF Byte
  <2> QED
    BY <1>1, <2>1, <2>2
<1> HIDE DEF body, first
<1>6. DecodeBody(first, body) =
        [type |-> "publish", qos |-> p.qos, topic |-> p.topic,
         id |-> IF p.qos > 0 THEN TwoByteNumber(rest, 1) ELSE 0,
         payload |-> IF p.qos > 0 THEN Behind(2, rest) ELSE rest]
  BY <1>4, <1>5 DEF DecodeBody
<1>7. /\ (IF p.qos > 0 THEN TwoByteNumber(rest, 1) ELSE 0) = p.id
      /\ (IF p.qos > 0 THEN Behind(2, rest) ELSE rest) = p.payload
  BY <1>1, <1>2
<1>8. p = [type |-> "publish", qos |-> p.qos, topic |-> p.topic, id |-> p.id, payload |-> p.payload]
  BY DEF PublishPackets
<1>9. Seen(p) = p
  BY <1>1 DEF Seen
<1>10. DecodePacket(Bytes(p)) = DecodeBody(first, body)
  BY <1>3, <1>4, <1>5, FramedDecoded
<1>11. DecodePacket(Bytes(p)) = Seen(p)
  BY <1>6, <1>7, <1>8, <1>9, <1>10
<1> QED
  BY <1>3, <1>4, <1>5, <1>11, Zenon DEF IsRead

LEMMA SubscribeRead == ASSUME NEW p \in SubscribePackets PROVE IsRead(p)
<1> DEFINE body == SubscribeBody(p)
<1>1. p.type = "subscribe" /\ p.topic \in Texts /\ p.id \in Short
  BY ConstantFacts
<1>2. <<1>> \in Seq(Byte) /\ 130 \in Byte
  BY DEF Byte
<1>3. Utf8(p.topic) \o <<1>> \in Seq(Byte)
  BY <1>1, <1>2, Utf8Read
<1>4. body \in Seq(Byte)
  BY <1>1, <1>3, TwoBytesRead DEF SubscribeBody
<1>5. Bytes(p) = Framed(130, body)
  BY <1>1 DEF Bytes, WriteSubscribe
<1> HIDE DEF body
<1>6. 130 \div 16 = 8
  OBVIOUS
<1>7. DecodeBody(130, body) = [type |-> "unnamed", payload |-> body]
  BY <1>6 DEF DecodeBody
<1>8. Seen(p) = [type |-> "unnamed", payload |-> body]
  BY <1>1 DEF Seen, body
<1>9. DecodePacket(Bytes(p)) = DecodeBody(130, body)
  BY <1>2, <1>4, <1>5, FramedDecoded
<1> QED
  BY <1>2, <1>4, <1>5, <1>7, <1>8, <1>9, Zenon DEF IsRead

LEMMA PlainRead == ASSUME NEW p \in PlainPackets PROVE IsRead(p)
<1>1. p.type \in {"pingreq", "disconnect", "pingresp"} /\ p.payload = <<>>
  BY ConstantFacts
<1>2. p = [type |-> p.type, payload |-> <<>>]
  BY <1>1 DEF PlainPackets
<1>3. Seen(p) = p
  BY <1>1 DEF Seen
<1>4. <<>> \in Seq(Byte) /\ 192 \in Byte /\ 208 \in Byte /\ 224 \in Byte
  BY DEF Byte
<1>5. \A first \in Byte : WritePlain(first) = Framed(first, <<>>)
  <2>1. EncodeLength[0] = <<0>>
    <3>1. 0 \div 128 = 0 /\ 0 % 128 = 0
      OBVIOUS
    <3>2. EncodeLength[0] = Digits(EncodeLength, 0)
      BY EncodeLengthIs
    <3> QED
      BY <3>1, <3>2 DEF Digits
  <2>2. ASSUME NEW first \in Byte
        PROVE  <<first>> \o (<<0>> \o <<>>) = <<first, 0>>
    <3>1. <<0>> \o <<>> = <<0>>
      OBVIOUS
    <3>2. <<first>> \o <<0>> = <<first, 0>>
      <4> DEFINE a == <<first>>
                 b == <<0>>
                 c == <<first, 0>>
      <4>1. a \in Seq(Byte) /\ Len(a) = 1 /\ a[1] = first /\ b \in Seq(Byte) /\ Len(b) = 1 /\ b[1] = 0
        BY ByteFacts DEF Byte
      <4>2. c \in Seq(Byte) /\ Len(c) = 2 /\ c[1] = first /\ c[2] = 0
        BY DEF Byte
      <4> HIDE DEF a, b, c
      <4>3. /\ a \o b \in Seq(Byte) /\ Len(a \o b) = Len(a) + Len(b)
            /\ \A i \in 1..Len(a) : (a \o b)[i] = a[i]
            /\ \A i \in 1..Len(b) : (a \o b)[Len(a) + i] = b[i]
        BY <4>1, JoinFacts
      <4>4. Len(a \o b) = 2 /\ (a \o b)[1] = first /\ (a \o b)[1 + 1] = 0
        BY <4>1, <4>3
      <4>5. a \o b = c
        BY <4>2, <4>3, <4>4, SameBytes
      <4> QED
        BY <4>5 DEF a, b, c
    <3> QED
      BY <3>1, <3>2
  <2>3. Len(<<>>) = 0
    OBVIOUS
  <2> QED
    BY <2>1, <2>2, <2>3 DEF Framed, WritePlain
<1>6. ASSUME NEW first \in Byte, Bytes(p) = WritePlain(first), DecodeBody(first, <<>>) = p
      PROVE  IsRead(p)
  <2>1. Bytes(p) = Framed(first, <<>>)
    BY <1>5, <1>6
  <2>2. DecodePacket(Bytes(p)) = DecodeBody(first, <<>>)
    BY <1>4, <2>1, FramedDecoded
  <2> QED
    BY <1>3, <1>4, <1>6, <2>1, <2>2, Zenon DEF IsRead
<1>7. CASE p.type = "pingreq"
  <2>1. 192 \div 16 = 12
    OBVIOUS
  <2>2. Bytes(p) = WritePlain(192)
    BY <1>7 DEF Bytes
  <2>3. DecodeBody(192, <<>>) = [type |-> "pingreq", payload |-> <<>>]
    BY <2>1 DEF DecodeBody
  <2>4. DecodeBody(192, <<>>) = p
    BY <1>2, <1>7, <2>3
  <2> QED
    BY <1>4, <1>6, <2>2, <2>4
<1>8. CASE p.type = "pingresp"
  <2>1. 208 \div 16 = 13
    OBVIOUS
  <2>2. Bytes(p) = WritePlain(208)
    BY <1>8 DEF Bytes
  <2>3. DecodeBody(208, <<>>) = [type |-> "pingresp", payload |-> <<>>]
    BY <2>1 DEF DecodeBody
  <2>4. DecodeBody(208, <<>>) = p
    BY <1>2, <1>8, <2>3
  <2> QED
    BY <1>4, <1>6, <2>2, <2>4
<1>9. CASE p.type = "disconnect"
  <2>1. 224 \div 16 = 14
    OBVIOUS
  <2>2. Bytes(p) = WritePlain(224)
    BY <1>9 DEF Bytes
  <2>3. DecodeBody(224, <<>>) = [type |-> "disconnect", payload |-> <<>>]
    BY <2>1 DEF DecodeBody
  <2>4. DecodeBody(224, <<>>) = p
    BY <1>2, <1>9, <2>3
  <2> QED
    BY <1>4, <1>6, <2>2, <2>4
<1> QED
  BY <1>1, <1>7, <1>8, <1>9

LEMMA PacketRead ==
  ASSUME NEW p \in AnyPacket
  PROVE  /\ Bytes(p) \in Seq(Byte)
         /\ DecodePacket(Bytes(p)) = Seen(p)
         /\ \A data \in Seq(Byte) : Holds(data, 1, Bytes(p)) => RecvPacket(data) = Bytes(p)
<1>1. IsRead(p)
  BY ConnectRead, ConnackRead, PublishRead, SubscribeRead, PlainRead, Zenon DEF AnyPacket
<1>2. PICK first \in Byte, body \in Seq(Byte) : Bytes(p) = Framed(first, body)
  BY <1>1 DEF IsRead
<1>3. Framed(first, body) \in Seq(Byte)
  BY FramedFacts
<1>4. \A data \in Seq(Byte) : Holds(data, 1, Framed(first, body)) => RecvPacket(data) = Framed(first, body)
  BY FramedReceived
<1> QED
  BY <1>1, <1>2, <1>3, <1>4, Zenon DEF IsRead

-------------------------------------------------------------------------------
(* The invariant: the stream is cut into the packets that were sent.         *)

\* Where the packets end in the bytes.
IsCut(ends, bytes, packets) ==
  /\ ends \in [0..Len(packets) -> Nat] /\ ends[0] = 0 /\ ends[Len(packets)] = Len(bytes)
  /\ \A i \in 1..Len(packets) : /\ ends[i] = ends[i - 1] + Len(Bytes(packets[i]))
                                /\ Holds(bytes, ends[i - 1] + 1, Bytes(packets[i]))

StreamInv ==
  /\ stream \in Seq(Byte)
  /\ sent \in Seq(AnyPacket)
  /\ \E ends : IsCut(ends, stream, sent)

LEMMA EndsRise ==
  ASSUME NEW ends, IsCut(ends, stream, sent), sent \in Seq(AnyPacket)
  PROVE  \A i \in 1..Len(sent) : ends[1] <= ends[i]
<1> DEFINE Bad == {i \in 1..Len(sent) : ~(ends[1] <= ends[i])}
<1>1. SUFFICES ASSUME Bad # {} PROVE FALSE
  BY Zenon
<1>2. PICK i \in Bad : \A k \in Bad : i <= k
  <2>1. Bad \in SUBSET Nat
    OBVIOUS
  <2> HIDE DEF Bad
  <2> QED
    BY <1>1, <2>1, SmallestNumber
<1>3. i \in 1..Len(sent) /\ ~(ends[1] <= ends[i]) /\ Len(sent) \in Nat
  BY <1>2
<1>4. \A k \in 0..Len(sent) : ends[k] \in Nat
  BY DEF IsCut
<1>5. i # 1
  BY <1>3, <1>4
<1>6. i - 1 \in 1..Len(sent) /\ i - 1 \notin Bad
  BY <1>2, <1>3, <1>5
<1>7. ends[1] <= ends[i - 1]
  BY <1>6
<1>8. ends[i] = ends[i - 1] + Len(Bytes(sent[i]))
  BY <1>3 DEF IsCut
<1>9. Len(Bytes(sent[i])) \in Nat
  <2>1. sent[i] \in AnyPacket
    BY <1>3
  <2>2. Bytes(sent[i]) \in Seq(Byte)
    BY <2>1, PacketRead
  <2> QED
    BY <2>2
<1>10. ends[1] \in Nat /\ ends[i - 1] \in Nat /\ ends[i] \in Nat
  BY <1>3, <1>4, <1>6
<1> QED
  BY <1>3, <1>7, <1>8, <1>9, <1>10

LEMMA StreamInit == PacketInit => StreamInv
<1> SUFFICES ASSUME PacketInit PROVE StreamInv
  OBVIOUS
<1>1. stream = <<>> /\ sent = <<>> /\ Len(sent) = 0 /\ Len(stream) = 0
  BY DEF PacketInit
<1>2. IsCut([i \in 0..0 |-> 0], stream, sent)
  BY <1>1 DEF IsCut
<1> QED
  BY <1>1, <1>2 DEF StreamInv

LEMMA HeldStays ==
  ASSUME NEW s \in Seq(Byte), NEW t \in Seq(Byte), NEW u \in Seq(Byte), NEW a \in Nat, Holds(s, a + 1, u)
  PROVE  Holds(s \o t, a + 1, u)
<1>1. Holds(s \o t, 0 + 1, s) /\ s \o t \in Seq(Byte)
  BY HeldFirst, JoinFacts
<1>2. Holds(s \o t, 0 + a + 1, u)
  BY <1>1, HeldInside
<1> QED
  BY <1>2

LEMMA HeldBehind ==
  ASSUME NEW s \in Seq(Byte), NEW u \in Seq(Byte), NEW a \in Nat, NEW n \in Nat, n <= a, n <= Len(s),
         Holds(s, a + 1, u)
  PROVE  Holds(Behind(n, s), (a - n) + 1, u)
<1> DEFINE t == Behind(n, s)
<1>1. /\ Len(t) = Len(s) - n
      /\ \A i \in 1..(Len(s) - n) : t[i] = s[n + i]
  BY BehindFacts, Zenon
<1>2. Len(s) \in Nat /\ Len(u) \in Nat
  OBVIOUS
<1> HIDE DEF t
<1>3. (a + 1) + Len(u) - 1 <= Len(s) /\ \A i \in 1..Len(u) : s[(a + 1) + i - 1] = u[i]
  BY DEF Holds
<1>4. ((a - n) + 1) + Len(u) - 1 <= Len(t)
  BY <1>1, <1>3, <1>2
<1>5. ASSUME NEW i \in 1..Len(u)
      PROVE  t[((a - n) + 1) + i - 1] = u[i]
  <2>1. /\ ((a - n) + 1) + i - 1 \in 1..(Len(s) - n)
        /\ n + (((a - n) + 1) + i - 1) = (a + 1) + i - 1
    BY <1>1, <1>3, <1>2
  <2> QED
    BY <1>1, <1>3, <2>1
<1> QED
  BY <1>4, <1>5 DEF Holds, t

LEMMA SendStep ==
  ASSUME StreamInv, SendPacket
  PROVE  StreamInv'
<1>1. PICK p \in AnyPacket : stream' = stream \o Bytes(p) /\ sent' = Append(sent, p)
  BY DEF SendPacket
<1>2. PICK ends : IsCut(ends, stream, sent)
  BY DEF StreamInv
<1> DEFINE n == Len(sent)
           b == Bytes(p)
           more == [i \in 0..(n + 1) |-> IF i <= n THEN ends[i] ELSE Len(stream')]
<1>3. b \in Seq(Byte) /\ stream \in Seq(Byte) /\ sent \in Seq(AnyPacket) /\ n \in Nat
  BY PacketRead DEF StreamInv
<1> HIDE DEF b
<1>4. /\ stream' \in Seq(Byte) /\ Len(stream') = Len(stream) + Len(b)
      /\ Len(stream) \in Nat /\ Len(b) \in Nat /\ Holds(stream', Len(stream) + 1, b)
  BY <1>1, <1>3, JoinFacts, HeldFirst DEF b
<1>5. /\ sent' \in Seq(AnyPacket) /\ Len(sent') = n + 1
      /\ \A i \in 1..n : sent'[i] = sent[i]
      /\ sent'[n + 1] = p
  BY <1>1, <1>3
<1>6. /\ ends \in [0..n -> Nat] /\ ends[0] = 0 /\ ends[n] = Len(stream)
      /\ \A i \in 1..n : ends[i] = ends[i - 1] + Len(Bytes(sent[i]))
      /\ \A i \in 1..n : Holds(stream, ends[i - 1] + 1, Bytes(sent[i]))
  BY <1>2 DEF IsCut
<1>7. /\ more \in [0..(n + 1) -> Nat]
      /\ \A i \in 0..n : more[i] = ends[i]
      /\ more[n + 1] = Len(stream')
  BY <1>3, <1>4, <1>6
<1> HIDE DEF more, n
<1>8. more[0] = 0 /\ more[n] = Len(stream)
  BY <1>3, <1>6, <1>7
<1>9. ASSUME NEW i \in 1..(n + 1)
      PROVE  /\ more[i] = more[i - 1] + Len(Bytes(sent'[i]))
             /\ Holds(stream', more[i - 1] + 1, Bytes(sent'[i]))
  <2>1. CASE i = n + 1
    <3>1. i - 1 = n /\ Bytes(sent'[i]) = b
      BY <1>3, <1>5, <2>1 DEF b
    <3> QED
      BY <1>4, <1>7, <1>8, <2>1, <3>1
  <2>2. CASE i # n + 1
    <3>1. i \in 1..n /\ i - 1 \in 0..n /\ i \in 0..n /\ 1 \in 0..n
      BY <1>3, <2>2
    <3>2. more[i] = ends[i] /\ more[i - 1] = ends[i - 1] /\ more[1] = ends[1] /\ sent'[i] = sent[i]
      BY <1>5, <1>7, <3>1
    <3> DEFINE d == Bytes(sent[i])
               a == ends[i - 1]
    <3>3. d \in Seq(Byte) /\ a \in Nat /\ Holds(stream, a + 1, d)
      <4>1. sent[i] \in AnyPacket
        BY <1>3, <3>1 DEF n
      <4> QED
        BY <1>6, <3>1, <4>1, PacketRead
    <3> HIDE DEF d, a
    <3>4. Holds(stream', a + 1, d)
      BY <1>1, <1>3, <3>3, HeldStays DEF b
    <3> QED
      BY <1>6, <3>1, <3>2, <3>4 DEF d, a
  <2> QED
    BY <2>1, <2>2
<1>10. IsCut(more, stream', sent')
  <2>1. Len(sent') = n + 1
    BY <1>5
  <2> HIDE DEF more
  <2> QED
    BY <1>7, <1>8, <1>9, <2>1 DEF IsCut
<1> QED
  BY <1>4, <1>5, <1>10 DEF StreamInv

\* The packet at the head of the stream is received whole, and decoded as it was sent.
LEMMA HeadReceived ==
  ASSUME StreamInv, sent # <<>>, NEW ends, IsCut(ends, stream, sent)
  PROVE  /\ RecvPacket(stream) = Bytes(Head(sent))
         /\ DecodePacket(RecvPacket(stream)) = Seen(Head(sent))
         /\ Bytes(Head(sent)) \in Seq(Byte) /\ Len(Bytes(Head(sent))) = ends[1]
<1>1. stream \in Seq(Byte) /\ sent \in Seq(AnyPacket)
  BY DEF StreamInv
<1>2. Head(sent) = sent[1] /\ sent[1] \in AnyPacket /\ 1 \in 1..Len(sent)
  BY <1>1
<1> DEFINE p == sent[1]
<1>3. ends[0] = 0 /\ ends[1] = ends[1 - 1] + Len(Bytes(p)) /\ Holds(stream, ends[1 - 1] + 1, Bytes(p))
  BY <1>2 DEF IsCut
<1>4. p \in AnyPacket
  BY <1>2
<1> HIDE DEF p
<1>5. /\ Bytes(p) \in Seq(Byte) /\ DecodePacket(Bytes(p)) = Seen(p)
      /\ Holds(stream, 1, Bytes(p)) => RecvPacket(stream) = Bytes(p)
  BY <1>1, <1>4, PacketRead
<1>6. ends[1] = Len(Bytes(p)) /\ Holds(stream, 1, Bytes(p))
  <2>1. 1 - 1 = 0 /\ 0 + 1 = 1 /\ Len(Bytes(p)) \in Nat
    BY <1>5
  <2>2. 0 + Len(Bytes(p)) = Len(Bytes(p))
    BY <2>1
  <2> QED
    BY <1>3, <2>1, <2>2
<1> QED
  BY <1>2, <1>5, <1>6 DEF p

LEMMA ReceiveStep ==
  ASSUME StreamInv, ReceivePacket
  PROVE  StreamInv'
<1>1. PICK ends : IsCut(ends, stream, sent)
  BY DEF StreamInv
<1> DEFINE n == Len(sent)
           first == ends[1]
           less == [i \in 0..(n - 1) |-> ends[i + 1] - first]
<1>2. stream \in Seq(Byte) /\ sent \in Seq(AnyPacket) /\ sent # <<>>
  BY DEF StreamInv, ReceivePacket
<1>3. n \in Nat /\ n >= 1
  BY <1>2
<1>4. /\ ends \in [0..n -> Nat] /\ ends[n] = Len(stream)
      /\ \A i \in 1..n : ends[i] = ends[i - 1] + Len(Bytes(sent[i]))
      /\ \A i \in 1..n : Holds(stream, ends[i - 1] + 1, Bytes(sent[i]))
      /\ \A i \in 1..n : first <= ends[i]
  BY <1>1, <1>2, EndsRise DEF IsCut
<1>5. /\ sent' \in Seq(AnyPacket) /\ Len(sent') = n - 1
      /\ \A i \in 1..(n - 1) : sent'[i] = sent[i + 1]
  BY <1>2 DEF ReceivePacket
<1>6. first \in Nat /\ first <= Len(stream) /\ Len(stream) \in Nat
  <2>1. 1 \in 0..n /\ n \in 1..n
    BY <1>3
  <2> HIDE DEF n
  <2>2. first \in Nat /\ first <= ends[n]
    BY <1>4, <2>1
  <2> QED
    BY <1>2, <1>4, <2>2
<1>7. stream' = Behind(first, stream)
  <2>1. Len(RecvPacket(stream)) = first
    BY <1>1, <1>2, HeadReceived
  <2> QED
    BY <2>1, Zenon DEF ReceivePacket
<1> HIDE DEF first, n
<1>8. /\ stream' \in Seq(Byte) /\ Len(stream') = Len(stream) - first
      /\ \A i \in 1..(Len(stream) - first) : stream'[i] = stream[first + i]
  BY <1>2, <1>6, <1>7, BehindFacts
<1>9. \A i \in 0..(n - 1) : /\ less[i] = ends[i + 1] - first /\ less[i] \in Nat
                            /\ ends[i + 1] \in Nat
  <2> SUFFICES ASSUME NEW i \in 0..(n - 1)
               PROVE  less[i] = ends[i + 1] - first /\ less[i] \in Nat /\ ends[i + 1] \in Nat
    BY Zenon
  <2>1. i + 1 \in 1..n /\ i + 1 \in 0..n
    BY <1>3
  <2>2. ends[i + 1] \in Nat /\ first <= ends[i + 1]
    BY <1>4, <2>1
  <2> QED
    BY <1>6, <2>2
<1>10. less \in [0..(n - 1) -> Nat]
  BY <1>9
<1> HIDE DEF less
<1>11. less[0] = 0 /\ less[n - 1] = Len(stream')
  <2>1. 0 \in 0..(n - 1) /\ n - 1 \in 0..(n - 1) /\ 0 + 1 = 1 /\ n - 1 + 1 = n
    BY <1>3
  <2>2. less[0] = ends[0 + 1] - first /\ less[n - 1] = ends[n - 1 + 1] - first
    BY <1>9, <2>1
  <2> QED
    BY <1>4, <1>6, <1>8, <2>1, <2>2 DEF first
<1>12. ASSUME NEW i \in 1..(n - 1)
       PROVE  /\ less[i] = less[i - 1] + Len(Bytes(sent'[i]))
              /\ Holds(stream', less[i - 1] + 1, Bytes(sent'[i]))
  <2> DEFINE d == Bytes(sent[i + 1])
  <2>1. /\ i + 1 \in 1..n /\ i \in 0..(n - 1) /\ i - 1 \in 0..(n - 1) /\ 1 \in 0..(n - 1)
        /\ (i + 1) - 1 = i /\ i - 1 + 1 = i /\ i \in 1..n /\ i \in Nat
    BY <1>3
  <2>2. sent[i + 1] \in AnyPacket
    BY <1>2, <2>1 DEF n
  <2>3. d \in Seq(Byte) /\ Len(d) \in Nat
    BY <2>2, PacketRead
  <2>4. sent'[i] = sent[i + 1]
    BY <1>5
  <2>5. ends[i + 1] = ends[i] + Len(d) /\ Holds(stream, ends[i] + 1, d)
    BY <1>4, <2>1
  <2>6. /\ less[i] = ends[i + 1] - first /\ less[i - 1] = ends[i] - first
        /\ ends[i] \in Nat /\ ends[i + 1] \in Nat /\ less[i - 1] \in Nat
    BY <1>9, <2>1
  <2> HIDE DEF d
  <2>7. less[i] = less[i - 1] + Len(d)
    BY <1>6, <2>3, <2>5, <2>6
  <2>8. Holds(stream', less[i - 1] + 1, d)
    <3> DEFINE c == ends[i]
    <3>1. c \in Nat /\ first <= c /\ Holds(stream, c + 1, d)
      BY <1>4, <2>1, <2>5, <2>6
    <3> HIDE DEF c
    <3>2. Holds(stream', (c - first) + 1, d)
      BY <1>2, <1>6, <1>7, <2>3, <3>1, HeldBehind
    <3> QED
      BY <2>6, <3>2 DEF c
  <2> QED
    BY <2>4, <2>7, <2>8 DEF d
<1>13. IsCut(less, stream', sent')
  <2>1. Len(sent') = n - 1
    BY <1>5
  <2> QED
    BY <1>10, <1>11, <1>12, <2>1 DEF IsCut
<1> QED
  BY <1>5, <1>8, <1>13 DEF StreamInv

LEMMA StreamStep == StreamInv /\ [PacketNext]_packetVars => StreamInv'
<1> SUFFICES ASSUME StreamInv, [PacketNext]_packetVars
             PROVE  StreamInv'
  OBVIOUS
<1>1. CASE SendPacket
  BY <1>1, SendStep
<1>2. CASE ReceivePacket
  BY <1>2, ReceiveStep
<1>3. CASE UNCHANGED packetVars
  BY <1>3 DEF packetVars, StreamInv, IsCut
<1> QED
  BY <1>1, <1>2, <1>3 DEF PacketNext

LEMMA StreamIsInStep == StreamInv => StreamStaysInStep
<1> SUFFICES ASSUME StreamInv PROVE StreamStaysInStep
  OBVIOUS
<1>1. PICK ends : IsCut(ends, stream, sent)
  BY DEF StreamInv
<1>2. CASE sent = <<>>
  <2>1. ends[0] = 0 /\ ends[Len(sent)] = Len(stream) /\ Len(sent) = 0
    BY <1>1, <1>2 DEF IsCut
  <2>2. stream \in Seq(Byte) /\ Len(stream) = 0
    BY <2>1 DEF StreamInv
  <2>3. stream = <<>>
    BY <2>2
  <2> QED
    BY <1>2, <2>3 DEF StreamStaysInStep
<1>3. CASE sent # <<>>
  <2>1. /\ RecvPacket(stream) = Bytes(Head(sent))
        /\ DecodePacket(RecvPacket(stream)) = Seen(Head(sent))
    BY <1>1, <1>3, HeadReceived
  <2> QED
    BY <1>3, <2>1, Zenon DEF StreamStaysInStep
<1> QED
  BY <1>2, <1>3

\* Whatever packets are written one behind the other, with topics, payloads and numbers
\* of any size the format holds and in any order with the reads, the packet a reader
\* takes off the stream (recv_packet) and takes apart (decode_packet) is the first
\* that was not read, and no byte is left behind the last.
THEOREM PacketsStayInStep == PacketSpec => []StreamStaysInStep
<1>1. StreamInv /\ [PacketNext]_packetVars => StreamInv'
  BY StreamStep
<1> QED
  BY <1>1, StreamInit, StreamIsInStep, PTL DEF PacketSpec
===============================================================================
