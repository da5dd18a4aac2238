------------------------------ MODULE MCMQTToT ------------------------------
(* The codec of mqttot.py, thrift objects and packets: values at the ends of   *)
(* their widths, texts, lists and packets about the lengths where a header     *)
(* grows, payloads of bytes that look like packets.  The halves share no       *)
(* state: a behaviour fills a dict or puts packets on a stream.                *)
EXTENDS MQTToT, PacketCodec

MCValuesOf(type) ==
  CASE type = "binary"  -> {<<0, 12>>, <<>>, [i \in 1..130 |-> 0]}
    [] type = "boolean" -> BOOLEAN
    [] type = "byte"    -> {3, -128}
    [] type = "int"     -> {1, -2048, 2047}
    [] type = "long"    -> {9000, -1}
    [] type = "ints"    -> {<<88, 135, 149>>}
    [] type = "texts"   -> {<<>>, <<<<>>, <<0>>>>, [i \in 1..15 |-> <<12>>]}
    [] type = "map"     -> {<<>>, <<<< <<0>>, <<>> >>, << <<1>>, <<64, 0>> >>>>}

MCProtocol == <<77, 81>>
MCTopics == {<<56, 56>>, <<>>}
MCPayloads == {<<>>, <<192, 0>>, [i \in 1..121 |-> 255], [i \in 1..124 |-> 48], [i \in 1..16380 |-> 0]}
MCPacketIds == {1, 256}
MCKeepAlives == {20, 60}
MCReturnCodes == {0, 5}

CodecInit == Init /\ PacketInit
Thrift == Next /\ stream = <<>> /\ UNCHANGED packetVars
Packets == PacketNext /\ object = <<>> /\ UNCHANGED vars

CodecSpec == CodecInit /\ [][Thrift \/ Packets]_<<vars, packetVars>>
===============================================================================
