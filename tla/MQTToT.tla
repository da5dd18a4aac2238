------------------------------- MODULE MQTToT -------------------------------
(***************************************************************************)
(* The thrift codec of realtime/mqttot.py: the objects of CONNECT and      *)
(* FOREGROUND_STATE (_ThriftWriter, _ThriftReader).  The packets they      *)
(* travel in are PacketCodec.                                              *)
(*                                                                         *)
(* A byte is a number below 256, bytes are a sequence of them, and text is *)
(* the bytes it encodes to.  A thrift object is a sequence of entries, in  *)
(* the order of the dict; a descriptor is its field number and type.       *)
(***************************************************************************)
EXTENDS Integers, Sequences, FiniteSets, SequencesExt, Bitwise

CONSTANTS
  ValuesOf(_),    \* values of a type of the wire
  MaxEntries,     \* bound: entries of an object
  Int16, Int32, Int64   \* the widths 16, 32 and 64 of the code

VARIABLES
  schema,   \* the descriptors of the object
  object    \* a dict that is being filled

vars == <<schema, object>>

-------------------------------------------------------------------------------
(* What is written: the descriptors, and the dicts that CONNECT sends.       *)

Plain(fields, type) == {[field |-> f, type |-> type, children |-> {}] : f \in fields}

ClientInfo ==
  Plain({1, 3, 4, 12, 16, 22, 26}, "long") \cup Plain({2, 8, 13, 15, 18, 19, 20, 23, 24, 25}, "binary")
  \cup Plain({5, 10, 11}, "int") \cup Plain({6, 7, 9, 17}, "boolean")
  \cup Plain({14}, "ints") \cup Plain({21}, "byte")

\* MQTToTConnection.thrift_descriptors.
ConnectDescriptors ==
  Plain({1, 2, 3, 5, 9}, "binary") \cup Plain({6}, "texts") \cup Plain({10}, "map")
  \cup {[field |-> 4, type |-> "struct", children |-> ClientInfo]}

ForegroundDescriptors ==
  Plain({1, 2}, "boolean") \cup Plain({3}, "int") \cup Plain({4, 5, 6, 7}, "texts")
  \cup Plain({8}, "long")

\* The dict of client_info, in the order build_connection fills it.
InfoOf(fields) ==
  [i \in DOMAIN fields |->
     LET d == CHOOSE e \in ClientInfo : e.field = fields[i]
     IN [field |-> d.field, type |-> d.type, value |-> CHOOSE v \in ValuesOf(d.type) : TRUE]]

Common == <<1, 2, 3, 4, 5, 6, 7, 8, 9, 10, 11, 12, 14, 15, 16, 20, 21>>
RealtimeInfo == InfoOf(Common)

\* anotherUnknown comes before what an earlier registration left.
FbnsInfos == {InfoOf(Common \o <<26>> \o known) : known \in {<<>>, <<23>>, <<24>>, <<25>>, <<23, 24, 25>>}}

-------------------------------------------------------------------------------
(* Numbers.                                                                  *)

\* write_varint: seven bits a byte, the low ones first.
Varint[n \in Nat] == IF n < 128 THEN <<n>> ELSE <<128 + (n % 128)>> \o Varint[n \div 128]

\* The bytes of the number that starts at pos: up to the first below 128.
NumberEnd(data, pos) == CHOOSE e \in pos..Len(data) :
  data[e] < 128 /\ \A i \in pos..(e - 1) : data[i] >= 128

\* read_varint.
Number(data, pos) ==
  LET digit[i \in pos..NumberEnd(data, pos)] ==
        IF i = NumberEnd(data, pos) THEN data[i] ELSE data[i] - 128 + 128 * digit[i + 1]
  IN digit[pos]

\* (value << 1) ^ (value >> (bits - 1)), with a shift that rounds down and numbers
\* without a width.
Zigzag(v, bits) ==
  LET high == v \div (2 ^ (bits - 1))
  IN IF v >= 0 THEN (2 * v) ^^ high ELSE (-2 * v - 1) ^^ (-high - 1)

\* (value >> 1) ^ -(value & 1).
Unzigzag(n) == IF n % 2 = 0 THEN n \div 2 ELSE -(n \div 2) - 1

-------------------------------------------------------------------------------
(* _ThriftWriter and _write_thrift_struct.                                   *)

Text(v) == Varint[Len(v)] \o v
Concat(f(_), s) == FlattenSeq([i \in DOMAIN s |-> f(s[i])])

TypeId == [stop |-> 0, true |-> 1, false |-> 2, byte |-> 3, short |-> 4, int |-> 5, long |-> 6,
           binary |-> 8, list |-> 9, map |-> 11, struct |-> 12]

\* Mutated form: a field number may not fall.
FieldAlwaysDelta(last, field, type) ==
  <<(16 * (field - last) + type) % 256>>

\* write_field: the distance from the last field, or the number itself.
Field(last, field, type) ==
  IF field - last \in 1..15 THEN <<16 * (field - last) + type>>
  ELSE <<type>> \o Varint[Zigzag(field, Int16)]

\* _write_thrift_list: the size beside the type, or behind it from 15 on.
ListHeader(size, type) ==
  IF size < 15 THEN <<16 * size + type>> ELSE <<240 + type>> \o Varint[size]

\* _write_thrift_map: keys and values are text.
Map(entries) ==
  Varint[Len(entries)] \o
  (IF entries = <<>> THEN <<>> ELSE <<136>> \o Concat(LAMBDA e : Text(e[1]) \o Text(e[2]), entries))

Width == [short |-> Int16, int |-> Int32, long |-> Int64]

\* One entry [field, type, value], behind a field numbered last; a struct counts its
\* fields from 0 and the outer count goes on behind it.
RECURSIVE Entries(_)
Entry(last, e) ==
  LET head(type) == Field(last, e.field, TypeId[type])
  IN CASE e.type = "boolean" -> head(IF e.value THEN "true" ELSE "false")
       [] e.type = "byte"    -> head("byte") \o <<e.value % 256>>
       [] e.type \in DOMAIN Width -> head(e.type) \o Varint[Zigzag(e.value, Width[e.type])]
       [] e.type = "binary"  -> head("binary") \o Text(e.value)
       [] e.type = "ints"    -> head("list") \o ListHeader(Len(e.value), TypeId.int)
                                \o Concat(LAMBDA v : Varint[Zigzag(v, Int32)], e.value)
       [] e.type = "texts"   -> head("list") \o ListHeader(Len(e.value), TypeId.binary)
                                \o Concat(Text, e.value)
       [] e.type = "map"     -> head("map") \o Map(e.value)
       [] e.type = "struct"  -> head("struct") \o Entries(e.value) \o <<TypeId.stop>>

Entries(obj) ==
  FlattenSeq([i \in DOMAIN obj |-> Entry(IF i = 1 THEN 0 ELSE obj[i - 1].field, obj[i])])

\* write_thrift_object.
Written(obj) == Entries(obj) \o <<TypeId.stop>>

-------------------------------------------------------------------------------
(* _ThriftReader.  Each reader returns what it read and where it stopped.    *)

At(value, pos) == [value |-> value, pos |-> pos]
ReadNumber(data, pos) == At(Number(data, pos), NumberEnd(data, pos) + 1)
ReadText(data, pos) ==
  LET size == ReadNumber(data, pos)
  IN At(SubSeq(data, size.pos, size.pos + size.value - 1), size.pos + size.value)

\* What read returns for count items in turn.
RECURSIVE ReadItems(_, _, _, _)
ReadItems(read(_, _), data, pos, count) ==
  IF count = 0 THEN At(<<>>, pos)
  ELSE LET item == read(data, pos)
           rest == ReadItems(read, data, item.pos, count - 1)
       IN At(<<item.value>> \o rest.value, rest.pos)

\* _find_descriptor: field and type, either id of a boolean.
Wire(type) ==
  CASE type = "boolean" -> {TypeId.true, TypeId.false}
    [] type \in {"ints", "texts"} -> {TypeId.list}
    [] OTHER -> {TypeId[type]}
Descriptor(ds, field, id) == {d \in ds : d.field = field /\ id \in Wire(d.type)}

ReadItem(id, data, pos) ==
  IF id = TypeId.binary THEN ReadText(data, pos)
  ELSE At(Unzigzag(Number(data, pos)), NumberEnd(data, pos) + 1)

ReadList(data, pos) ==
  LET long == data[pos] \div 16 = 15
      size == IF long THEN ReadNumber(data, pos + 1) ELSE At(data[pos] \div 16, pos + 1)
  IN ReadItems(LAMBDA d, p : ReadItem(data[pos] % 16, d, p), data, size.pos, size.value)

ReadMap(data, pos) ==
  LET size == ReadNumber(data, pos)
      key == data[size.pos] \div 16
      of == data[size.pos] % 16
      pair(d, p) == LET k == ReadItem(key, d, p)
                        v == ReadItem(of, d, k.pos)
                    IN At(<<k.value, v.value>>, v.pos)
  IN IF size.value = 0 THEN At(<<>>, size.pos)
     ELSE ReadItems(pair, data, size.pos + 1, size.value)

\* read_value; a struct without a descriptor is read with none.
RECURSIVE ReadStruct(_, _, _, _)
ReadValue(id, found, data, pos) ==
  CASE id = TypeId.true  -> At(TRUE, pos)
    [] id = TypeId.false -> At(FALSE, pos)
    [] id = TypeId.byte  -> At(IF data[pos] < 128 THEN data[pos] ELSE data[pos] - 256, pos + 1)
    [] id \in {TypeId.short, TypeId.int, TypeId.long, TypeId.binary} -> ReadItem(id, data, pos)
    [] id = TypeId.list  -> ReadList(data, pos)
    [] id = TypeId.map   -> ReadMap(data, pos)
    [] id = TypeId.struct -> ReadStruct(UNION {d.children : d \in found}, data, pos, 0)

\* read_field: the number of the field that begins at pos.
ReadField(last, data, pos) ==
  IF data[pos] \div 16 > 0 THEN At(last + data[pos] \div 16, pos + 1)
  ELSE At(Unzigzag(Number(data, pos + 1)), NumberEnd(data, pos + 1) + 1)

\* read_struct: the entries whose field has a descriptor.
ReadStruct(ds, data, pos, last) ==
  IF data[pos] = TypeId.stop THEN At(<<>>, pos + 1)
  ELSE LET id == data[pos] % 16
           field == ReadField(last, data, pos)
           found == Descriptor(ds, field.value, id)
           value == ReadValue(id, found, data, field.pos)
           rest == ReadStruct(ds, data, value.pos, field.value)
           kept == {[field |-> d.field, type |-> d.type, value |-> value.value] : d \in found}
       IN At(SetToSeq(kept) \o rest.value, rest.pos)

\* read_thrift_object.
Read(data, ds) == ReadStruct(ds, data, 1, 0).value

-------------------------------------------------------------------------------

Init == schema \in {ConnectDescriptors, ForegroundDescriptors} /\ object = <<>>

\* One more entry of the dict, in any order of the fields.
AddEntry ==
  /\ Len(object) < MaxEntries
  /\ \E d \in schema : \E v \in IF d.type = "struct" THEN {<<>>, RealtimeInfo} \cup FbnsInfos
                                   ELSE ValuesOf(d.type) :
       /\ d.field \notin {object[i].field : i \in DOMAIN object}
       /\ object' = Append(object, [field |-> d.field, type |-> d.type, value |-> v])
  /\ UNCHANGED schema

Next == AddEntry

Spec == Init /\ [][Next]_vars

-------------------------------------------------------------------------------
(* Properties.                                                               *)

\* A reader that knows all fields, or all but one, reads those it knows and skips
\* the other, be it a struct: entries in any order, with field numbers that rise,
\* fall and leap.
ReadersAgree ==
  LET data == Written(object)
  IN \A ds \in {schema} \cup {schema \ {d} : d \in schema} :
       Read(data, ds) = SelectSeq(object, LAMBDA e : \E d \in ds : d.field = e.field)
===============================================================================
