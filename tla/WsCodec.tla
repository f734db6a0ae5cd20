------------------------------ MODULE WsCodec ------------------------------
(***************************************************************************)
(* The header of a message as three programs write and read it: sensor and *)
(* gateway lay a packed C struct over the bytes (message.h), the network   *)
(* server puts them together and takes them apart in Python (message.py).  *)
(* The sensor and the server are little-endian; a gateway, which may not   *)
(* be, passes a sensor's bytes unchanged.  A number of 16 bits is a pair   *)
(* of bytes on the wire; of the parameters only the length is kept.        *)
(***************************************************************************)
EXTENDS Naturals

CONSTANTS
  Ids,       \* message ids a device uses
  Lengths    \* lengths of parameters

Word == {n \in Nat : n < 65536}
Byte == 0..255

ASSUME WordAssumption == Ids \subseteq Word /\ Lengths \subseteq Word

VARIABLES
  sent,   \* the message last sent, and who sent it
  wire,   \* its header and the length of what follows
  got     \* what its receiver made of it, or Nothing while it is on its way

vars == <<sent, wire, got>>

TYPE_REQUEST == 0
TYPE_RESPONSE == 1
TYPE_ALL == {TYPE_REQUEST, TYPE_RESPONSE}

Message == [by : {"device", "server"}, type : TYPE_ALL, id : Word, body : Word]
Nothing == [type |-> 98, id |-> 0, body |-> 0]
ValueError == [type |-> 99, id |-> 0, body |-> 0]

TypeOK ==
  /\ sent \in Message
  /\ wire \in [type : Byte, id : Byte \X Byte, len : Byte \X Byte, body : Word]
  /\ got \in [type : Nat, id : Word, body : Word]

-----------------------------------------------------------------------------
\* Numbers on the wire.

LittleEndianM(x) == <<x, x \div 256>>
LittleEndian(x) == <<x % 256, x \div 256>>
FromLittleEndian(w) == w[1] + 256 * w[2]
\* buf2int
FromBigEndian(w) == 256 * w[1] + w[2]
\* htons and ntohs of a little-endian machine exchange the bytes.
ntohsM(x) == x
ntohs(x) == 256 * (x % 256) + x \div 256

\* Sensor and gateway: the bit field of the version is the lower two bits.
DeviceBuild(m) == [type |-> 4 * m.type, id |-> LittleEndian(m.id),
                   len |-> LittleEndian(m.body), body |-> m.body]
DeviceParse(w) ==
  [type |-> w.type \div 4, id |-> FromLittleEndian(w.id), body |-> w.body]

\* The server shifts the type over the version; the diagram has it the other
\* way round (message.py:8-11).
TypeByteM(type) == type
TypeByte(type) == 4 * type
build_message(m) ==
  [type |-> TypeByte(m.type), id |-> LittleEndian(ntohs(m.id)),
   len |-> LittleEndian(m.body), body |-> m.body]

\* It reads the version from the upper two bits and the type from the lower six.
Lesser(a, b) == IF a < b THEN a ELSE b
parse_message(w) ==
  IF w.type \div 64 = 0 /\ w.type % 64 \in TYPE_ALL
  THEN [type |-> w.type % 64, id |-> ntohs(FromBigEndian(w.id)),
        body |-> Lesser(ntohs(FromBigEndian(w.len)), w.body)]
  ELSE ValueError

-----------------------------------------------------------------------------

Init ==
  /\ sent \in [by : {"device"}, type : {TYPE_REQUEST}, id : Ids, body : Lengths]
  /\ wire = DeviceBuild(sent)
  /\ got = Nothing

\* A request, or the answer to a request of the server.
DeviceSends ==
  /\ got # Nothing
  /\ sent' \in [by : {"device"}, type : TYPE_ALL, id : Ids, body : Lengths]
  /\ wire' = DeviceBuild(sent')
  /\ got' = Nothing

ServerReceives ==
  /\ got = Nothing /\ sent.by = "device"
  /\ got' = parse_message(wire)
  /\ UNCHANGED <<sent, wire>>

\* on_message answers a request under the id it parsed.
ServerAnswers ==
  /\ sent.by = "device" /\ got.type = TYPE_REQUEST
  /\ sent' \in [by : {"server"}, type : {TYPE_RESPONSE}, id : {got.id}, body : Lengths]
  /\ wire' = build_message(sent')
  /\ got' = Nothing

DeviceReceives ==
  /\ got = Nothing /\ sent.by = "server"
  /\ got' = DeviceParse(wire)
  /\ UNCHANGED <<sent, wire>>

Next == DeviceSends \/ ServerReceives \/ ServerAnswers \/ DeviceReceives
Spec == Init /\ [][Next]_vars

-----------------------------------------------------------------------------

\* The server understands every request: its id, and all of its parameters,
\* although it reads numbers in the other byte order (message.py:371-378).
RequestsUnderstood ==
  (got # Nothing /\ sent.by = "device" /\ sent.type = TYPE_REQUEST) =>
    got = [type |-> TYPE_REQUEST, id |-> sent.id, body |-> sent.body]

\* A device takes every answer of the server for an answer (main.c:550-589).
AnswersRecognised ==
  (got # Nothing /\ sent.by = "server") => got.type = TYPE_RESPONSE

\* The type is "Request(0)/Response(1)" (message.py:21), so a response of a
\* device reaches the transaction that waits for it (device_handler.py:515).
ResponsesUnderstood ==
  (got # Nothing /\ sent.by = "device" /\ sent.type = TYPE_RESPONSE) =>
    got.type = TYPE_RESPONSE
=============================================================================
