--------------------------- MODULE WsCodecProofs ---------------------------
(***************************************************************************)
(* What the codec preserves, for all ids and lengths of 16 bits.           *)
(***************************************************************************)
EXTENDS WsCodec, TLAPS

\* The bytes of a word.
LEMMA Bytes ==
  ASSUME NEW x \in Word
  PROVE  \E p, q \in Byte : x = 256 * q + p /\ q = x \div 256 /\ p = x % 256
<1>1. x \in Nat /\ x < 65536
  BY DEF Word
<1>2. PICK q \in Nat, p \in 0..255 : x = 256 * q + p /\ q = x \div 256 /\ p = x % 256
  BY <1>1
<1>3. q <= 255
  <2>1. 256 * q < 65536
    BY <1>1, <1>2
  <2> QED
    BY <2>1
<1>4. q \in Byte /\ p \in Byte
  BY <1>3 DEF Byte
<1> QED
  BY <1>2, <1>4

\* Exchanging the bytes.
LEMMA Exchange ==
  ASSUME NEW a \in Byte, NEW b \in Byte
  PROVE  ntohs(256 * a + b) = 256 * b + a
<1>1. (256 * a + b) % 256 = b /\ (256 * a + b) \div 256 = a
  BY DEF Byte
<1> QED
  BY <1>1 DEF ntohs, Byte

\* What is written low byte first, read high byte first and exchanged is what
\* was written.
LEMMA RoundTrip ==
  ASSUME NEW x \in Word
  PROVE  ntohs(FromBigEndian(LittleEndian(x))) = x
<1>1. PICK p, q \in Byte : x = 256 * q + p /\ q = x \div 256 /\ p = x % 256
  BY Bytes
<1>2. FromBigEndian(LittleEndian(x)) = 256 * p + q
  BY <1>1 DEF FromBigEndian, LittleEndian
<1>3. ntohs(256 * p + q) = 256 * q + p
  BY Exchange
<1> QED
  BY <1>1, <1>2, <1>3

\* The server parses a request of a device into what the device meant, and
\* refuses a response.
LEMMA ParseOfDevice ==
  ASSUME NEW m \in Message
  PROVE  parse_message(DeviceBuild(m)) =
           IF m.type = TYPE_REQUEST
           THEN [type |-> TYPE_REQUEST, id |-> m.id, body |-> m.body] ELSE ValueError
<1>1. m.id \in Word /\ m.body \in Word /\ m.type \in {0, 1}
  BY DEF Message, TYPE_ALL, TYPE_REQUEST, TYPE_RESPONSE
<1>2. /\ ntohs(FromBigEndian(DeviceBuild(m).id)) = m.id
      /\ ntohs(FromBigEndian(DeviceBuild(m).len)) = m.body
      /\ DeviceBuild(m).type = 4 * m.type /\ DeviceBuild(m).body = m.body
  BY <1>1, RoundTrip DEF DeviceBuild
<1>3. Lesser(m.body, m.body) = m.body
  BY DEF Lesser
<1>4. CASE m.type = 0
  BY <1>2, <1>3, <1>4 DEF parse_message, TYPE_ALL, TYPE_REQUEST, TYPE_RESPONSE
<1>5. CASE m.type = 1
  BY <1>2, <1>5 DEF parse_message, TYPE_ALL, TYPE_REQUEST, TYPE_RESPONSE
<1> QED
  BY <1>1, <1>4, <1>5 DEF TYPE_REQUEST

\* A device parses an answer of the server as a response.
LEMMA ParseOfServer ==
  ASSUME NEW m \in Message
  PROVE  DeviceParse(build_message(m)).type = m.type
BY DEF DeviceParse, build_message, TypeByte, Message, TYPE_ALL, TYPE_REQUEST, TYPE_RESPONSE

-----------------------------------------------------------------------------

\* The wire carries what the sender built, and got is what the receiver read.
ExchangeInv ==
  /\ sent \in Message
  /\ sent.by = "device" =>
       /\ wire = DeviceBuild(sent)
       /\ got \in {Nothing, parse_message(wire)}
  /\ sent.by = "server" =>
       /\ sent.type = TYPE_RESPONSE
       /\ wire = build_message(sent)
       /\ got \in {Nothing, DeviceParse(wire)}

\* The first request.
LEMMA ExchangeInit == Init => ExchangeInv
<1> SUFFICES ASSUME Init PROVE ExchangeInv
  OBVIOUS
<1>1. sent \in Message /\ sent.by = "device"
  <2>1. sent \in [by : {"device"}, type : TYPE_ALL, id : Word, body : Word]
    BY WordAssumption DEF Init, TYPE_ALL
  <2> QED
    BY <2>1 DEF Message
<1> QED
  BY <1>1 DEF Init, ExchangeInv

\* A step keeps ExchangeInv.
LEMMA ExchangeStep == ExchangeInv /\ [Next]_vars => ExchangeInv'
<1> SUFFICES ASSUME ExchangeInv, [Next]_vars PROVE ExchangeInv'
  OBVIOUS
<1>1. CASE UNCHANGED vars
  BY <1>1 DEF vars, ExchangeInv
<1>2. CASE DeviceSends
  <2>1. sent' \in Message /\ sent'.by = "device"
    <3>1. sent' \in [by : {"device"}, type : TYPE_ALL, id : Word, body : Word]
      BY <1>2, WordAssumption DEF DeviceSends
    <3> QED
      BY <3>1 DEF Message
  <2> QED
    BY <1>2, <2>1 DEF DeviceSends, ExchangeInv
<1>3. CASE ServerReceives
  BY <1>3 DEF ServerReceives, ExchangeInv
<1>4. CASE ServerAnswers
  <2>1. got = [type |-> TYPE_REQUEST, id |-> sent.id, body |-> sent.body]
    BY <1>4, ParseOfDevice
    DEF ServerAnswers, ExchangeInv, Nothing, ValueError, TYPE_REQUEST
  <2>2. got.id \in Word
    BY <2>1 DEF ExchangeInv, Message
  <2>3. /\ sent' \in Message /\ sent'.by = "server" /\ sent'.type = TYPE_RESPONSE
    <3>1. sent' \in [by : {"server"}, type : {TYPE_RESPONSE}, id : Word, body : Word]
      BY <1>4, <2>2, WordAssumption DEF ServerAnswers
    <3> QED
      BY <3>1 DEF Message, TYPE_ALL
  <2> QED
    BY <1>4, <2>3 DEF ServerAnswers, ExchangeInv
<1>5. CASE DeviceReceives
  BY <1>5 DEF DeviceReceives, ExchangeInv
<1> QED
  BY <1>1, <1>2, <1>3, <1>4, <1>5 DEF Next

\* Words are the numbers up to 65535.
LEMMA UpToWord ==
  ASSUME NEW n \in Nat, n <= 65535
  PROVE  n \in Word
<1>1. n < 65536
  OBVIOUS
<1> QED
  BY <1>1 DEF Word

\* A word has two bytes, exchanging them makes a word, and a little-endian reader
\* gets back what a little-endian writer wrote.
LEMMA WordBytes ==
  ASSUME NEW x \in Word
  PROVE  /\ LittleEndian(x) \in Byte \X Byte
         /\ ntohs(x) \in Word
         /\ FromLittleEndian(LittleEndian(x)) = x
<1>1. PICK p, q \in Byte : x = 256 * q + p /\ q = x \div 256 /\ p = x % 256
  BY Bytes
<1>2. ntohs(x) = 256 * p + q
  BY <1>1, Exchange
<1>3. LittleEndian(x) = <<p, q>>
  BY <1>1 DEF LittleEndian
<1>4. 256 * p + q \in Word
  <2>1. p \in Nat /\ p <= 255 /\ q \in Nat /\ q <= 255
    BY DEF Byte
  <2>2. 256 * p <= 65280
    BY <2>1
  <2>3. 256 * p + q \in Nat /\ 256 * p + q <= 65535
    BY <2>1, <2>2
  <2> QED
    BY <2>3, UpToWord
<1>5. FromLittleEndian(<<p, q>>) = 256 * q + p
  BY DEF FromLittleEndian, Byte
<1> QED
  BY <1>1, <1>2, <1>3, <1>4, <1>5

\* What stands for no message, and for an exception, is no message but has the
\* types of one.
LEMMA NoMessage ==
  /\ Nothing \in [type : Nat, id : Word, body : Word]
  /\ ValueError \in [type : Nat, id : Word, body : Word]
<1>1. 0 \in Word
  BY DEF Word
<1> QED
  BY <1>1 DEF Nothing, ValueError

\* What a device sends and what the server makes of it have their types.
LEMMA DeviceTypes ==
  ASSUME ExchangeInv, sent.by = "device"
  PROVE  TypeOK
<1>1. sent.id \in Word /\ sent.body \in Word /\ sent.type \in {0, 1} /\ sent \in Message
  BY DEF ExchangeInv, Message, TYPE_ALL, TYPE_REQUEST, TYPE_RESPONSE
<1>2. /\ wire = [type |-> 4 * sent.type, id |-> LittleEndian(sent.id),
                 len |-> LittleEndian(sent.body), body |-> sent.body]
      /\ 4 * sent.type \in Byte
  BY <1>1 DEF ExchangeInv, DeviceBuild, Byte
<1>3. wire \in [type : Byte, id : Byte \X Byte, len : Byte \X Byte, body : Word]
  BY <1>1, <1>2, WordBytes
<1>4. got \in {Nothing, ValueError, [type |-> TYPE_REQUEST, id |-> sent.id, body |-> sent.body]}
  BY <1>1, ParseOfDevice DEF ExchangeInv
<1>5. got \in [type : Nat, id : Word, body : Word]
  BY <1>1, <1>4, NoMessage DEF TYPE_REQUEST
<1> QED
  BY <1>1, <1>3, <1>5 DEF TypeOK

\* What the server answers and what the device makes of it have their types.
LEMMA ServerTypes ==
  ASSUME ExchangeInv, sent.by = "server"
  PROVE  TypeOK
<1>1. sent.id \in Word /\ sent.body \in Word /\ sent.type = 1 /\ sent \in Message
  BY DEF ExchangeInv, Message, TYPE_RESPONSE
<1>2. ntohs(sent.id) \in Word
  BY <1>1, WordBytes
<1>3. wire = [type |-> 4, id |-> LittleEndian(ntohs(sent.id)),
              len |-> LittleEndian(sent.body), body |-> sent.body]
  BY <1>1 DEF ExchangeInv, build_message, TypeByte
<1>4. wire \in [type : Byte, id : Byte \X Byte, len : Byte \X Byte, body : Word]
  <2>1. 4 \in Byte
    BY DEF Byte
  <2>2. LittleEndian(ntohs(sent.id)) \in Byte \X Byte /\ LittleEndian(sent.body) \in Byte \X Byte
    BY <1>1, <1>2, WordBytes
  <2> QED
    BY <1>1, <1>3, <2>1, <2>2
<1>5. got \in {Nothing, DeviceParse(wire)}
  BY DEF ExchangeInv
<1>6. DeviceParse(wire) = [type |-> 4 \div 4, id |-> ntohs(sent.id), body |-> sent.body]
  BY <1>2, <1>3, WordBytes DEF DeviceParse
<1>7. got \in [type : Nat, id : Word, body : Word]
  <2>1. 4 \div 4 \in Nat
    OBVIOUS
  <2>2. DeviceParse(wire) \in [type : Nat, id : Word, body : Word]
    BY <1>1, <1>2, <1>6, <2>1
  <2> QED
    BY <1>5, <2>2, NoMessage
<1> QED
  BY <1>1, <1>4, <1>7 DEF TypeOK

\* Bytes are bytes and words are words, on the wire and in what is read from it
\* (message.h:42-67, message.py:332-384).
THEOREM BytesAreBytes == Spec => []TypeOK
<1>1. ExchangeInv => TypeOK
  <2>1. ExchangeInv => sent.by \in {"device", "server"}
    BY DEF ExchangeInv, Message
  <2> QED
    BY <2>1, DeviceTypes, ServerTypes
<1> QED
  BY <1>1, ExchangeInit, ExchangeStep, PTL DEF Spec

\* The server understands every request (message.py:351-384).
THEOREM RequestsAreUnderstood == Spec => []RequestsUnderstood
<1>1. ExchangeInv => RequestsUnderstood
  BY ParseOfDevice DEF ExchangeInv, RequestsUnderstood
<1> QED
  BY <1>1, ExchangeInit, ExchangeStep, PTL DEF Spec

\* A device takes an answer for an answer (message.py:332-349).
THEOREM AnswersAreRecognised == Spec => []AnswersRecognised
<1>1. ExchangeInv => AnswersRecognised
  BY ParseOfServer DEF ExchangeInv, AnswersRecognised, Message
<1> QED
  BY <1>1, ExchangeInit, ExchangeStep, PTL DEF Spec
=============================================================================
