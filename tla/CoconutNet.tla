---------------------------- MODULE CoconutNet ----------------------------
(***************************************************************************)
(* What the sensor firmware, the gateway's sensor-proxy and the network    *)
(* server share: the constants, the messages, the two networks that carry  *)
(* them and the vocabulary of keys.                                        *)
(*                                                                         *)
(* The sensors and the gateway exchange UDP datagrams over 6LoWPAN.  UDP   *)
(* loses, reorders and (when the link layer misses an acknowledgement)     *)
(* repeats datagrams, so a direction is the SET of datagrams in flight.    *)
(* The gateway and the network server share one websocket: two queues that *)
(* are in order and lose everything when the connection breaks.            *)
(*                                                                         *)
(* Keys.  A start of the gateway draws one random network key: the key of  *)
(* the n-th start is the number n.  Junk is what decrypting with a wrong   *)
(* key leaves: there is no padding and no integrity check, so the result   *)
(* is 16 arbitrary bytes that nobody else holds.  A master key is the      *)
(* sensor's burned-in password XOR the low byte of a random number; it is  *)
(* the pair <<owner of the password, random number>>, which takes burned-in*)
(* passwords that do not differ by one repeated byte.                      *)
(***************************************************************************)
EXTENDS Naturals, Sequences, FiniteSets

CONSTANTS
  Sensors,     \* every device that talks to the gateway; also its password
  Added,       \* the devices some user has added to an account
  Valid,       \* the devices added by the owner of the gateway's license
  Randoms,     \* the values of the random number's low byte
  NoPwd,       \* bytes that are no sensor's password
  MaxStarts,   \* bound: starts of the gateway
  MaxReboots,  \* bound: reboots of each sensor
  MaxDrops,    \* bound: times the websocket breaks, restarts included
  UdpCap,      \* bound: datagrams in flight in a direction
  WsCap,       \* bound: messages in flight in a direction of the websocket
  MaxRunning,  \* bound: requests the server works on at once
  Duplicates,  \* whether the radio may deliver a datagram again
  Patient,     \* whether a round trip always ends within a sensor's timer
  Prompt       \* whether the server notices a dead connection before a new one

ASSUME SensorsAssumption == Valid \subseteq Added /\ Added \subseteq Sensors
ASSUME NoPwdAssumption == NoPwd \notin Sensors
ASSUME RandomsAssumption == Randoms # {}
ASSUME BoundsAssumption ==
  /\ {MaxStarts, MaxReboots, MaxDrops, UdpCap, WsCap, MaxRunning} \subseteq Nat
  /\ {Duplicates, Patient, Prompt} \subseteq BOOLEAN

VARIABLES
  up,      \* datagrams in flight from the sensors to the gateway
  down,    \* datagrams in flight from the gateway to the sensors
  conn,    \* whether the gateway's websocket is connected
  wsUp,    \* websocket messages in flight from the gateway to the server
  wsDown   \* websocket messages in flight from the server to the gateway

netVars == <<up, down, conn, wsUp, wsDown>>

Junk == 0

PublicKeyVersion == 0

\* generate_network_shared_key runs once a start, on a zeroed version.
CurrentKeyVersion == 1

Pwd == Sensors \cup {NoPwd}
Reason == {"INVALID_PWD", "INVALID_KEY_VERSION", "SERVER_ERROR", "SESSION_NOT_FOUND"}

ClientHello == [type : {"client_hello"}, src : Sensors, key_version : {0, 1},
                key : Nat, random_num : Randoms]
SensorData == [type : {"data"}, src : Sensors, key_version : {0, 1}, key : Nat,
               method : {"new_device", "report"}]
UpMsg == ClientHello \cup SensorData

ServerHello == [type : {"server_hello"}, dst : Sensors, pwd : Pwd,
                random_num : Randoms, key : Nat]
SecurityError == [type : {"error"}, dst : Sensors, code : Reason]
GatewayData == [type : {"data"}, dst : Sensors, key : Nat, device_id : Sensors,
                method : {"new_device", "report"}, result : {"ok", "fail"}]
DownMsg == ServerHello \cup SecurityError \cup GatewayData

\* "garbage" is a datagram the gateway decrypted with the wrong key and passed
\* on, "connect_error" the answer to the server when no session is found.
Request == [method : {"auth"}, device_id : Sensors, pwd : Pwd]
           \cup [method : {"new_device", "report"}, device_id : Sensors]
WsUpMsg == Request \cup [method : {"connect_error"}, device_id : Sensors]
           \cup [method : {"garbage"}]
WsDownMsg == [method : {"auth", "new_device", "report"}, device_id : Sensors,
              result : {"ok", "fail"}, pwd : Pwd]

NetTypeOK ==
  /\ up \subseteq UpMsg
  /\ down \subseteq DownMsg
  /\ conn \in BOOLEAN
  /\ wsUp \in Seq(WsUpMsg) /\ Len(wsUp) <= WsCap
  /\ wsDown \in Seq(WsDownMsg) /\ Len(wsDown) <= WsCap
  /\ ~conn => wsUp = <<>> /\ wsDown = <<>>

NetInit ==
  /\ up = {} /\ down = {}
  /\ conn = FALSE
  /\ wsUp = <<>> /\ wsDown = <<>>

-----------------------------------------------------------------------------

\* A datagram sent when the radio's buffers are full is lost, silently.
Sent(ch, m) == IF Cardinality(ch) < UdpCap THEN ch \cup {m} ELSE ch

\* What may be in flight once m is delivered.
Delivered(ch, m) == {ch \ {m}} \cup {ch2 \in {ch} : Duplicates}

Error(s, code) == [type |-> "error", dst |-> s, code |-> code]

\* A write fails when the websocket is down or its buffer stays full through
\* the five retries.
CanWriteM == conn
CanWrite == conn /\ Len(wsUp) < WsCap

\* UDP: a datagram is lost.
Lose ==
  /\ \/ \E m \in up : up' = up \ {m} /\ UNCHANGED down
     \/ \E m \in down : down' = down \ {m} /\ UNCHANGED up
  /\ UNCHANGED <<conn, wsUp, wsDown>>
=============================================================================
