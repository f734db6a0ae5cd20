------------------------------ MODULE Coconut ------------------------------
(***************************************************************************)
(* Sensors, gateway and network server together, with what can go wrong    *)
(* around them: datagrams lost, repeated and out of order, a websocket     *)
(* that breaks, a gateway and sensors that restart.                        *)
(***************************************************************************)
EXTENDS SensorNode, SensorProxy, NetworkServer

VARIABLE drops   \* how often the websocket broke (bounds Break, nothing else)

vars == <<netVars, sensorVars, proxyVars, serverVars, drops>>

Init == NetInit /\ SensorInit /\ ProxyInit /\ ServerInit /\ drops = 0

-----------------------------------------------------------------------------

\* Whether a message of s, or an answer to one, is on its way.
InFlight(s) ==
  \/ \E m \in up : m.src = s
  \/ \E m \in down : m.dst = s
  \/ \E i \in DOMAIN wsUp : wsUp[i].method = "garbage" \/ wsUp[i].device_id = s
  \/ \E c \in running : c.open /\ c.request.device_id = s
  \/ \E i \in DOMAIN wsDown : wsDown[i].device_id = s

\* The server's side of a connection that breaks learns of it by on_close().
Broken ==
  /\ conn' = FALSE
  /\ wsUp' = <<>> /\ wsDown' = <<>>
  /\ closing' = closing + (IF conn THEN 1 ELSE 0)
  /\ drops' = drops + (IF conn THEN 1 ELSE 0)
  /\ running' = {[c EXCEPT !.open = FALSE] : c \in running}
  /\ UNCHANGED <<up, down, entry, opening, registered, reported>>

Break ==
  /\ conn /\ drops < MaxDrops
  /\ Broken
  /\ UNCHANGED <<sensorVars, proxyVars>>

\* websocket_connect, from the loop or from the start of main.
Connect ==
  /\ ~conn
  /\ Prompt => closing = 0
  /\ conn' = TRUE
  /\ opening' = opening + 1
  /\ UNCHANGED <<up, down, wsUp, wsDown, entry, closing, running, registered, reported,
                 sensorVars, proxyVars, drops>>

\* The gateway starts again: no session, a new network key, the same version.
Restart ==
  /\ g_network_shared_key < MaxStarts
  /\ conn => drops < MaxDrops
  /\ g_network_shared_key' = g_network_shared_key + 1
  /\ sessions' = <<>>
  /\ addr' = NoPwd
  /\ Broken
  /\ UNCHANGED sensorVars

\* The timer's period may or may not exceed every round trip.
Expire(s) == Timer(s) /\ (Patient => ~InFlight(s))

SensorStep == UNCHANGED <<proxyVars, serverVars, drops>>
GatewayStep == UNCHANGED <<sensorVars, serverVars, drops>>
ServerStep == UNCHANGED <<sensorVars, proxyVars, drops>>

Next ==
  \/ \E s \in Sensors : Expire(s) /\ SensorStep
  \/ \E s \in Sensors : RecvServerHello(s) /\ SensorStep
  \/ \E s \in Sensors : RecvError(s) /\ SensorStep
  \/ \E s \in Sensors : RecvData(s) /\ SensorStep
  \/ \E s \in Sensors : Reboot(s) /\ SensorStep
  \/ HandleClientHello /\ GatewayStep
  \/ HandleSensorData /\ GatewayStep
  \/ HandleAuthReply /\ GatewayStep
  \/ HandleDataReply /\ GatewayStep
  \/ HandleOrphanReply /\ GatewayStep
  \/ OpenDone /\ ServerStep
  \/ OnClose /\ ServerStep
  \/ Accept /\ ServerStep
  \/ DropUnparsable /\ ServerStep
  \/ DeviceAuth /\ ServerStep
  \/ DeviceNew /\ ServerStep
  \/ DeviceReport /\ ServerStep
  \/ Lose /\ UNCHANGED <<sensorVars, proxyVars, serverVars, drops>>
  \/ Connect
  \/ Break
  \/ Restart

Spec == Init /\ [][Next]_vars

-----------------------------------------------------------------------------
\* Safety.

\* Types, and the bounds of the websocket's queues.
TypeOK == NetTypeOK /\ SensorTypeOK /\ ProxyTypeOK /\ ServerTypeOK /\ drops \in Nat

\* A genuine network key of any start, running or past, is held only by devices
\* the owner of the gateway added: whatever answers go astray because every
\* answer goes to addr (sensor_proxy.c:434, :477), and whatever a sensor takes
\* for its key because decryption never fails (main.c:508-518).
KeySecrecy == \A s \in Sensors :
  network_shared_key[s].key # Junk =>
    /\ s \in Valid
    /\ network_shared_key[s].key <= g_network_shared_key

\* A session marked authenticated holds the password of the device it serves,
\* which the server confirmed, although the device id is overwritten by every
\* hello and the answer is matched by device id alone (sensor_proxy.c:199, :419).
SessionBinding == \A i \in DOMAIN sessions :
  sessions[i].auth_flag =>
    sessions[i].pwd = sessions[i].device_id /\ sessions[i].device_id \in Valid

\* A sensor that believes it is registered (main.c:105) is registered in the
\* database, although the confirmation is matched by neither message id nor
\* session and may be delivered late, twice or to another sensor.
RegistrationSound == \A s \in Sensors : reg_success[s] => s \in registered

\* No report on its way can meet a device whose objects are not stored yet:
\* device_report would answer INVALID_MSG_FMT (device_handler.py:117-124), and
\* the sensor ignores that answer.
ReportsLand ==
  /\ \A m \in up : m.type = "data" /\ m.method = "report" => m.src \in registered
  /\ \A i \in DOMAIN wsUp :
       wsUp[i].method = "report" => wsUp[i].device_id \in registered
  /\ \A c \in running :
       c.request.method = "report" => c.request.device_id \in registered

\* With one sensor, whatever the radio, the websocket and the gateway's restarts
\* do, the sensor never takes junk for the network key until it reboots: the
\* random number its gateway session holds is the one it still has.
SoloKeyGenuine == \A s \in Sensors :
  Sensors = {s} /\ reboots[s] = 0 /\ auth_success[s] => network_shared_key[s].key # Junk

\* With one sensor, the owner's, until the gateway restarts or the sensor reboots:
\* whatever is lost, repeated or late, and however often the websocket breaks, the
\* gateway never tells it that its password or its key is wrong or its session gone
\* (sensor_proxy.c:256, :311, :327, :383, :447), and so never sends it back to a full
\* handshake.
SoloNeverRefused == \A s \in Valid :
  Sensors = {s} /\ reboots[s] = 0 /\ g_network_shared_key = 1 =>
    \A m \in down : m.type = "error" => m.code = "SERVER_ERROR"

\* Only the owner's devices get past the handshake, to register and to report.  An
\* answer meant for one of them may go to the source of the last datagram, and no
\* sensor tells an answer for another from its own; but a stranger is the source only
\* while the one session the gateway has is the stranger's (session.c:11-24,
\* sensor_proxy.c:167, :434).
OnlyMembersJoin == \A s \in Sensors : auth_success[s] => s \in Valid

\* The protocol implements the join service.
Join == INSTANCE JoinService WITH
  Devices <- Sensors, Members <- Valid,
  epoch <- g_network_shared_key,
  held <- [s \in Sensors |-> network_shared_key[s].key],
  enrolled <- registered,
  confirmed <- {s \in Sensors : reg_success[s]}

\* Every step of the protocol is a step of the join service or changes nothing of
\* it: no delay, loss, repetition, restart or misdirected answer lets a device gain
\* a key it must not have or a belief that is wrong.
ImplementsJoin == Join!JoinSpec

-----------------------------------------------------------------------------
\* Liveness.

(***************************************************************************)
(* The fairness the scheduling justifies.  Contiki's etimer fires again    *)
(* and again; the gateway's loop and the server's event loop serve what    *)
(* waits; the gateway reconnects in every round of its loop.  The radio    *)
(* may lose any datagram, but not every datagram of a kind for ever, hence *)
(* strong fairness for what a datagram triggers.                           *)
(***************************************************************************)
Fairness ==
  /\ \A s \in Sensors :
       /\ WF_vars(Expire(s) /\ SensorStep)
       /\ SF_vars(RecvServerHello(s) /\ SensorStep)
       /\ SF_vars(RecvError(s) /\ SensorStep)
       /\ SF_vars(RecvData(s) /\ SensorStep)
  /\ SF_vars(HandleClientHello /\ GatewayStep)
  /\ SF_vars(HandleSensorData /\ GatewayStep)
  /\ WF_vars((HandleAuthReply \/ HandleDataReply \/ HandleOrphanReply) /\ GatewayStep)
  /\ WF_vars((Accept \/ DropUnparsable) /\ ServerStep)
  /\ WF_vars((DeviceAuth \/ DeviceNew \/ DeviceReport) /\ ServerStep)
  /\ WF_vars(OpenDone /\ ServerStep)
  /\ WF_vars(OnClose /\ ServerStep)
  /\ WF_vars(Connect)

FairSpec == Spec /\ Fairness

Joined(s) ==
  /\ auth_success[s] /\ reg_success[s]
  /\ network_shared_key[s].key = g_network_shared_key

\* An owner's sensor alone in its network ends up joined for good once restarts
\* and disconnections end: SESSION_NOT_FOUND and INVALID_PWD (sensor_proxy.c:327,
\* :447) lead it back to a full handshake although the new key has the version of
\* the old one.
EventuallyJoined == \A s \in Valid : <>[]Joined(s)

\* Such a sensor's reports reach the history.
EventuallyReported == \A s \in Valid : <>(s \in reported)

-----------------------------------------------------------------------------
\* What the repository says and the code does not do.

\* cloud/README.md:15, "each sensor in same network share one session key".
OneSessionKey == \A s, t \in Sensors :
  auth_success[s] /\ auth_success[t] =>
    network_shared_key[s].key = network_shared_key[t].key

\* cloud/README.md:36-37, "Decode session key or leave the network".
DecodeOrLeave == \A s \in Sensors :
  auth_success[s] => network_shared_key[s].key # Junk
=============================================================================
