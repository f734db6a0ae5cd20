---------------------------- MODULE SensorNode ----------------------------
(***************************************************************************)
(* The join side of the sensor firmware (main.c, crypto.c, message.c): the *)
(* process thread, which on its timer says hello, registers or reports,    *)
(* and the handler of the datagrams that come back.                        *)
(***************************************************************************)
EXTENDS CoconutNet

VARIABLES
  auth_success,        \* auth_success[s], 1 once a server hello was taken
  reg_success,         \* reg_success[s], 1 once NEW_DEVICE was answered [0]
  network_shared_key,  \* network_shared_key[s] = [used, version, key]
  random_num,          \* master_key.random_num of s, drawn once a boot
  reboots              \* how often s rebooted (bounds Reboot, nothing else)

sensorVars == <<auth_success, reg_success, network_shared_key, random_num, reboots>>

NoKey == [used |-> FALSE, version |-> 0, key |-> Junk]

SensorTypeOK ==
  /\ auth_success \in [Sensors -> BOOLEAN]
  /\ reg_success \in [Sensors -> BOOLEAN]
  /\ network_shared_key \in [Sensors -> [used : BOOLEAN, version : {0, 1}, key : Nat]]
  /\ random_num \in [Sensors -> Randoms]
  /\ reboots \in [Sensors -> Nat]

SensorInit ==
  /\ auth_success = [s \in Sensors |-> FALSE]
  /\ reg_success = [s \in Sensors |-> FALSE]
  /\ network_shared_key = [s \in Sensors |-> NoKey]
  /\ random_num \in [Sensors -> Randoms]
  /\ reboots = [s \in Sensors |-> 0]

-----------------------------------------------------------------------------

\* create_security_client_hello_msg: the password goes under the network key if
\* one is in use, else the image's copy under the cloud's public key goes.
Hello(s) ==
  LET k == network_shared_key[s] IN
  [type |-> "client_hello", src |-> s, random_num |-> random_num[s],
   key_version |-> IF k.used THEN k.version ELSE PublicKeyVersion,
   key |-> IF k.used THEN k.key ELSE Junk]

\* create_security_data_msg around a NEW_DEVICE or REPORT request.
Data(s, method) ==
  [type |-> "data", src |-> s, method |-> method,
   key_version |-> network_shared_key[s].version, key |-> network_shared_key[s].key]

\* What the expired timer sends.
TimerMsgM(s) == IF auth_success[s] THEN Data(s, "report") ELSE Hello(s)
TimerMsg(s) ==
  IF ~auth_success[s] THEN Hello(s)
  ELSE IF ~reg_success[s] THEN Data(s, "new_device")
  ELSE Data(s, "report")

Timer(s) ==
  /\ up' = Sent(up, TimerMsg(s))
  /\ UNCHANGED <<down, conn, wsUp, wsDown, sensorVars>>

\* Decrypting a server hello: right for the sensor whose password and random
\* number it was made for, 16 arbitrary bytes for any other.
HelloKey(s, m) ==
  IF m.pwd = s /\ m.random_num = random_num[s] THEN m.key ELSE Junk

\* Whatever it decrypts to is taken as the network key.
RecvServerHello(s) == \E m \in down :
  /\ m.type = "server_hello" /\ m.dst = s
  /\ down' \in Delivered(down, m)
  /\ network_shared_key' = [network_shared_key EXCEPT
       ![s] = [used |-> TRUE, version |-> CurrentKeyVersion, key |-> HelloKey(s, m)]]
  /\ auth_success' = [auth_success EXCEPT ![s] = TRUE]
  /\ UNCHANGED <<up, conn, wsUp, wsDown, reg_success, random_num, reboots>>

DropsKeyM(code) == FALSE
DropsKey(code) == code \in {"INVALID_PWD", "INVALID_KEY_VERSION"}

RecvError(s) == \E m \in down :
  /\ m.type = "error" /\ m.dst = s
  /\ down' \in Delivered(down, m)
  /\ auth_success' = [auth_success EXCEPT ![s] = FALSE]
  /\ network_shared_key' = [network_shared_key EXCEPT ![s].used = @ /\ ~DropsKey(m.code)]
  /\ UNCHANGED <<up, conn, wsUp, wsDown, reg_success, random_num, reboots>>

\* A datagram under the network key is for s if it decrypts and names s.
ForMeM(s, m) == m.key = network_shared_key[s].key /\ m.key # Junk
ForMe(s, m) == ForMeM(s, m) /\ m.device_id = s

RecvData(s) == \E m \in down :
  /\ m.type = "data" /\ m.dst = s
  /\ down' \in Delivered(down, m)
  /\ reg_success' = [reg_success EXCEPT
       ![s] = @ \/ (ForMe(s, m) /\ m.method = "new_device" /\ m.result = "ok")]
  /\ UNCHANGED <<up, conn, wsUp, wsDown, auth_success, network_shared_key,
                 random_num, reboots>>

\* Everything is in RAM: a reboot starts over and draws a random number.
Reboot(s) ==
  /\ reboots[s] < MaxReboots
  /\ reboots' = [reboots EXCEPT ![s] = @ + 1]
  /\ auth_success' = [auth_success EXCEPT ![s] = FALSE]
  /\ reg_success' = [reg_success EXCEPT ![s] = FALSE]
  /\ network_shared_key' = [network_shared_key EXCEPT ![s] = NoKey]
  /\ \E r \in Randoms : random_num' = [random_num EXCEPT ![s] = r]
  /\ UNCHANGED netVars

SensorNext(s) ==
  Timer(s) \/ RecvServerHello(s) \/ RecvError(s) \/ RecvData(s) \/ Reboot(s)
=============================================================================
