------------------------------ MODULE SoloProofs ------------------------------
(***************************************************************************)
(* A sensor alone in its network does not take junk for its key.  Until it *)
(* reboots there is one random number in the system, and this is what the  *)
(* inductive invariant says of each place that holds one.                  *)
(***************************************************************************)
EXTENDS CoconutProofs

HellosOf(s) == \A m \in up : m.type = "client_hello" => m.random_num = random_num[s]

AnswersOf(s) == \A m \in down :
  m.type = "server_hello" => m.random_num = random_num[s] /\ m.key # Junk

SessionsOf(s) == \A i \in DOMAIN sessions : sessions[i].random = random_num[s]

KeyOf(s) == auth_success[s] => network_shared_key[s].key # Junk

SoloOf(s) == HellosOf(s) /\ AnswersOf(s) /\ SessionsOf(s) /\ KeyOf(s)

\* SoloKeyGenuine with what makes it last: the numbers in flight and in the
\* gateway's session are the sensor's.
SoloInv == \A s \in Sensors : Sensors = {s} /\ reboots[s] = 0 => SoloOf(s)

\* A sensor that has not rebooted has the random number it had.
LEMMA NumberStays ==
  ASSUME TypeInv, [Next]_vars, NEW s \in Sensors, reboots'[s] = 0
  PROVE  reboots[s] = 0 /\ random_num'[s] = random_num[s]
<1>1. /\ reboots \in [Sensors -> Nat]
      /\ random_num \in [Sensors -> Randoms]
  BY DEF TypeInv, TypeOK, SensorTypeOK
<1>2. CASE UNCHANGED <<reboots, random_num>>
  BY <1>2
<1>3. CASE \E t \in Sensors : Reboot(t)
  <2>1. PICK t \in Sensors :
          /\ reboots' = [reboots EXCEPT ![t] = @ + 1]
          /\ \E r \in Randoms : random_num' = [random_num EXCEPT ![t] = r]
    BY <1>3 DEF Reboot
  <2>2. t # s
    <3>1. SUFFICES ASSUME t = s PROVE FALSE
      OBVIOUS
    <3>2. reboots'[s] = reboots[s] + 1 /\ reboots[s] \in Nat
      BY <1>1, <2>1, <3>1
    <3> QED BY <3>2
  <2> QED BY <1>1, <2>1, <2>2
<1>4. \/ UNCHANGED <<reboots, random_num>>
      \/ \E t \in Sensors : Reboot(t)
  BY NextCases
     DEF vars, sensorVars, SensorNext, Timer, RecvServerHello, RecvError, RecvData,
         GatewayStep, ServerStep, Connect, Break, Restart
<1> QED BY <1>2, <1>3, <1>4

\* The sensor says hello with its number, and takes a key only of a hello that was
\* made for it.
LEMMA SensorSolo ==
  ASSUME TypeInv, AuthInv, NEW s \in Sensors, Sensors = {s}, SoloOf(s),
         random_num'[s] = random_num[s], SensorNext(s), SensorStep, ~Reboot(s)
  PROVE  SoloOf(s)'
<1>1. sessions' = sessions
  BY DEF SensorStep, proxyVars
<1>2. \A x \in down' : x \in down
  BY DeliveredElem DEF SensorNext, Timer, RecvServerHello, RecvError, RecvData
<1>3. HellosOf(s)'
  <2>1. CASE Timer(s)
    <3>1. \A x \in up' : x \in up \/ x = TimerMsg(s)
      BY <2>1, SentElem DEF Timer
    <3>2. TimerMsg(s).type = "client_hello" => TimerMsg(s).random_num = random_num[s]
      BY DEF TimerMsg, Hello, Data
    <3> QED BY <3>1, <3>2 DEF SoloOf, HellosOf
  <2>2. CASE ~Timer(s)
    <3>1. up' = up
      BY <2>2 DEF SensorNext, RecvServerHello, RecvError, RecvData
    <3> QED BY <3>1 DEF SoloOf, HellosOf
  <2> QED BY <2>1, <2>2
<1>4. KeyOf(s)'
  <2>1. CASE RecvServerHello(s)
    <3>1. PICK m \in down :
            /\ m.type = "server_hello"
            /\ network_shared_key' = [network_shared_key EXCEPT
                 ![s] = [used |-> TRUE, version |-> CurrentKeyVersion, key |-> HelloKey(s, m)]]
      BY <2>1 DEF RecvServerHello
    <3>2. m.pwd = s
      BY <3>1, SensorsAssumption DEF AuthInv, HelloInv
    <3>3. HelloKey(s, m) # Junk
      BY <3>1, <3>2 DEF SoloOf, AnswersOf, HelloKey
    <3> QED BY <3>1, <3>3 DEF KeyOf, TypeInv, TypeOK, SensorTypeOK
  <2>2. CASE RecvError(s)
    BY <2>2 DEF RecvError, KeyOf, TypeInv, TypeOK, SensorTypeOK
  <2>3. CASE Timer(s) \/ RecvData(s)
    BY <2>3 DEF Timer, RecvData, sensorVars, SoloOf, KeyOf
  <2> QED BY <2>1, <2>2, <2>3 DEF SensorNext
<1>5. AnswersOf(s)'
  BY <1>2 DEF SoloOf, AnswersOf
<1>6. SessionsOf(s)'
  BY <1>1 DEF SoloOf, SessionsOf
<1> QED BY <1>3, <1>4, <1>5, <1>6 DEF SoloOf

\* What a hello leaves in the session: its number, or the one of a session that is
\* authenticated and therefore was there before.
LEMMA ClientHelloSolo ==
  ASSUME TypeInv, NEW s \in Sensors, Sensors = {s}, SoloOf(s), random_num'[s] = random_num[s],
         HandleClientHello, GatewayStep
  PROVE  SoloOf(s)'
<1>1. PICK m \in up : \E sv \in Served(m.src) : TakeHello(m, sv)
  BY DEF HandleClientHello
<1>2. PICK sv \in Served(m.src) : TakeHello(m, sv)
  BY <1>1
<1> DEFINE x == sv.list[sv.at]
           y == [x EXCEPT !.device_id = m.src, !.random = KeptRandom(x, m)]
           auth == [method |-> "auth", device_id |-> m.src, pwd |-> AuthPwd(m)]
<1>3. /\ m.type = "client_hello"
      /\ up' \in Delivered(up, m)
      /\ sessions' = [sv.list EXCEPT ![sv.at] = y]
      /\ \/ WriteOrError(auth)
         \/ Answer(ServerHelloMsg(m.src, y))
         \/ Answer(Error(m.src, HelloVerdict(x, m)))
  BY <1>2 DEF TakeHello
<1>4. /\ m.src \in Sensors
      /\ x \in Session
      /\ [sv.list EXCEPT ![sv.at] = y] = <<y>>
      /\ x.auth_flag => sessions = <<x>>
  BY <1>3, HelloSession
<1>5. m \in ClientHello /\ m.random_num = random_num[s]
  BY <1>3, UpKinds DEF SoloOf, HellosOf, TypeInv, TypeOK, NetTypeOK
<1>6. x.auth_flag => x.random = random_num[s]
  <2>1. ASSUME sessions = <<x>>
        PROVE  1 \in DOMAIN sessions /\ sessions[1] = x
    BY <2>1
  <2> QED BY <1>4, <2>1 DEF SoloOf, SessionsOf
<1>7. HelloVerdict(x, m) \notin {"ask_server", "grant"} => x.auth_flag
  BY <1>5 DEF HelloVerdict, ClientHello, PublicKeyVersion, CurrentKeyVersion
<1>8. y.random = random_num[s]
  <2>1. KeptRandom(x, m) = random_num[s]
    BY <1>5, <1>6, <1>7 DEF KeptRandom
  <2> QED BY <1>4, <2>1 DEF Session
<1>9. auth \in WsUpMsg
  BY <1>4 DEF AuthPwd, DecryptedPwd, Pwd, WsUpMsg, Request
<1>10. ServerHelloMsg(m.src, y).random_num = random_num[s] /\ ServerHelloMsg(m.src, y).key # Junk
  BY <1>8 DEF ServerHelloMsg, TypeInv, TypeOK, ProxyTypeOK
<1> HIDE DEF x, y, auth
<1>11. SessionsOf(s)'
  <2>1. DOMAIN sessions' = {1} /\ sessions'[1] = y
    BY <1>3, <1>4
  <2> QED BY <1>8, <2>1 DEF SessionsOf
<1>12. AnswersOf(s)'
  <2>1. \A d \in down' : d \in down \/ d.type = "error" \/ d = ServerHelloMsg(m.src, y)
    BY <1>3, <1>9, WriteAdds, SentElem DEF Answer, Error, TypeInv, TypeOK
  <2> QED BY <1>10, <2>1 DEF SoloOf, AnswersOf
<1>13. HellosOf(s)'
  BY <1>3, DeliveredElem DEF SoloOf, HellosOf
<1>14. KeyOf(s)'
  BY DEF GatewayStep, sensorVars, SoloOf, KeyOf
<1> QED BY <1>11, <1>12, <1>13, <1>14 DEF SoloOf

\* A server hello after an answer of the server has the number of the session.
LEMMA AuthReplySolo ==
  ASSUME TypeInv, NEW s \in Sensors, SoloOf(s), random_num'[s] = random_num[s],
         HandleAuthReply, GatewayStep
  PROVE  SoloOf(s)'
<1> DEFINE r == Head(wsDown)
           y == [sessions[1] EXCEPT !.pwd = r.pwd, !.auth_flag = TRUE]
<1>1. FindSession(r.device_id) # {} /\ up' = up
  BY DEF HandleAuthReply, Answered
<1>2. /\ First(Answered(r.device_id)) = 1
      /\ 1 \in DOMAIN sessions
      /\ sessions[1] \in Session
  BY <1>1, AnsweredSession DEF TypeInv, TypeOK, Answered
<1>3. \/ /\ sessions' = [sessions EXCEPT ![1] = y]
         /\ Answer(ServerHelloMsg(addr, y))
      \/ /\ Answer(Error(addr, "INVALID_PWD"))
         /\ sessions' = sessions
  BY <1>2 DEF HandleAuthReply
<1>4. y.random = random_num[s]
  BY <1>2 DEF Session, SoloOf, SessionsOf
<1>5. ServerHelloMsg(addr, y).random_num = random_num[s] /\ ServerHelloMsg(addr, y).key # Junk
  BY <1>4 DEF ServerHelloMsg, TypeInv, TypeOK, ProxyTypeOK
<1> HIDE DEF r, y
<1>6. SessionsOf(s)'
  <2>1. CASE sessions' = [sessions EXCEPT ![1] = y]
    <3>1. DOMAIN sessions' \subseteq {1} /\ sessions'[1] = y
      BY <1>2, <2>1, SessionsDomain DEF TypeInv, TypeOK
    <3> QED BY <1>4, <3>1 DEF SessionsOf
  <2>2. CASE sessions' = sessions
    BY <2>2 DEF SoloOf, SessionsOf
  <2> QED BY <1>3, <2>1, <2>2
<1>7. AnswersOf(s)'
  <2>1. \A d \in down' : d \in down \/ d.type = "error" \/ d = ServerHelloMsg(addr, y)
    BY <1>3, SentElem DEF Answer, Error
  <2> QED BY <1>5, <2>1 DEF SoloOf, AnswersOf
<1>8. HellosOf(s)'
  BY <1>1 DEF SoloOf, HellosOf
<1>9. KeyOf(s)'
  BY DEF GatewayStep, sensorVars, SoloOf, KeyOf
<1> QED BY <1>6, <1>7, <1>8, <1>9 DEF SoloOf

\* Nothing else says hello, answers one or touches a session; a restart of the
\* gateway forgets them.
LEMMA OtherSolo ==
  ASSUME TypeInv, NEW s \in Sensors, SoloOf(s), random_num'[s] = random_num[s],
         \/ (HandleSensorData \/ HandleDataReply \/ HandleOrphanReply) /\ GatewayStep
         \/ ServerNext /\ ServerStep
         \/ Lose /\ UNCHANGED <<sensorVars, proxyVars, serverVars, drops>>
         \/ Connect \/ Break \/ Restart \/ UNCHANGED vars
  PROVE  SoloOf(s)'
<1>1. sessions' = sessions \/ sessions' = <<>>
  BY DEF HandleSensorData, HandleDataReply, HandleOrphanReply, ServerStep, Connect, Break, Restart,
         vars, proxyVars
<1>2. UNCHANGED <<auth_success, network_shared_key>>
  BY DEF GatewayStep, ServerStep, Connect, Break, Restart, vars, sensorVars
<1>3. \A x \in up' : x \in up
  BY DeliveredElem
     DEF HandleSensorData, HandleDataReply, HandleOrphanReply, Lose, Connect, Break, Restart, Broken,
         vars, netVars, ServerNext, OpenDone, OnClose, Accept, DropUnparsable, DeviceAuth,
         DeviceNew, DeviceReport, Finish
<1>4. \A x \in down' : x \in down \/ x.type # "server_hello"
  <2>1. CASE HandleSensorData
    <3>1. PICK m \in up :
            /\ m.type = "data"
            /\ WriteOrError(Forward(m)) \/ Answer(Error(m.src, SessionError(m)))
      BY <2>1 DEF HandleSensorData
    <3>2. Forward(m) \in WsUpMsg
      BY <3>1, UpKinds DEF Forward, SensorData, WsUpMsg, Request, TypeInv, TypeOK, NetTypeOK
    <3> QED BY <3>1, <3>2, WriteAdds, SentElem DEF Answer, Error, TypeInv, TypeOK
  <2>2. CASE HandleDataReply
    BY <2>2, SentElem DEF HandleDataReply, Answer
  <2>3. CASE ~HandleSensorData /\ ~HandleDataReply
    BY <2>3
       DEF HandleOrphanReply, Lose, Connect, Break, Restart, Broken,
           vars, netVars, ServerNext, OpenDone, OnClose, Accept, DropUnparsable, DeviceAuth,
           DeviceNew, DeviceReport, Finish
  <2> QED BY <2>1, <2>2, <2>3
<1>5. DOMAIN <<>> = {}
  OBVIOUS
<1> QED BY <1>1, <1>2, <1>3, <1>4, <1>5 DEF SoloOf, HellosOf, AnswersOf, SessionsOf, KeyOf

\* SoloInv is inductive.
LEMMA SoloStep ==
  ASSUME TypeInv, AuthInv, SoloInv, [Next]_vars
  PROVE  SoloInv'
<1> SUFFICES ASSUME NEW s \in Sensors, Sensors = {s}, reboots'[s] = 0
             PROVE  SoloOf(s)'
  BY DEF SoloInv
<1>1. reboots[s] = 0 /\ random_num'[s] = random_num[s]
  BY NumberStays
<1>2. SoloOf(s)
  BY <1>1 DEF SoloInv
<1>3. CASE \E t \in Sensors : SensorNext(t) /\ SensorStep
  <2>1. SensorNext(s) /\ SensorStep
    BY <1>3
  <2>2. ~Reboot(s)
    <3>1. SUFFICES ASSUME Reboot(s) PROVE FALSE
      OBVIOUS
    <3>2. reboots'[s] = reboots[s] + 1
      BY <3>1 DEF Reboot, TypeInv, TypeOK, SensorTypeOK
    <3> QED BY <1>1, <3>2
  <2> QED BY <1>1, <1>2, <2>1, <2>2, SensorSolo
<1> QED BY <1>1, <1>2, <1>3, NextCases, ClientHelloSolo, AuthReplySolo, OtherSolo

\* Nothing is in flight when the system starts, and the sensor has no key.
LEMMA SoloInit == Init => SoloInv
<1>1. DOMAIN <<>> = {}
  OBVIOUS
<1> QED BY <1>1 DEF Init, NetInit, SensorInit, ProxyInit, SoloInv, SoloOf, HellosOf, AnswersOf,
                    SessionsOf, KeyOf

\* A sensor alone in its network never takes junk for the network key until it
\* reboots, however datagrams are lost, repeated and reordered, however often its
\* timer is too early, and however often gateway and websocket fail.
THEOREM SoloKeyIsGenuine == Spec => []SoloKeyGenuine
<1>1. SoloInv => SoloKeyGenuine
  BY DEF SoloInv, SoloOf, KeyOf, SoloKeyGenuine
<1>2. TypeInv /\ RunningLive /\ AuthInv /\ SoloInv /\ [Next]_vars => SoloInv'
  BY SoloStep
<1> QED BY <1>1, <1>2, SoloInit, AuthCorrect, PTL DEF Spec
-----------------------------------------------------------------------------
(***************************************************************************)
(* Who is refused.  While a sensor alone in its network and its gateway    *)
(* have both run since the start there is one network key, which everybody *)
(* that has a key has; a session, once there, stays; and the server has    *)
(* nothing against the owner's sensor.  The invariant says where each of   *)
(* the three answers that refuse a sensor would have to come from.         *)
(***************************************************************************)

\* Nothing under the network key is under another one, nor under another version:
\* no INVALID_KEY_VERSION.
MessagesAgree == \A m \in up :
  /\ m.type = "data" => m.key_version = CurrentKeyVersion
  /\ m.key_version = CurrentKeyVersion => m.key = 1

KeyAgrees(s) ==
  /\ network_shared_key[s].used =>
       network_shared_key[s].version = CurrentKeyVersion /\ network_shared_key[s].key = 1
  /\ auth_success[s] => network_shared_key[s].used

\* Whatever presumes a session has one: no SESSION_NOT_FOUND.
SessionPresumed(s) ==
  \/ auth_success[s]
  \/ \E m \in up : m.type = "data"
  \/ \E m \in down : m.type = "server_hello"

\* The server is asked for the password of the device that is named: no INVALID_PWD.
Asked(r) == r.method = "auth" => r.pwd = r.device_id

RequestsRight ==
  /\ \A i \in DOMAIN wsUp : Asked(wsUp[i])
  /\ \A c \in running : Asked(c.request)
  /\ \A i \in DOMAIN wsDown : wsDown[i].method = "auth" => wsDown[i].result = "ok"

NoRefusal == \A m \in down : m.type = "error" => m.code = "SERVER_ERROR"

WelcomeOf(s) ==
  /\ MessagesAgree /\ KeyAgrees(s) /\ RequestsRight /\ NoRefusal
  /\ SessionPresumed(s) => sessions # <<>>

\* SoloNeverRefused with what makes it last.
WelcomeInv == \A s \in Valid :
  Sensors = {s} /\ reboots[s] = 0 /\ g_network_shared_key = 1 => WelcomeOf(s)

\* A write that fails tells the sensor so, and nothing else.
LEMMA WriteMild ==
  ASSUME NEW msg, WriteOrError(msg)
  PROVE  \A x \in down' : x \in down \/ (x.type = "error" /\ x.code = "SERVER_ERROR")
BY SentElem DEF WriteOrError, Error

\* The first start is over once the gateway restarts.
LEMMA FirstStartStays ==
  ASSUME TypeInv, [Next]_vars, g_network_shared_key' = 1
  PROVE  g_network_shared_key = 1 /\ ~Restart
<1>1. g_network_shared_key \in Nat \ {0}
  BY DEF TypeInv, TypeOK, ProxyTypeOK, Junk
<1>2. ~Restart
  <2>1. SUFFICES ASSUME Restart PROVE FALSE
    OBVIOUS
  <2>2. g_network_shared_key' = g_network_shared_key + 1
    BY <2>1 DEF Restart
  <2> QED BY <1>1, <2>2
<1>3. g_network_shared_key' = g_network_shared_key
  BY <1>2, NextCases
     DEF vars, proxyVars, SensorStep, HandleClientHello, TakeHello, HandleSensorData,
         HandleAuthReply, HandleDataReply, HandleOrphanReply, ServerStep, Connect, Break
<1> QED BY <1>2, <1>3

\* The sensor uses the key it was given, which is the only one there is.
LEMMA SensorWelcome ==
  ASSUME TypeInv, AuthInv, NEW s \in Valid, Sensors = {s}, SoloOf(s), WelcomeOf(s),
         g_network_shared_key = 1, SensorNext(s), SensorStep, ~Reboot(s)
  PROVE  WelcomeOf(s)'
<1>1. /\ UNCHANGED <<sessions, running, wsUp, wsDown>>
  BY DEF SensorStep, proxyVars, serverVars, SensorNext, Timer, RecvServerHello, RecvError, RecvData
<1>2. \A x \in down' : x \in down
  BY DeliveredElem DEF SensorNext, Timer, RecvServerHello, RecvError, RecvData
<1>3. \A x \in up' : x \in up \/ (x = TimerMsg(s) /\ Timer(s))
  BY SentElem DEF SensorNext, Timer, RecvServerHello, RecvError, RecvData
<1>4. s \in Sensors
  OBVIOUS
<1>5. MessagesAgree'
  <2>1. ASSUME NEW x, x = TimerMsg(s)
        PROVE  /\ x.type = "data" => x.key_version = CurrentKeyVersion
               /\ x.key_version = CurrentKeyVersion => x.key = 1
    <3>1. CASE auth_success[s]
      <4>1. \E method \in {"new_device", "report"} : x = Data(s, method)
        BY <2>1, <3>1 DEF TimerMsg
      <4>2. PICK method \in {"new_device", "report"} : x = Data(s, method)
        BY <4>1
      <4> QED BY <3>1, <4>2 DEF Data, WelcomeOf, KeyAgrees
    <3>2. CASE ~auth_success[s]
      <4>1. x = Hello(s)
        BY <2>1, <3>2 DEF TimerMsg
      <4> QED BY <4>1 DEF Hello, WelcomeOf, KeyAgrees, PublicKeyVersion, CurrentKeyVersion
    <3> QED BY <3>1, <3>2
  <2> QED BY <1>3, <2>1 DEF WelcomeOf, MessagesAgree
<1>6. KeyAgrees(s)' /\ (auth_success'[s] => SessionPresumed(s))
  <2>1. CASE RecvServerHello(s)
    <3>1. PICK m \in down :
            /\ m.type = "server_hello"
            /\ network_shared_key' = [network_shared_key EXCEPT
                 ![s] = [used |-> TRUE, version |-> CurrentKeyVersion, key |-> HelloKey(s, m)]]
      BY <2>1 DEF RecvServerHello
    <3>2. m.pwd = s /\ m.key <= 1
      BY <3>1, SensorsAssumption DEF AuthInv, HelloInv
    <3>3. m.random_num = random_num[s] /\ m.key # 0
      BY <3>1 DEF SoloOf, AnswersOf, Junk
    <3>4. m.key \in Nat
      BY <3>1, DownKinds DEF ServerHello, TypeInv, TypeOK, NetTypeOK
    <3>5. m.key = 1
      BY <3>2, <3>3, <3>4
    <3>6. HelloKey(s, m) = 1
      BY <3>2, <3>3, <3>5 DEF HelloKey
    <3>7. network_shared_key'[s] = [used |-> TRUE, version |-> CurrentKeyVersion, key |-> 1]
      BY <1>4, <3>1, <3>6 DEF TypeInv, TypeOK, SensorTypeOK
    <3> QED BY <3>1, <3>7 DEF KeyAgrees, SessionPresumed
  <2>2. CASE RecvError(s)
    <3>1. auth_success'[s] = FALSE
      BY <1>4, <2>2 DEF RecvError, TypeInv, TypeOK, SensorTypeOK
    <3>2. /\ network_shared_key'[s].used => network_shared_key[s].used
          /\ network_shared_key'[s].version = network_shared_key[s].version
          /\ network_shared_key'[s].key = network_shared_key[s].key
      BY <1>4, <2>2 DEF RecvError, TypeInv, TypeOK, SensorTypeOK
    <3> QED BY <3>1, <3>2 DEF WelcomeOf, KeyAgrees
  <2>3. CASE Timer(s) \/ RecvData(s)
    BY <2>3 DEF Timer, RecvData, sensorVars, WelcomeOf, KeyAgrees, SessionPresumed
  <2> QED BY <2>1, <2>2, <2>3 DEF SensorNext
<1>7. SessionPresumed(s)' => SessionPresumed(s)
  <2>1. TimerMsg(s).type = "data" => auth_success[s]
    BY DEF TimerMsg, Hello
  <2> QED BY <1>2, <1>3, <1>6, <2>1 DEF SessionPresumed
<1>8. NoRefusal'
  BY <1>2 DEF WelcomeOf, NoRefusal
<1>9. RequestsRight'
  BY <1>1 DEF WelcomeOf, RequestsRight
<1> QED BY <1>1, <1>5, <1>6, <1>7, <1>8, <1>9 DEF WelcomeOf

\* A hello is granted or goes to the server: its key is the gateway's, and the
\* session's password is the sensor's.
LEMMA ClientHelloWelcome ==
  ASSUME TypeInv, AuthInv, NEW s \in Valid, Sensors = {s}, WelcomeOf(s),
         g_network_shared_key = 1, HandleClientHello, GatewayStep
  PROVE  WelcomeOf(s)'
<1>1. PICK m \in up : \E sv \in Served(m.src) : TakeHello(m, sv)
  BY DEF HandleClientHello
<1>2. PICK sv \in Served(m.src) : TakeHello(m, sv)
  BY <1>1
<1> DEFINE x == sv.list[sv.at]
           y == [x EXCEPT !.device_id = m.src, !.random = KeptRandom(x, m)]
           auth == [method |-> "auth", device_id |-> m.src, pwd |-> AuthPwd(m)]
<1>3. /\ m.type = "client_hello"
      /\ up' \in Delivered(up, m)
      /\ sessions' = [sv.list EXCEPT ![sv.at] = y]
      /\ \/ WriteOrError(auth)
         \/ Answer(ServerHelloMsg(m.src, y)) /\ UNCHANGED wsUp
         \/ /\ HelloVerdict(x, m) \in Reason
            /\ Answer(Error(m.src, HelloVerdict(x, m)))
      /\ UNCHANGED wsDown
  BY <1>2 DEF TakeHello, Answer
<1>4. /\ m.src \in Sensors
      /\ [sv.list EXCEPT ![sv.at] = y] = <<y>>
      /\ x.addr = m.src
      /\ x.auth_flag => sessions = <<x>>
  BY <1>3, HelloSession
<1>5. m \in ClientHello
  BY <1>3, UpKinds DEF TypeInv, TypeOK, NetTypeOK
<1>6. m.key_version = CurrentKeyVersion => DecryptedPwd(m) = m.src
  BY DEF WelcomeOf, MessagesAgree, DecryptedPwd
<1>7. m.key_version \in {PublicKeyVersion, CurrentKeyVersion}
  BY <1>5 DEF ClientHello, PublicKeyVersion, CurrentKeyVersion
<1>8. AuthPwd(m) = m.src
  BY <1>6, <1>7 DEF AuthPwd
<1>9. x.auth_flag => x.pwd = m.src
  <2>1. ASSUME sessions = <<x>>
        PROVE  1 \in DOMAIN sessions /\ sessions[1] = x
    BY <2>1
  <2> QED BY <1>4, <2>1 DEF AuthInv, SessionBinding, TypeInv, SessionsShape
<1>10. HelloVerdict(x, m) \notin Reason
  BY <1>6, <1>7, <1>9 DEF HelloVerdict, Reason
<1>11. auth \in WsUpMsg /\ Asked(auth)
  BY <1>4, <1>8 DEF Asked, Pwd, WsUpMsg, Request
<1>12. ServerHelloMsg(m.src, y).type = "server_hello"
  BY DEF ServerHelloMsg
<1> HIDE DEF x, y, auth
<1>13. sessions' # <<>>
  BY <1>3, <1>4
<1>14. NoRefusal'
  <2>1. \A d \in down' : \/ d \in down \/ d.type = "server_hello"
                         \/ d.type = "error" /\ d.code = "SERVER_ERROR"
    BY <1>3, <1>10, <1>12, WriteMild, SentElem DEF Answer
  <2> QED BY <2>1 DEF WelcomeOf, NoRefusal
<1>15. RequestsRight'
  <2>1. \A i \in DOMAIN wsUp' :
          (\E j \in DOMAIN wsUp : wsUp'[i] = wsUp[j]) \/ wsUp'[i] = auth
    <3>1. CASE WriteOrError(auth)
      BY <1>11, <3>1, WriteAdds DEF TypeInv, TypeOK
    <3>2. CASE wsUp' = wsUp
      BY <3>2
    <3> QED BY <1>3, <3>1, <3>2 DEF Answer
  <2>2. running' = running
    BY DEF GatewayStep, serverVars
  <2>3. \A i \in DOMAIN wsUp' : Asked(wsUp'[i])
    BY <1>11, <2>1 DEF WelcomeOf, RequestsRight
  <2> QED BY <1>3, <2>2, <2>3 DEF WelcomeOf, RequestsRight
<1>16. MessagesAgree'
  BY <1>3, DeliveredElem DEF WelcomeOf, MessagesAgree
<1>17. KeyAgrees(s)'
  BY DEF GatewayStep, sensorVars, WelcomeOf, KeyAgrees
<1> QED BY <1>13, <1>14, <1>15, <1>16, <1>17 DEF WelcomeOf

\* The sensor's data finds its session, and has the version of its key.
LEMMA SensorDataWelcome ==
  ASSUME TypeInv, NEW s \in Valid, Sensors = {s}, WelcomeOf(s),
         g_network_shared_key = 1, HandleSensorData, GatewayStep
  PROVE  WelcomeOf(s)'
<1>1. PICK m \in up :
        /\ m.type = "data"
        /\ up' \in Delivered(up, m)
        /\ IF SessionError(m) = "forward" THEN WriteOrError(Forward(m))
           ELSE Answer(Error(m.src, SessionError(m)))
        /\ UNCHANGED <<wsDown, sessions>>
  BY DEF HandleSensorData
<1>2. sessions # <<>>
  BY <1>1 DEF WelcomeOf, SessionPresumed
<1>3. 1 \in DOMAIN sessions /\ sessions[1] \in Session
  <2>1. sessions \in Seq(Session)
    BY DEF TypeInv, TypeOK, ProxyTypeOK
  <2> HIDE DEF Session
  <2> QED BY <1>2, <2>1
<1>4. m.src = s /\ sessions[1].addr = s
  BY <1>1, <1>3, UpKinds DEF Session, TypeInv, TypeOK, NetTypeOK
<1>5. FindSessionByAddr(m.src) # {}
  BY <1>3, <1>4 DEF FindSessionByAddr
<1>6. SessionError(m) = "forward"
  BY <1>1, <1>5 DEF SessionError, WelcomeOf, MessagesAgree
<1>7. Forward(m) \in WsUpMsg /\ Asked(Forward(m))
  <2>1. m \in SensorData
    BY <1>1, UpKinds DEF TypeInv, TypeOK, NetTypeOK
  <2> QED BY <2>1 DEF Forward, Asked, SensorData, WsUpMsg, Request
<1>8. WriteOrError(Forward(m))
  BY <1>1, <1>6
<1>9. NoRefusal' /\ (SessionPresumed(s)' => SessionPresumed(s))
  <2>1. \A d \in down' : d \in down \/ (d.type = "error" /\ d.code = "SERVER_ERROR")
    BY <1>8, WriteMild
  <2>2. \A x \in up' : x \in up
    BY <1>1, DeliveredElem
  <2>3. auth_success' = auth_success
    BY DEF GatewayStep, sensorVars
  <2> QED BY <2>1, <2>2, <2>3 DEF WelcomeOf, NoRefusal, SessionPresumed
<1>10. RequestsRight'
  <2>1. \A i \in DOMAIN wsUp' :
          (\E j \in DOMAIN wsUp : wsUp'[i] = wsUp[j]) \/ wsUp'[i] = Forward(m)
    BY <1>7, <1>8, WriteAdds DEF TypeInv, TypeOK
  <2>2. \A i \in DOMAIN wsUp' : Asked(wsUp'[i])
    BY <1>7, <2>1 DEF WelcomeOf, RequestsRight
  <2>3. running' = running
    BY DEF GatewayStep, serverVars
  <2> QED BY <1>1, <2>2, <2>3 DEF WelcomeOf, RequestsRight
<1>11. MessagesAgree'
  BY <1>1, DeliveredElem DEF WelcomeOf, MessagesAgree
<1>12. KeyAgrees(s)'
  BY DEF GatewayStep, sensorVars, WelcomeOf, KeyAgrees
<1> QED BY <1>1, <1>9, <1>10, <1>11, <1>12 DEF WelcomeOf

\* Every answer about the sensor's password is that it is right.
LEMMA ReplyWelcome ==
  ASSUME TypeInv, NEW s \in Valid, WelcomeOf(s),
         HandleAuthReply \/ HandleDataReply \/ HandleOrphanReply, GatewayStep
  PROVE  WelcomeOf(s)'
<1>1. wsDown # <<>> /\ wsDown' = Tail(wsDown) /\ up' = up
  BY DEF HandleAuthReply, HandleDataReply, HandleOrphanReply
<1>2. /\ 1 \in DOMAIN wsDown /\ Head(wsDown) = wsDown[1] /\ Head(wsDown) \in WsDownMsg
      /\ \A i \in DOMAIN wsDown' : \E j \in DOMAIN wsDown : wsDown'[i] = wsDown[j]
  BY <1>1, TailElem DEF TypeInv, TypeOK, NetTypeOK
<1>3. UNCHANGED <<auth_success, network_shared_key, running>>
  BY DEF GatewayStep, sensorVars, serverVars
<1>4. /\ sessions # <<>> => sessions' # <<>>
      /\ \A d \in down' : \/ d \in down
                          \/ d.type = "data"
                          \/ d.type = "server_hello" /\ sessions # <<>>
  <2>1. CASE HandleAuthReply
    <3> DEFINE r == Head(wsDown)
               y == [sessions[1] EXCEPT !.pwd = r.pwd, !.auth_flag = TRUE]
    <3>1. r.method = "auth" /\ FindSession(r.device_id) # {}
      BY <2>1 DEF HandleAuthReply, Answered
    <3>2. First(Answered(r.device_id)) = 1 /\ 1 \in DOMAIN sessions
      BY <3>1, AnsweredSession DEF TypeInv, TypeOK, Answered
    <3>3. r.result = "ok"
      BY <1>2, <3>1 DEF WelcomeOf, RequestsRight
    <3>4. /\ sessions' = [sessions EXCEPT ![1] = y]
          /\ Answer(ServerHelloMsg(addr, y))
      BY <2>1, <3>2, <3>3 DEF HandleAuthReply
    <3>5. ServerHelloMsg(addr, y).type = "server_hello"
      BY DEF ServerHelloMsg
    <3> HIDE DEF r, y
    <3>6. sessions # <<>> /\ sessions' # <<>>
      <4>1. DOMAIN sessions' = DOMAIN sessions
        BY <3>4
      <4>2. DOMAIN <<>> = {}
        OBVIOUS
      <4> QED BY <3>2, <4>1, <4>2
    <3> QED BY <3>4, <3>5, <3>6, SentElem DEF Answer
  <2>2. CASE HandleDataReply
    BY <2>2, SentElem DEF HandleDataReply, Answer, proxyVars
  <2>3. CASE HandleOrphanReply
    BY <2>3 DEF HandleOrphanReply, proxyVars
  <2> QED BY <2>1, <2>2, <2>3
<1>5. \A i \in DOMAIN wsUp' :
        (\E j \in DOMAIN wsUp : wsUp'[i] = wsUp[j]) \/ wsUp'[i].method = "connect_error"
  <2>1. CASE HandleOrphanReply
    <3> DEFINE e == [method |-> "connect_error", device_id |-> Head(wsDown).device_id]
    <3>1. e \in WsUpMsg /\ e.method = "connect_error"
      BY <1>2 DEF WsDownMsg, WsUpMsg
    <3>2. wsUp' = Append(wsUp, e) \/ wsUp' = wsUp
      BY <2>1 DEF HandleOrphanReply
    <3>3. wsUp \in Seq(WsUpMsg)
      BY DEF TypeInv, TypeOK, NetTypeOK
    <3> HIDE DEF e
    <3> QED BY <3>1, <3>2, <3>3, AppendElem
  <2>2. CASE HandleAuthReply \/ HandleDataReply
    BY <2>2 DEF HandleAuthReply, HandleDataReply, Answer
  <2> QED BY <2>1, <2>2
<1>6. RequestsRight'
  <2>1. \A i \in DOMAIN wsUp' : Asked(wsUp'[i])
    BY <1>5 DEF WelcomeOf, RequestsRight, Asked
  <2>2. \A i \in DOMAIN wsDown' : wsDown'[i].method = "auth" => wsDown'[i].result = "ok"
    BY <1>2 DEF WelcomeOf, RequestsRight
  <2> QED BY <1>3, <2>1, <2>2 DEF WelcomeOf, RequestsRight
<1>7. NoRefusal'
  BY <1>4 DEF WelcomeOf, NoRefusal
<1>8. SessionPresumed(s)' => sessions' # <<>>
  BY <1>1, <1>3, <1>4 DEF WelcomeOf, SessionPresumed
<1>9. MessagesAgree' /\ KeyAgrees(s)'
  BY <1>1, <1>3 DEF WelcomeOf, MessagesAgree, KeyAgrees
<1> QED BY <1>6, <1>7, <1>8, <1>9 DEF WelcomeOf

\* The server answers what it is asked, and finds the password right.
LEMMA ServerWelcome ==
  ASSUME TypeInv, NEW s \in Valid, Sensors = {s}, WelcomeOf(s), ServerNext, ServerStep
  PROVE  RequestsRight'
<1>1. wsUp \in Seq(WsUpMsg) /\ wsDown \in Seq(WsDownMsg)
  BY DEF TypeInv, TypeOK, NetTypeOK
<1>2. CASE Accept
  <2>1. /\ wsUp # <<>> /\ wsUp' = Tail(wsUp) /\ wsDown' = wsDown
        /\ running' = running \cup {[request |-> Head(wsUp), open |-> TRUE]}
    BY <1>2 DEF Accept
  <2>2. /\ 1 \in DOMAIN wsUp /\ Head(wsUp) = wsUp[1]
        /\ \A i \in DOMAIN wsUp' : \E j \in DOMAIN wsUp : wsUp'[i] = wsUp[j]
    BY <1>1, <2>1, TailElem
  <2>3. \A c \in running' : c \in running \/ c.request = wsUp[1]
    BY <2>1, <2>2
  <2> QED BY <2>1, <2>2, <2>3 DEF WelcomeOf, RequestsRight
<1>3. CASE DropUnparsable
  <2>1. wsUp # <<>> /\ wsUp' = Tail(wsUp) /\ UNCHANGED <<wsDown, running>>
    BY <1>3 DEF DropUnparsable, serverVars
  <2>2. \A i \in DOMAIN wsUp' : \E j \in DOMAIN wsUp : wsUp'[i] = wsUp[j]
    BY <1>1, <2>1, TailElem
  <2> QED BY <2>1, <2>2 DEF WelcomeOf, RequestsRight
<1>4. ASSUME NEW c \in running, NEW r, Finish(c, r), r \in {"ok", "fail", "KeyError"},
             c.request.method = "auth" => r # "fail"
      PROVE  RequestsRight'
  <2>1. \A d \in running' : d \in running
    BY <1>4 DEF Finish
  <2>2. wsUp' = wsUp
    BY <1>4 DEF Finish
  <2>3. \A i \in DOMAIN wsDown' : wsDown'[i].method = "auth" => wsDown'[i].result = "ok"
    <3>1. CASE wsDown' = wsDown
      BY <3>1 DEF WelcomeOf, RequestsRight
    <3>2. CASE wsDown' # wsDown
      <4> DEFINE e == [method |-> c.request.method, device_id |-> c.request.device_id,
                       result |-> r,
                       pwd |-> IF r = "ok" /\ c.request.method = "auth"
                               THEN c.request.pwd ELSE NoPwd]
      <4>1. wsDown' = Append(wsDown, e) /\ r # "KeyError"
        BY <1>4, <3>2 DEF Finish
      <4>2. e.method = "auth" => e.result = "ok"
        BY <1>4, <4>1
      <4>3. c.request \in Request
        BY DEF TypeInv, TypeOK, ServerTypeOK
      <4>4. e \in WsDownMsg
        BY <1>4, <4>1, <4>3, SensorsAssumption DEF Request, WsDownMsg, Pwd
      <4> HIDE DEF e
      <4>5. \A i \in DOMAIN wsDown' : (i \in DOMAIN wsDown /\ wsDown'[i] = wsDown[i]) \/ wsDown'[i] = e
        BY <1>1, <4>1, <4>4, AppendElem
      <4> QED BY <4>2, <4>5 DEF WelcomeOf, RequestsRight
    <3> QED BY <3>1, <3>2
  <2> QED BY <2>1, <2>2, <2>3 DEF WelcomeOf, RequestsRight
<1>5. CASE DeviceAuth
  <2>1. PICK c \in running :
          /\ c.request.method = "auth"
          /\ Finish(c, AuthResult(c.request.device_id, c.request.pwd))
    BY <1>5 DEF DeviceAuth
  <2>2. c.request.pwd = c.request.device_id /\ c.request.device_id = s
    <3>1. c.request \in Request
      BY DEF TypeInv, TypeOK, ServerTypeOK
    <3> QED BY <2>1, <3>1 DEF Request, WelcomeOf, RequestsRight, Asked
  <2>3. AuthResult(c.request.device_id, c.request.pwd) \in {"ok", "KeyError"}
    BY <2>2, SensorsAssumption DEF AuthResult, Checked
  <2> QED BY <1>4, <2>1, <2>3
<1>6. CASE DeviceNew
  <2>1. PICK c \in running : c.request.method # "auth" /\ Finish(c, Checked(c.request.device_id))
    BY <1>6 DEF DeviceNew
  <2>2. Checked(c.request.device_id) \in {"ok", "fail", "KeyError"}
    BY DEF Checked
  <2> QED BY <1>4, <2>1, <2>2
<1>7. CASE DeviceReport
  <2>1. PICK c \in running :
          c.request.method # "auth" /\ Finish(c, ReportResult(c.request.device_id))
    BY <1>7 DEF DeviceReport
  <2>2. ReportResult(c.request.device_id) \in {"ok", "fail", "KeyError"}
    BY DEF ReportResult, Checked
  <2> QED BY <1>4, <2>1, <2>2
<1>8. CASE OpenDone \/ OnClose
  BY <1>8 DEF OpenDone, OnClose, netVars, WelcomeOf, RequestsRight
<1> QED BY <1>2, <1>3, <1>5, <1>6, <1>7, <1>8 DEF ServerNext

\* A broken websocket takes its messages with it, the radio loses what it likes.
LEMMA WorldWelcome ==
  ASSUME TypeInv, NEW s \in Valid, Sensors = {s}, WelcomeOf(s),
         \/ ServerNext /\ ServerStep
         \/ Lose /\ UNCHANGED <<sensorVars, proxyVars, serverVars, drops>>
         \/ Connect \/ Break \/ UNCHANGED vars
  PROVE  WelcomeOf(s)'
<1>1. UNCHANGED <<sessions, auth_success, network_shared_key>>
  BY DEF ServerStep, Connect, Break, vars, sensorVars, proxyVars
<1>2. (\A x \in up' : x \in up) /\ (\A x \in down' : x \in down)
  BY DEF Lose, Connect, Break, Broken, vars, netVars, ServerNext, OpenDone, OnClose, Accept,
         DropUnparsable, DeviceAuth, DeviceNew, DeviceReport, Finish
<1>3. RequestsRight'
  <2>1. CASE Break
    <3>1. wsUp' = <<>> /\ wsDown' = <<>>
      BY <2>1 DEF Break, Broken
    <3>2. \A c \in running' : \E d \in running : c.request = d.request
      <4>1. running' = {[c EXCEPT !.open = FALSE] : c \in running}
        BY <2>1 DEF Break, Broken
      <4>2. \A c \in running : [c EXCEPT !.open = FALSE].request = c.request
        BY DEF TypeInv, TypeOK, ServerTypeOK
      <4> QED BY <4>1, <4>2
    <3>3. DOMAIN <<>> = {}
      OBVIOUS
    <3> QED BY <3>1, <3>2, <3>3 DEF WelcomeOf, RequestsRight
  <2>2. CASE ServerNext /\ ServerStep
    BY <2>2, ServerWelcome
  <2>3. CASE UNCHANGED <<wsUp, wsDown, running>>
    BY <2>3 DEF WelcomeOf, RequestsRight
  <2> QED BY <2>1, <2>2, <2>3 DEF Lose, Connect, vars, netVars, serverVars
<1>4. MessagesAgree' /\ NoRefusal' /\ KeyAgrees(s)'
  BY <1>1, <1>2 DEF WelcomeOf, MessagesAgree, NoRefusal, KeyAgrees
<1>5. SessionPresumed(s)' => SessionPresumed(s)
  BY <1>1, <1>2 DEF SessionPresumed
<1> QED BY <1>1, <1>3, <1>4, <1>5 DEF WelcomeOf

\* WelcomeInv is inductive.
LEMMA WelcomeStep ==
  ASSUME TypeInv, AuthInv, SoloInv, WelcomeInv, [Next]_vars
  PROVE  WelcomeInv'
<1> SUFFICES ASSUME NEW s \in Valid, Sensors = {s}, reboots'[s] = 0, g_network_shared_key' = 1
             PROVE  WelcomeOf(s)'
  BY DEF WelcomeInv
<1>1. s \in Sensors
  OBVIOUS
<1>2. reboots[s] = 0
  BY <1>1, NumberStays
<1>3. g_network_shared_key = 1 /\ ~Restart
  BY FirstStartStays
<1>4. SoloOf(s) /\ WelcomeOf(s)
  BY <1>1, <1>2, <1>3 DEF SoloInv, WelcomeInv
<1>5. CASE \E t \in Sensors : SensorNext(t) /\ SensorStep
  <2>1. SensorNext(s) /\ SensorStep
    BY <1>5
  <2>2. ~Reboot(s)
    <3>1. SUFFICES ASSUME Reboot(s) PROVE FALSE
      OBVIOUS
    <3>2. reboots'[s] = reboots[s] + 1
      BY <1>1, <3>1 DEF Reboot, TypeInv, TypeOK, SensorTypeOK
    <3> QED BY <1>2, <3>2
  <2> QED BY <1>3, <1>4, <2>1, <2>2, SensorWelcome
<1> QED BY <1>3, <1>4, <1>5, NextCases, ClientHelloWelcome, SensorDataWelcome, ReplyWelcome,
           WorldWelcome

\* At the start nobody has a key and nothing is in flight.
LEMMA WelcomeInit == Init => WelcomeInv
<1>1. DOMAIN <<>> = {}
  OBVIOUS
<1>2. Init => \A s \in Valid : s \in Sensors
  BY SensorsAssumption
<1> QED BY <1>1, <1>2 DEF Init, NetInit, SensorInit, ProxyInit, ServerInit, NoKey, WelcomeInv,
                          WelcomeOf, MessagesAgree, KeyAgrees, RequestsRight, NoRefusal,
                          SessionPresumed

\* Until the gateway restarts or the sensor reboots, the owner's sensor alone in its
\* network is never told that its password or key is wrong or its session gone,
\* whatever is lost, repeated or late and however often the websocket breaks.
THEOREM SoloIsNeverRefused == Spec => []SoloNeverRefused
<1>1. WelcomeInv => SoloNeverRefused
  BY DEF WelcomeInv, WelcomeOf, NoRefusal, SoloNeverRefused
<1>2. TypeInv /\ RunningLive /\ AuthInv /\ SoloInv /\ [Next]_vars => SoloInv'
  BY SoloStep
<1>3. TypeInv /\ RunningLive /\ AuthInv /\ SoloInv /\ WelcomeInv /\ [Next]_vars => WelcomeInv'
  BY WelcomeStep
<1> QED BY <1>1, <1>2, <1>3, SoloInit, WelcomeInit, AuthCorrect, PTL DEF Spec
=============================================================================
