--------------------------- MODULE CoconutProofs ---------------------------
(***************************************************************************)
(* What holds of the join protocol for every set of sensors, every bound   *)
(* and every choice of Duplicates, Patient and Prompt.                     *)
(***************************************************************************)
EXTENDS Coconut, SequenceTheorems, TLAPS

-----------------------------------------------------------------------------
\* Channels, queues and the session list.

\* A channel gains at most the datagram that is sent.
LEMMA SentElem ==
  ASSUME NEW ch, NEW m, NEW x \in Sent(ch, m)
  PROVE  x \in ch \/ x = m
BY DEF Sent

\* A delivery adds nothing to a channel.
LEMMA DeliveredElem ==
  ASSUME NEW ch, NEW m, NEW ch2 \in Delivered(ch, m), NEW x \in ch2
  PROVE  x \in ch
BY DEF Delivered

\* Appending keeps a queue's type; every element is an old one or the new one.
LEMMA AppendElem ==
  ASSUME NEW S, NEW q \in Seq(S), NEW e \in S
  PROVE  /\ Append(q, e) \in Seq(S)
         /\ Len(Append(q, e)) = Len(q) + 1
         /\ \A i \in DOMAIN Append(q, e) :
              (i \in DOMAIN q /\ Append(q, e)[i] = q[i]) \/ Append(q, e)[i] = e
OBVIOUS

\* Removing the head keeps a queue's type; every element left was there.
LEMMA TailElem ==
  ASSUME NEW S, NEW q \in Seq(S), q # <<>>
  PROVE  /\ Head(q) \in S
         /\ 1 \in DOMAIN q /\ Head(q) = q[1]
         /\ Tail(q) \in Seq(S)
         /\ Len(Tail(q)) <= Len(q)
         /\ \A i \in DOMAIN Tail(q) : \E j \in DOMAIN q : Tail(q)[i] = q[j]
<1>1. \A i \in DOMAIN Tail(q) : i + 1 \in DOMAIN q /\ Tail(q)[i] = q[i + 1]
  OBVIOUS
<1> QED BY <1>1

\* A number below two that is not zero is one.
LEMMA AtMostOne ==
  ASSUME NEW n \in Nat, n <= 1, n # 0
  PROVE  n = 1
OBVIOUS

\* A queue of at most one element has it, if any, at index one.
LEMMA LenOne ==
  ASSUME NEW S, NEW q \in Seq(S), Len(q) <= 1
  PROVE  DOMAIN q \subseteq {1} /\ (q # <<>> => Len(q) = 1)
<1>1. Len(q) \in Nat /\ DOMAIN q = 1 .. Len(q)
  BY LenProperties
<1>2. q # <<>> => Len(q) # 0
  BY EmptySeq
<1>3. Len(q) = 0 \/ Len(q) = 1
  BY <1>1, AtMostOne
<1> QED BY <1>1, <1>2, <1>3

\* Nothing is left of such a queue once its head is taken.
LEMMA TailOfOne ==
  ASSUME NEW S, NEW q \in Seq(S), Len(q) <= 1
  PROVE  q = <<>> \/ Tail(q) = <<>>
<1>1. q # <<>> => Len(q) = 1
  BY LenOne
<1>2. q # <<>> => Len(Tail(q)) = 0 /\ Tail(q) \in Seq(S)
  BY <1>1, HeadTailProperties
<1> QED BY <1>2, EmptySeq

\* The list is never longer than one session, because new_session drops the head.
SessionsShape ==
  /\ Len(sessions) <= 1
  /\ sessions # <<>> => addr \in Sensors
  /\ \A i \in DOMAIN sessions : sessions[i].device_id = sessions[i].addr

\* In a list of one session the search ends at it.
LEMMA FirstOfOne ==
  ASSUME NEW I, I # {}, I \subseteq {1}
  PROVE  First(I) = 1
<1>1. I = {1}
  OBVIOUS
<1>2. \A j \in I : 1 <= j
  BY <1>1
<1> QED BY <1>1, <1>2 DEF First

\* The session list has at most its index one (new_session drops the old header).
LEMMA SessionsDomain ==
  ASSUME ProxyTypeOK, SessionsShape
  PROVE  DOMAIN sessions \subseteq {1}
BY LenOne DEF ProxyTypeOK, SessionsShape

\* The session that serves a source is the only one of the list, and it is the
\* source's own: an old session, or a new one that is not authenticated.
LEMMA ServedShape ==
  ASSUME ProxyTypeOK, SessionsShape, NEW s \in Sensors, NEW sv \in Served(s)
  PROVE  /\ sv.at = 1
         /\ sv.list \in Seq(Session) /\ Len(sv.list) = 1
         /\ sv.list[1].addr = s
         /\ \/ sv.list = sessions
            \/ ~sv.list[1].auth_flag
<1>1. CASE FindSessionByAddr(s) # {}
  <2>1. FindSessionByAddr(s) = {1} /\ First(FindSessionByAddr(s)) = 1
    BY <1>1, SessionsDomain, FirstOfOne DEF FindSessionByAddr
  <2>2. sv = [list |-> sessions, at |-> 1]
    BY <1>1, <2>1 DEF Served
  <2>3. sessions[1].addr = s /\ 1 \in DOMAIN sessions
    BY <2>1 DEF FindSessionByAddr
  <2>4. Len(sessions) = 1
    BY <2>3, LenOne DEF ProxyTypeOK, SessionsShape
  <2>5. sv.list = sessions /\ sv.at = 1
    BY <2>2
  <2>6. sessions \in Seq(Session)
    BY DEF ProxyTypeOK
  <2>7. sv.list \in Seq(Session) /\ Len(sv.list) = 1
    BY <2>4, <2>5, <2>6
  <2>8. sv.list[1].addr = s
    BY <2>3, <2>5
  <2> QED BY <2>5, <2>7, <2>8
<1>2. CASE FindSessionByAddr(s) = {}
  <2>1. PICK g \in Randoms : sv = [list |-> Linked(sessions, Fresh(s, g)), at |-> 1]
    BY <1>2 DEF Served
  <2>2. Fresh(s, g) \in Session /\ Fresh(s, g).addr = s /\ ~Fresh(s, g).auth_flag
    BY DEF Fresh, Session, Pwd
  <2>3. Linked(sessions, Fresh(s, g)) = <<Fresh(s, g)>>
    <3> DEFINE x == Fresh(s, g)
    <3>1. sessions = <<>> \/ Tail(sessions) = <<>>
      BY TailOfOne DEF ProxyTypeOK, SessionsShape
    <3>2. x \in Session
      BY <2>2
    <3> HIDE DEF x
    <3>3. <<x>> \o <<>> = <<x>>
      BY <3>2
    <3>4. Linked(sessions, x) = <<x>> \o <<>>
      BY <3>1 DEF Linked
    <3> QED BY <3>3, <3>4 DEF x
  <2>4. sv.list = <<Fresh(s, g)>> /\ sv.at = 1
    BY <2>1, <2>3
  <2>5. sv.list \in Seq(Session) /\ Len(sv.list) = 1 /\ sv.list[1] = Fresh(s, g)
    BY <2>2, <2>4
  <2> QED BY <2>2, <2>4, <2>5
<1> QED BY <1>1, <1>2

-----------------------------------------------------------------------------
\* Types.

TypeInv == TypeOK /\ SessionsShape

\* What a sensor's timer sends is a datagram.
LEMMA TimerMsgType ==
  ASSUME SensorTypeOK, NEW s \in Sensors
  PROVE  TimerMsg(s) \in UpMsg
<1>1. network_shared_key[s] \in [used : BOOLEAN, version : {0, 1}, key : Nat]
  BY DEF SensorTypeOK
<1>2. Hello(s) \in ClientHello
  BY <1>1 DEF Hello, ClientHello, SensorTypeOK, PublicKeyVersion, Junk
<1>3. Data(s, "new_device") \in SensorData /\ Data(s, "report") \in SensorData
  BY <1>1 DEF Data, SensorData
<1> QED BY <1>2, <1>3 DEF TimerMsg, UpMsg

\* The kinds of datagrams are told apart by their type.
LEMMA UpKinds ==
  ASSUME NEW m \in UpMsg
  PROVE  /\ m.src \in Sensors
         /\ m.type = "client_hello" => m \in ClientHello
         /\ m.type = "data" => m \in SensorData
BY DEF UpMsg, ClientHello, SensorData

\* The type field tells the kinds of datagrams to the sensors apart.
LEMMA DownKinds ==
  ASSUME NEW m \in DownMsg
  PROVE  /\ m.dst \in Sensors
         /\ m.type = "server_hello" => m \in ServerHello
         /\ m.type = "error" => m \in SecurityError
         /\ m.type = "data" => m \in GatewayData
BY DEF DownMsg, ServerHello, SecurityError, GatewayData

\* Sending and delivering keep the type of a channel.
LEMMA ChannelType ==
  ASSUME NEW S, NEW ch, ch \subseteq S, NEW m
  PROVE  /\ m \in S => Sent(ch, m) \subseteq S
         /\ \A ch2 \in Delivered(ch, m) : ch2 \subseteq S
BY DEF Sent, Delivered

\* A sensor's steps touch its own state and the channels.
LEMMA SensorTypes ==
  ASSUME TypeInv, NEW s \in Sensors, SensorNext(s), SensorStep
  PROVE  TypeInv'
<1> USE DEF TypeInv, TypeOK
<1>1. ProxyTypeOK' /\ ServerTypeOK' /\ (drops \in Nat)' /\ SessionsShape'
  BY DEF SensorStep, proxyVars, serverVars, ProxyTypeOK, ServerTypeOK, SessionsShape
<1>2. CASE Timer(s)
  <2>1. (up \subseteq UpMsg)'
    BY <1>2, TimerMsgType, ChannelType DEF Timer, NetTypeOK
  <2> QED BY <1>1, <1>2, <2>1 DEF Timer, NetTypeOK, SensorTypeOK, sensorVars
<1>3. CASE RecvServerHello(s)
  <2>1. PICK m \in down :
          /\ m.type = "server_hello"
          /\ down' \in Delivered(down, m)
          /\ network_shared_key' = [network_shared_key EXCEPT
               ![s] = [used |-> TRUE, version |-> CurrentKeyVersion, key |-> HelloKey(s, m)]]
          /\ auth_success' = [auth_success EXCEPT ![s] = TRUE]
          /\ UNCHANGED <<up, conn, wsUp, wsDown, reg_success, random_num, reboots>>
    BY <1>3 DEF RecvServerHello
  <2>2. HelloKey(s, m) \in Nat
    BY <2>1, DownKinds DEF NetTypeOK, ServerHello, HelloKey, Junk
  <2>3. (down \subseteq DownMsg)'
    BY <2>1, ChannelType DEF NetTypeOK
  <2>4. SensorTypeOK'
    BY <2>1, <2>2 DEF SensorTypeOK, CurrentKeyVersion
  <2> QED BY <1>1, <2>1, <2>3, <2>4 DEF NetTypeOK
<1>4. CASE RecvError(s)
  <2>1. (down \subseteq DownMsg)'
    BY <1>4, ChannelType DEF RecvError, NetTypeOK
  <2>2. SensorTypeOK'
    <3>1. PICK b : network_shared_key' = [network_shared_key EXCEPT ![s].used = @ /\ b]
      BY <1>4 DEF RecvError
    <3>2. network_shared_key[s] \in [used : BOOLEAN, version : {0, 1}, key : Nat]
      BY DEF SensorTypeOK
    <3>3. [network_shared_key[s] EXCEPT !.used = @ /\ b]
            \in [used : BOOLEAN, version : {0, 1}, key : Nat]
      BY <3>2
    <3>4. network_shared_key'
            = [network_shared_key EXCEPT ![s] = [network_shared_key[s] EXCEPT !.used = @ /\ b]]
      BY <3>1
    <3> QED BY <1>4, <3>3, <3>4 DEF RecvError, SensorTypeOK
  <2> QED BY <1>1, <1>4, <2>1, <2>2 DEF RecvError, NetTypeOK
<1>5. CASE RecvData(s)
  <2>1. (down \subseteq DownMsg)'
    BY <1>5, ChannelType DEF RecvData, NetTypeOK
  <2>2. SensorTypeOK'
    BY <1>5 DEF RecvData, SensorTypeOK
  <2> QED BY <1>1, <1>5, <2>1, <2>2 DEF RecvData, NetTypeOK
<1>6. CASE Reboot(s)
  <2>1. SensorTypeOK'
    BY <1>6 DEF Reboot, SensorTypeOK, NoKey, Junk
  <2> QED BY <1>1, <1>6, <2>1 DEF Reboot, NetTypeOK, netVars
<1> QED BY <1>2, <1>3, <1>4, <1>5, <1>6 DEF SensorNext

\* Answering keeps the types.
LEMMA AnswerTypes ==
  ASSUME NetTypeOK, NEW msg \in DownMsg, down' = Sent(down, msg), wsUp' = wsUp
  PROVE  /\ down' \subseteq DownMsg
         /\ wsUp' \in Seq(WsUpMsg) /\ Len(wsUp') <= WsCap
         /\ ~conn => wsUp' = <<>>
<1>1. down' \subseteq DownMsg
  BY ChannelType DEF NetTypeOK
<1>2. wsUp' \in Seq(WsUpMsg) /\ Len(wsUp') <= WsCap
  BY DEF NetTypeOK
<1>3. ~conn => wsUp' = <<>>
  BY DEF NetTypeOK
<1> QED BY <1>1, <1>2, <1>3

\* Writing to the websocket, or answering that it failed, keeps the types.
LEMMA WriteOrErrorTypes ==
  ASSUME NetTypeOK, NEW msg \in WsUpMsg, addr' \in Sensors, WriteOrError(msg)
  PROVE  /\ down' \subseteq DownMsg
         /\ wsUp' \in Seq(WsUpMsg) /\ Len(wsUp') <= WsCap
         /\ ~conn => wsUp' = <<>>
<1>1. Error(addr', "SERVER_ERROR") \in DownMsg
  BY DEF Error, DownMsg, SecurityError, Reason
<1>2. CASE CanWrite
  <2>1. wsUp' = Append(wsUp, msg) /\ down' = down /\ conn /\ Len(wsUp) < WsCap
    BY <1>2 DEF WriteOrError, CanWrite
  <2>2. wsUp' \in Seq(WsUpMsg) /\ Len(wsUp') = Len(wsUp) + 1
    BY <2>1, AppendElem DEF NetTypeOK
  <2>3. Len(wsUp) \in Nat /\ WsCap \in Nat
    BY LenProperties, BoundsAssumption DEF NetTypeOK
  <2> QED BY <2>1, <2>2, <2>3 DEF NetTypeOK
<1>3. CASE ~CanWrite
  <2>1. down' = Sent(down, Error(addr', "SERVER_ERROR")) /\ wsUp' = wsUp
    BY <1>3 DEF WriteOrError
  <2> QED BY <1>1, <2>1, AnswerTypes
<1> QED BY <1>2, <1>3

\* After a client hello the list is the session of its source alone.
LEMMA HelloSession ==
  ASSUME TypeInv, NEW m \in up, m.type = "client_hello", NEW sv \in Served(m.src)
  PROVE  LET x == sv.list[sv.at]
             y == [x EXCEPT !.device_id = m.src, !.random = KeptRandom(x, m)]
         IN /\ m.src \in Sensors
            /\ x \in Session /\ y \in Session
            /\ [sv.list EXCEPT ![sv.at] = y] = <<y>>
            /\ y.addr = m.src /\ y.device_id = m.src
            /\ y.pwd = x.pwd /\ y.auth_flag = x.auth_flag
            /\ x.addr = m.src
            /\ x.auth_flag => sessions = <<x>>
<1> DEFINE x == sv.list[sv.at]
           y == [x EXCEPT !.device_id = m.src, !.random = KeptRandom(x, m)]
<1>1. m \in ClientHello /\ m.src \in Sensors
  BY UpKinds DEF TypeInv, TypeOK, NetTypeOK
<1>2. /\ sv.at = 1
      /\ sv.list \in Seq(Session) /\ Len(sv.list) = 1
      /\ sv.list[1].addr = m.src
      /\ sv.list = sessions \/ ~sv.list[1].auth_flag
  BY <1>1, ServedShape DEF TypeInv, TypeOK
<1>3. sv.list \in [1 .. 1 -> Session]
  BY <1>2, LenProperties
<1>4. x \in Session /\ x.addr = m.src
  BY <1>2, <1>3
<1>5. KeptRandom(x, m) \in Randoms
  BY <1>1, <1>4 DEF KeptRandom, Session, ClientHello
<1>6. /\ y \in Session
      /\ y.addr = m.src /\ y.device_id = m.src
      /\ y.pwd = x.pwd /\ y.auth_flag = x.auth_flag
  BY <1>1, <1>4, <1>5 DEF Session
<1>7. [sv.list EXCEPT ![sv.at] = y] = <<y>> /\ sv.list = <<x>>
  <2> HIDE DEF y
  <2> QED BY <1>2, <1>3
<1>8. x.auth_flag => sessions = <<x>>
  BY <1>2, <1>7
<1> QED BY <1>1, <1>4, <1>6, <1>7, <1>8

\* A client hello, whatever its verdict, keeps the types and the one-session list.
LEMMA ClientHelloTypes ==
  ASSUME TypeInv, HandleClientHello, GatewayStep
  PROVE  TypeInv'
<1>1. PICK m \in up : \E sv \in Served(m.src) : TakeHello(m, sv)
  BY DEF HandleClientHello
<1>2. PICK sv \in Served(m.src) : TakeHello(m, sv)
  BY <1>1
<1> DEFINE x == sv.list[sv.at]
           y == [x EXCEPT !.device_id = m.src, !.random = KeptRandom(x, m)]
<1>3. /\ m.type = "client_hello"
      /\ up' \in Delivered(up, m)
      /\ addr' = m.src
      /\ sessions' = [sv.list EXCEPT ![sv.at] = y]
      /\ \/ WriteOrError([method |-> "auth", device_id |-> m.src, pwd |-> AuthPwd(m)])
         \/ Answer(ServerHelloMsg(m.src, y))
         \/ HelloVerdict(x, m) \in Reason /\ Answer(Error(m.src, HelloVerdict(x, m)))
      /\ UNCHANGED <<conn, wsDown, g_network_shared_key>>
  BY <1>2 DEF TakeHello
<1>4. /\ m.src \in Sensors
      /\ x \in Session /\ y \in Session
      /\ [sv.list EXCEPT ![sv.at] = y] = <<y>>
      /\ y.addr = m.src /\ y.device_id = m.src
  BY <1>3, HelloSession
<1> HIDE DEF x, y
<1>5. sessions' = <<y>>
  BY <1>3, <1>4
<1>6. SessionsShape' /\ ProxyTypeOK'
  <2>1. Len(sessions') <= 1 /\ DOMAIN sessions' = {1} /\ sessions'[1] = y
    BY <1>5
  <2>2. sessions' \in Seq(Session)
    BY <1>4, <1>5
  <2> QED BY <1>3, <1>4, <2>1, <2>2 DEF SessionsShape, ProxyTypeOK, TypeInv, TypeOK
<1>7. SensorTypeOK' /\ ServerTypeOK' /\ (drops \in Nat)'
  BY DEF TypeInv, TypeOK, GatewayStep, sensorVars, serverVars, SensorTypeOK, ServerTypeOK
<1>8. (up \subseteq UpMsg)'
  BY <1>3, ChannelType DEF TypeInv, TypeOK, NetTypeOK
<1>9. /\ down' \subseteq DownMsg
      /\ wsUp' \in Seq(WsUpMsg) /\ Len(wsUp') <= WsCap
      /\ ~conn => wsUp' = <<>>
  <2>1. CASE WriteOrError([method |-> "auth", device_id |-> m.src, pwd |-> AuthPwd(m)])
    <3>1. [method |-> "auth", device_id |-> m.src, pwd |-> AuthPwd(m)] \in WsUpMsg
      BY <1>4 DEF AuthPwd, DecryptedPwd, Pwd, WsUpMsg, Request
    <3> QED BY <1>3, <1>4, <2>1, <3>1, WriteOrErrorTypes DEF TypeInv, TypeOK
  <2>2. CASE Answer(ServerHelloMsg(m.src, y))
    <3>1. ServerHelloMsg(m.src, y) \in DownMsg
      BY <1>4 DEF ServerHelloMsg, DownMsg, ServerHello, Session, TypeInv, TypeOK, ProxyTypeOK
    <3> QED BY <2>2, <3>1, AnswerTypes DEF Answer, TypeInv, TypeOK
  <2>3. CASE HelloVerdict(x, m) \in Reason /\ Answer(Error(m.src, HelloVerdict(x, m)))
    <3>1. Error(m.src, HelloVerdict(x, m)) \in DownMsg
      BY <1>4, <2>3 DEF Error, DownMsg, SecurityError
    <3> QED BY <2>3, <3>1, AnswerTypes DEF Answer, TypeInv, TypeOK
  <2> QED BY <1>3, <2>1, <2>2, <2>3 DEF x, y
<1>10. NetTypeOK'
  BY <1>3, <1>8, <1>9 DEF NetTypeOK, TypeInv, TypeOK
<1> QED BY <1>6, <1>7, <1>10 DEF TypeInv, TypeOK

\* Forwarding or refusing a datagram of a sensor keeps the types.
LEMMA SensorDataTypes ==
  ASSUME TypeInv, HandleSensorData, GatewayStep
  PROVE  TypeInv'
<1>1. PICK m \in up :
        /\ m.type = "data"
        /\ up' \in Delivered(up, m)
        /\ addr' = m.src
        /\ \/ WriteOrError(Forward(m))
           \/ SessionError(m) # "forward" /\ Answer(Error(m.src, SessionError(m)))
        /\ UNCHANGED <<conn, wsDown, g_network_shared_key, sessions>>
  BY DEF HandleSensorData
<1>2. m \in SensorData /\ m.src \in Sensors
  BY <1>1, UpKinds DEF TypeInv, TypeOK, NetTypeOK
<1>3. SessionsShape' /\ ProxyTypeOK'
  BY <1>1, <1>2 DEF SessionsShape, ProxyTypeOK, TypeInv, TypeOK
<1>4. SensorTypeOK' /\ ServerTypeOK' /\ (drops \in Nat)'
  BY DEF TypeInv, TypeOK, GatewayStep, sensorVars, serverVars, SensorTypeOK, ServerTypeOK
<1>5. (up \subseteq UpMsg)'
  BY <1>1, ChannelType DEF TypeInv, TypeOK, NetTypeOK
<1>6. /\ down' \subseteq DownMsg
      /\ wsUp' \in Seq(WsUpMsg) /\ Len(wsUp') <= WsCap
      /\ ~conn => wsUp' = <<>>
  <2>1. CASE WriteOrError(Forward(m))
    <3>1. Forward(m) \in WsUpMsg
      BY <1>2 DEF Forward, SensorData, WsUpMsg, Request
    <3> QED BY <1>1, <1>2, <2>1, <3>1, WriteOrErrorTypes DEF TypeInv, TypeOK
  <2>2. CASE SessionError(m) # "forward" /\ Answer(Error(m.src, SessionError(m)))
    <3>1. Error(m.src, SessionError(m)) \in DownMsg
      BY <1>2, <2>2 DEF SessionError, Error, DownMsg, SecurityError, Reason
    <3> QED BY <2>2, <3>1, AnswerTypes DEF Answer, TypeInv, TypeOK
  <2> QED BY <1>1, <2>1, <2>2
<1>7. NetTypeOK'
  BY <1>1, <1>5, <1>6 DEF NetTypeOK, TypeInv, TypeOK
<1> QED BY <1>3, <1>4, <1>7 DEF TypeInv, TypeOK

\* The head of the server's queue, and the queue without it.
LEMMA ReplyTypes ==
  ASSUME NetTypeOK, wsDown # <<>>
  PROVE  /\ Head(wsDown) \in WsDownMsg
         /\ Tail(wsDown) \in Seq(WsDownMsg) /\ Len(Tail(wsDown)) <= WsCap
<1>1. /\ wsDown \in Seq(WsDownMsg) /\ Len(wsDown) <= WsCap
      /\ Len(wsDown) \in Nat /\ WsCap \in Nat
  BY LenProperties, BoundsAssumption DEF NetTypeOK
<1>2. /\ Head(wsDown) \in WsDownMsg /\ Tail(wsDown) \in Seq(WsDownMsg)
      /\ Len(Tail(wsDown)) = Len(wsDown) - 1
  BY <1>1, HeadTailProperties
<1> QED BY <1>1, <1>2

\* The session an answer of the server concerns is the only one of the list.
LEMMA AnsweredSession ==
  ASSUME ProxyTypeOK, SessionsShape, NEW d, FindSession(d) # {}
  PROVE  /\ First(FindSession(d)) = 1
         /\ 1 \in DOMAIN sessions /\ Len(sessions) = 1
         /\ sessions[1] \in Session /\ sessions[1].device_id = d
         /\ addr \in Sensors
<1>1. FindSession(d) \subseteq {1} /\ First(FindSession(d)) = 1
  BY SessionsDomain, FirstOfOne DEF FindSession
<1>2. 1 \in DOMAIN sessions /\ sessions[1].device_id = d
  BY <1>1 DEF FindSession
<1>3. sessions # <<>>
  BY <1>2
<1>4. Len(sessions) = 1
  BY <1>3, LenOne DEF ProxyTypeOK, SessionsShape
<1>5. sessions[1] \in Session
  BY <1>2 DEF ProxyTypeOK
<1> QED BY <1>1, <1>2, <1>3, <1>4, <1>5 DEF SessionsShape

\* An answer to an AUTH request keeps the types.
LEMMA AuthReplyTypes ==
  ASSUME TypeInv, HandleAuthReply, GatewayStep
  PROVE  TypeInv'
<1> DEFINE r == Head(wsDown)
           y == [sessions[1] EXCEPT !.pwd = r.pwd, !.auth_flag = TRUE]
<1>1. FindSession(r.device_id) # {} /\ wsDown # <<>> /\ wsDown' = Tail(wsDown)
  BY DEF HandleAuthReply, Answered
<1>2. /\ First(Answered(r.device_id)) = 1
      /\ 1 \in DOMAIN sessions /\ Len(sessions) = 1
      /\ sessions[1] \in Session /\ addr \in Sensors
  BY <1>1, AnsweredSession DEF TypeInv, TypeOK, Answered
<1>3. /\ r \in WsDownMsg
      /\ Tail(wsDown) \in Seq(WsDownMsg) /\ Len(Tail(wsDown)) <= WsCap
  BY <1>1, ReplyTypes DEF TypeInv, TypeOK
<1>4. y \in Session /\ y.addr = sessions[1].addr /\ y.device_id = sessions[1].device_id
  BY <1>2, <1>3 DEF Session, WsDownMsg
<1>5. \/ /\ sessions' = [sessions EXCEPT ![1] = y]
         /\ Answer(ServerHelloMsg(addr, y))
      \/ /\ Answer(Error(addr, "INVALID_PWD"))
         /\ sessions' = sessions
  BY <1>2 DEF HandleAuthReply
<1>6. UNCHANGED <<up, conn, g_network_shared_key, addr>> /\ conn
  BY DEF HandleAuthReply
<1> HIDE DEF r, y
<1>7. SessionsShape' /\ ProxyTypeOK'
  <2>1. CASE sessions' = sessions
    BY <1>6, <2>1 DEF SessionsShape, ProxyTypeOK, TypeInv, TypeOK
  <2>2. CASE sessions' = [sessions EXCEPT ![1] = y]
    <3>1. DOMAIN sessions = 1 .. 1 /\ sessions \in [1 .. 1 -> Session]
      BY <1>2, LenProperties DEF TypeInv, TypeOK, ProxyTypeOK
    <3>2. sessions' = <<y>>
      BY <2>2, <3>1
    <3>3. Len(sessions') = 1 /\ DOMAIN sessions' = {1} /\ sessions'[1] = y
      BY <3>2
    <3>4. sessions' \in Seq(Session)
      BY <1>4, <3>2
    <3>5. y.device_id = y.addr
      BY <1>2, <1>4 DEF TypeInv, SessionsShape
    <3> QED BY <1>2, <1>6, <3>3, <3>4, <3>5 DEF SessionsShape, ProxyTypeOK, TypeInv, TypeOK
  <2> QED BY <1>5, <2>1, <2>2
<1>8. SensorTypeOK' /\ ServerTypeOK' /\ (drops \in Nat)'
  BY DEF TypeInv, TypeOK, GatewayStep, sensorVars, serverVars, SensorTypeOK, ServerTypeOK
<1>9. /\ down' \subseteq DownMsg
      /\ wsUp' \in Seq(WsUpMsg) /\ Len(wsUp') <= WsCap
  <2>1. ServerHelloMsg(addr, y) \in DownMsg
    BY <1>2, <1>4 DEF ServerHelloMsg, DownMsg, ServerHello, Session, TypeInv, TypeOK, ProxyTypeOK
  <2>2. Error(addr, "INVALID_PWD") \in DownMsg
    BY <1>2 DEF Error, DownMsg, SecurityError, Reason
  <2> QED BY <1>5, <2>1, <2>2, AnswerTypes DEF Answer, TypeInv, TypeOK
<1>10. NetTypeOK'
  BY <1>1, <1>3, <1>6, <1>9 DEF NetTypeOK, TypeInv, TypeOK
<1> QED BY <1>7, <1>8, <1>10 DEF TypeInv, TypeOK

\* An answer to any other request keeps the types.
LEMMA DataReplyTypes ==
  ASSUME TypeInv, HandleDataReply, GatewayStep
  PROVE  TypeInv'
<1> DEFINE r == Head(wsDown)
           msg == [type |-> "data", dst |-> addr, key |-> g_network_shared_key,
                   device_id |-> r.device_id, method |-> r.method, result |-> r.result]
<1>1. /\ conn /\ wsDown # <<>> /\ r.method # "auth" /\ FindSession(r.device_id) # {}
      /\ Answer(msg)
      /\ wsDown' = Tail(wsDown)
      /\ UNCHANGED <<up, conn, proxyVars>>
  BY DEF HandleDataReply
<1>2. /\ r \in WsDownMsg
      /\ Tail(wsDown) \in Seq(WsDownMsg) /\ Len(Tail(wsDown)) <= WsCap
  BY <1>1, ReplyTypes DEF TypeInv, TypeOK
<1>3. addr \in Sensors
  BY <1>1, AnsweredSession DEF TypeInv, TypeOK
<1>4. msg \in DownMsg
  BY <1>1, <1>2, <1>3
     DEF WsDownMsg, DownMsg, GatewayData, TypeInv, TypeOK, ProxyTypeOK
<1> HIDE DEF r, msg
<1>5. /\ down' \subseteq DownMsg
      /\ wsUp' \in Seq(WsUpMsg) /\ Len(wsUp') <= WsCap
  BY <1>1, <1>4, AnswerTypes DEF Answer, TypeInv, TypeOK
<1>6. NetTypeOK'
  BY <1>1, <1>2, <1>5 DEF NetTypeOK, TypeInv, TypeOK
<1>7. SessionsShape' /\ ProxyTypeOK'
  BY <1>1 DEF SessionsShape, ProxyTypeOK, TypeInv, TypeOK, proxyVars
<1>8. SensorTypeOK' /\ ServerTypeOK' /\ (drops \in Nat)'
  BY DEF TypeInv, TypeOK, GatewayStep, sensorVars, serverVars, SensorTypeOK, ServerTypeOK
<1> QED BY <1>6, <1>7, <1>8 DEF TypeInv, TypeOK

\* An answer nobody waits for keeps the types.
LEMMA OrphanReplyTypes ==
  ASSUME TypeInv, HandleOrphanReply, GatewayStep
  PROVE  TypeInv'
<1> DEFINE msg == [method |-> "connect_error", device_id |-> Head(wsDown).device_id]
<1>1. /\ conn /\ wsDown # <<>>
      /\ wsUp' = IF CanWrite THEN Append(wsUp, msg) ELSE wsUp
      /\ wsDown' = Tail(wsDown)
      /\ UNCHANGED <<up, down, conn, proxyVars>>
  BY DEF HandleOrphanReply
<1>2. /\ Head(wsDown) \in WsDownMsg
      /\ Tail(wsDown) \in Seq(WsDownMsg) /\ Len(Tail(wsDown)) <= WsCap
  BY <1>1, ReplyTypes DEF TypeInv, TypeOK
<1>3. msg \in WsUpMsg
  BY <1>2 DEF WsDownMsg, WsUpMsg
<1> HIDE DEF msg
<1>4. /\ wsUp \in Seq(WsUpMsg) /\ Len(wsUp) <= WsCap
      /\ Len(wsUp) \in Nat /\ WsCap \in Nat
  BY LenProperties, BoundsAssumption DEF TypeInv, TypeOK, NetTypeOK
<1>5. wsUp' \in Seq(WsUpMsg) /\ Len(wsUp') <= WsCap
  <2>1. CASE CanWrite
    <3>1. wsUp' = Append(wsUp, msg) /\ Len(wsUp) < WsCap
      BY <1>1, <2>1 DEF CanWrite
    <3>2. wsUp' \in Seq(WsUpMsg) /\ Len(wsUp') = Len(wsUp) + 1
      BY <1>3, <1>4, <3>1, AppendElem
    <3> QED BY <1>4, <3>1, <3>2
  <2>2. CASE ~CanWrite
    BY <1>1, <1>4, <2>2
  <2> QED BY <2>1, <2>2
<1>6. NetTypeOK'
  BY <1>1, <1>2, <1>5 DEF NetTypeOK, TypeInv, TypeOK
<1>7. SessionsShape' /\ ProxyTypeOK'
  BY <1>1 DEF SessionsShape, ProxyTypeOK, TypeInv, TypeOK, proxyVars
<1>8. SensorTypeOK' /\ ServerTypeOK' /\ (drops \in Nat)'
  BY DEF TypeInv, TypeOK, GatewayStep, sensorVars, serverVars, SensorTypeOK, ServerTypeOK
<1> QED BY <1>6, <1>7, <1>8 DEF TypeInv, TypeOK

\* The head of the queue to the server, and the queue without it.
LEMMA RequestTypes ==
  ASSUME NetTypeOK, wsUp # <<>>
  PROVE  /\ Head(wsUp) \in WsUpMsg
         /\ Tail(wsUp) \in Seq(WsUpMsg) /\ Len(Tail(wsUp)) <= WsCap
<1>1. /\ wsUp \in Seq(WsUpMsg) /\ Len(wsUp) <= WsCap
      /\ Len(wsUp) \in Nat /\ WsCap \in Nat
  BY LenProperties, BoundsAssumption DEF NetTypeOK
<1>2. /\ Head(wsUp) \in WsUpMsg /\ Tail(wsUp) \in Seq(WsUpMsg)
      /\ Len(Tail(wsUp)) = Len(wsUp) - 1
  BY <1>1, HeadTailProperties
<1> QED BY <1>1, <1>2

\* A handler whose connection is up runs while the gateway is connected.
RunningLive == \A c \in running : c.open => conn

\* A handler that ends writes at most one answer.
LEMMA FinishTypes ==
  ASSUME TypeInv, RunningLive, NEW c \in running, NEW r \in {"ok", "fail", "KeyError"}, Finish(c, r)
  PROVE  NetTypeOK' /\ running' \subseteq [request : Request, open : BOOLEAN]
<1> DEFINE msg == [method |-> c.request.method, device_id |-> c.request.device_id, result |-> r,
                   pwd |-> IF r = "ok" /\ c.request.method = "auth" THEN c.request.pwd ELSE NoPwd]
<1>1. c.request \in Request
  BY DEF TypeInv, TypeOK, ServerTypeOK
<1>2. r # "KeyError" => msg \in WsDownMsg
  BY <1>1 DEF Request, WsDownMsg, Pwd
<1>3. /\ wsDown \in Seq(WsDownMsg) /\ Len(wsDown) <= WsCap
      /\ Len(wsDown) \in Nat /\ WsCap \in Nat
  BY LenProperties, BoundsAssumption DEF TypeInv, TypeOK, NetTypeOK
<1>4. /\ UNCHANGED <<up, down, conn, wsUp>>
      /\ \/ wsDown' = wsDown
         \/ r # "KeyError" /\ c.open /\ Len(wsDown) < WsCap /\ wsDown' = Append(wsDown, msg)
  BY DEF Finish
<1> HIDE DEF msg
<1>5. wsDown' \in Seq(WsDownMsg) /\ Len(wsDown') <= WsCap
  <2>1. CASE wsDown' = wsDown
    BY <1>3, <2>1
  <2>2. CASE r # "KeyError" /\ Len(wsDown) < WsCap /\ wsDown' = Append(wsDown, msg)
    <3>1. wsDown' \in Seq(WsDownMsg) /\ Len(wsDown') = Len(wsDown) + 1
      BY <1>2, <1>3, <2>2, AppendElem
    <3> QED BY <1>3, <2>2, <3>1
  <2> QED BY <1>4, <2>1, <2>2
<1>6. running' \subseteq [request : Request, open : BOOLEAN]
  BY DEF Finish, TypeInv, TypeOK, ServerTypeOK
<1>7. ~conn => wsUp = <<>> /\ wsDown' = <<>>
  BY <1>4 DEF RunningLive, TypeInv, TypeOK, NetTypeOK
<1>8. NetTypeOK'
  BY <1>4, <1>5, <1>7 DEF NetTypeOK, TypeInv, TypeOK
<1> QED BY <1>6, <1>8

\* What the checks of a handler may find.
LEMMA ResultTypes ==
  ASSUME NEW d, NEW pw
  PROVE  /\ Checked(d) \in {"ok", "fail", "KeyError"}
         /\ AuthResult(d, pw) \in {"ok", "fail", "KeyError"}
         /\ ReportResult(d) \in {"ok", "fail", "KeyError"}
         /\ Checked(d) = "ok" => d \in Valid
         /\ AuthResult(d, pw) = "ok" => d \in Valid /\ pw = d
         /\ ReportResult(d) = "ok" => d \in Valid /\ d \in registered
BY SensorsAssumption DEF Checked, AuthResult, ReportResult

\* Counters count down to zero.
LEMMA PredNat ==
  ASSUME NEW n \in Nat, n > 0
  PROVE  n - 1 \in Nat
OBVIOUS

\* Every step of the server keeps the types.
LEMMA ServerTypes ==
  ASSUME TypeInv, RunningLive, ServerNext, ServerStep
  PROVE  TypeInv'
<1> USE DEF TypeInv, TypeOK
<1>1. SensorTypeOK' /\ ProxyTypeOK' /\ SessionsShape' /\ (drops \in Nat)'
  BY DEF ServerStep, sensorVars, proxyVars, SensorTypeOK, ProxyTypeOK, SessionsShape
<1>2. CASE OpenDone
  <2>1. ServerTypeOK'
    <3>1. opening' \in Nat
      BY <1>2, PredNat DEF OpenDone, ServerTypeOK
    <3> QED BY <1>2, <3>1 DEF OpenDone, ServerTypeOK
  <2>2. NetTypeOK'
    BY <1>2 DEF OpenDone, NetTypeOK, netVars
  <2> QED BY <1>1, <2>1, <2>2
<1>3. CASE OnClose
  <2>1. ServerTypeOK'
    <3>1. closing' \in Nat
      BY <1>3, PredNat DEF OnClose, ServerTypeOK
    <3> QED BY <1>3, <3>1 DEF OnClose, ServerTypeOK
  <2>2. NetTypeOK'
    BY <1>3 DEF OnClose, NetTypeOK, netVars
  <2> QED BY <1>1, <2>1, <2>2
<1>4. CASE Accept
  <2>1. conn /\ wsUp # <<>> /\ wsUp' = Tail(wsUp) /\ UNCHANGED <<up, down, conn, wsDown>>
    BY <1>4 DEF Accept
  <2>2. NetTypeOK'
    BY <2>1, RequestTypes DEF NetTypeOK
  <2>3. ServerTypeOK'
    <3>1. /\ running' = running \cup {[request |-> Head(wsUp), open |-> TRUE]}
          /\ Head(wsUp) \in Request
          /\ UNCHANGED <<entry, opening, closing, registered, reported>>
      BY <1>4 DEF Accept
    <3>2. [request |-> Head(wsUp), open |-> TRUE] \in [request : Request, open : BOOLEAN]
      BY <3>1
    <3> QED BY <3>1, <3>2 DEF ServerTypeOK
  <2> QED BY <1>1, <2>2, <2>3
<1>5. CASE DropUnparsable
  <2>1. conn /\ wsUp # <<>> /\ wsUp' = Tail(wsUp) /\ UNCHANGED <<up, down, conn, wsDown>>
    BY <1>5 DEF DropUnparsable
  <2>2. NetTypeOK'
    BY <2>1, RequestTypes DEF NetTypeOK
  <2>3. ServerTypeOK'
    BY <1>5 DEF DropUnparsable, ServerTypeOK, serverVars
  <2> QED BY <1>1, <2>2, <2>3
<1>6. ASSUME NEW c \in running, NEW r \in {"ok", "fail", "KeyError"}, Finish(c, r),
             registered' \subseteq registered \cup {c.request.device_id},
             reported' \subseteq reported \cup {c.request.device_id}
      PROVE  TypeInv'
  <2>1. NetTypeOK' /\ running' \subseteq [request : Request, open : BOOLEAN]
    BY <1>6, FinishTypes
  <2>2. c.request.device_id \in Sensors
    BY DEF ServerTypeOK, Request
  <2>3. UNCHANGED <<entry, opening, closing>>
    BY <1>6 DEF Finish
  <2>4. ServerTypeOK'
    BY <1>6, <2>1, <2>2, <2>3 DEF ServerTypeOK
  <2> QED BY <1>1, <2>1, <2>4
<1>7. CASE DeviceAuth
  <2>1. PICK c \in running : /\ Finish(c, AuthResult(c.request.device_id, c.request.pwd))
                             /\ UNCHANGED <<registered, reported>>
    BY <1>7 DEF DeviceAuth
  <2> QED BY <1>6, <2>1, ResultTypes
<1>8. CASE DeviceNew
  <2>1. PICK c \in running :
          /\ Finish(c, Checked(c.request.device_id))
          /\ registered' \subseteq registered \cup {c.request.device_id}
          /\ UNCHANGED reported
    BY <1>8 DEF DeviceNew
  <2> QED BY <1>6, <2>1, ResultTypes
<1>9. CASE DeviceReport
  <2>1. PICK c \in running :
          /\ Finish(c, ReportResult(c.request.device_id))
          /\ reported' \subseteq reported \cup {c.request.device_id}
          /\ UNCHANGED registered
    BY <1>9 DEF DeviceReport
  <2> QED BY <1>6, <2>1, ResultTypes
<1> QED BY <1>2, <1>3, <1>4, <1>5, <1>7, <1>8, <1>9 DEF ServerNext

\* The world's steps: datagrams lost, connections made and broken, restarts.
LEMMA WorldTypes ==
  ASSUME TypeInv,
         \/ Lose /\ UNCHANGED <<sensorVars, proxyVars, serverVars, drops>>
         \/ Connect \/ Break \/ Restart
  PROVE  TypeInv'
<1> USE DEF TypeInv, TypeOK
<1>1. CASE Lose /\ UNCHANGED <<sensorVars, proxyVars, serverVars, drops>>
  <2>1. up' \subseteq up /\ down' \subseteq down /\ UNCHANGED <<conn, wsUp, wsDown>>
    BY <1>1 DEF Lose
  <2>2. NetTypeOK'
    BY <2>1 DEF NetTypeOK
  <2> QED BY <1>1, <2>2 DEF sensorVars, proxyVars, serverVars, SensorTypeOK, ProxyTypeOK,
             ServerTypeOK, SessionsShape
<1>2. CASE Connect
  <2>1. NetTypeOK' /\ ServerTypeOK'
    <3>1. opening' \in Nat
      BY <1>2 DEF Connect, ServerTypeOK
    <3> QED BY <1>2, <3>1 DEF Connect, NetTypeOK, ServerTypeOK
  <2> QED BY <1>2, <2>1 DEF Connect, sensorVars, proxyVars, SensorTypeOK, ProxyTypeOK,
             SessionsShape
<1>3. ASSUME Broken
      PROVE  NetTypeOK' /\ ServerTypeOK' /\ drops' \in Nat
  <2>1. <<>> \in Seq(WsUpMsg) /\ <<>> \in Seq(WsDownMsg) /\ Len(<<>>) = 0
    BY EmptySeq
  <2>2. 0 <= WsCap
    BY BoundsAssumption
  <2>3. NetTypeOK'
    BY <1>3, <2>1, <2>2 DEF Broken, NetTypeOK
  <2>4. closing' \in Nat /\ drops' \in Nat
    BY <1>3 DEF Broken, ServerTypeOK
  <2>5. running' \subseteq [request : Request, open : BOOLEAN]
    BY <1>3 DEF Broken, ServerTypeOK
  <2> QED BY <1>3, <2>3, <2>4, <2>5 DEF Broken, ServerTypeOK
<1>4. CASE Break
  BY <1>3, <1>4 DEF Break, sensorVars, proxyVars, SensorTypeOK, ProxyTypeOK, SessionsShape
<1>5. CASE Restart
  <2>1. sessions' = <<>> /\ addr' = NoPwd
        /\ g_network_shared_key' = g_network_shared_key + 1
    BY <1>5 DEF Restart
  <2>2. ProxyTypeOK' /\ SessionsShape'
    BY <2>1, EmptySeq DEF ProxyTypeOK, SessionsShape, Junk
  <2>3. SensorTypeOK'
    BY <1>5 DEF Restart, sensorVars, SensorTypeOK
  <2>4. NetTypeOK' /\ ServerTypeOK' /\ drops' \in Nat
    BY <1>3, <1>5 DEF Restart
  <2> QED BY <2>2, <2>3, <2>4
<1> QED BY <1>1, <1>2, <1>4, <1>5

\* The steps of Next by the part of the system that takes them.
LEMMA NextCases ==
  ASSUME Next
  PROVE  \/ \E s \in Sensors : SensorNext(s) /\ SensorStep
         \/ HandleClientHello /\ GatewayStep
         \/ HandleSensorData /\ GatewayStep
         \/ HandleAuthReply /\ GatewayStep
         \/ HandleDataReply /\ GatewayStep
         \/ HandleOrphanReply /\ GatewayStep
         \/ ServerNext /\ ServerStep
         \/ Lose /\ UNCHANGED <<sensorVars, proxyVars, serverVars, drops>>
         \/ Connect \/ Break \/ Restart
BY DEF Next, Expire, SensorNext, ServerNext

\* TypeInv is inductive, given that the live requests have a connection.
LEMMA TypeStep ==
  ASSUME TypeInv, RunningLive, [Next]_vars
  PROVE  TypeInv'
<1>1. CASE UNCHANGED vars
  BY <1>1 DEF vars, netVars, sensorVars, proxyVars, serverVars, TypeInv, TypeOK, NetTypeOK,
       SensorTypeOK, ProxyTypeOK, ServerTypeOK, SessionsShape
<1>2. CASE Next
  BY <1>2, NextCases, SensorTypes, ClientHelloTypes, SensorDataTypes, AuthReplyTypes,
     DataReplyTypes, OrphanReplyTypes, ServerTypes, WorldTypes
<1> QED BY <1>1, <1>2

\* RunningLive is inductive.
LEMMA LiveStep ==
  ASSUME TypeInv, RunningLive, [Next]_vars
  PROVE  RunningLive'
<1> USE DEF RunningLive
<1>1. CASE UNCHANGED vars
  BY <1>1 DEF vars, netVars, serverVars
<1>2. CASE \E s \in Sensors : SensorNext(s) /\ SensorStep
  BY <1>2 DEF SensorStep, serverVars, SensorNext, Timer, RecvServerHello, RecvError, RecvData,
       Reboot, netVars
<1>3. CASE /\ \/ HandleClientHello \/ HandleSensorData
              \/ HandleAuthReply \/ HandleDataReply \/ HandleOrphanReply
           /\ GatewayStep
  <2>1. conn' = conn
    BY <1>3 DEF HandleClientHello, TakeHello, HandleSensorData, HandleAuthReply,
         HandleDataReply, HandleOrphanReply
  <2>2. running' = running
    BY <1>3 DEF GatewayStep, serverVars
  <2> QED BY <2>1, <2>2
<1>4. CASE ServerNext /\ ServerStep
  <2>1. conn' = conn
    BY <1>4 DEF ServerNext, OpenDone, OnClose, Accept, DropUnparsable, DeviceAuth, DeviceNew,
         DeviceReport, Finish, netVars
  <2>2. \A c \in running' : c \in running \/ conn
    BY <1>4 DEF ServerNext, OpenDone, OnClose, Accept, DropUnparsable, DeviceAuth, DeviceNew,
         DeviceReport, Finish, serverVars
  <2> QED BY <2>1, <2>2
<1>5. CASE Lose /\ UNCHANGED <<sensorVars, proxyVars, serverVars, drops>>
  BY <1>5 DEF Lose, serverVars
<1>6. CASE Connect
  BY <1>6 DEF Connect
<1>7. CASE Break \/ Restart
  <2>1. running' = {[c EXCEPT !.open = FALSE] : c \in running}
    BY <1>7 DEF Break, Restart, Broken
  <2>2. \A c \in running : [c EXCEPT !.open = FALSE].open = FALSE
    BY DEF TypeInv, TypeOK, ServerTypeOK
  <2> QED BY <2>1, <2>2
<1> QED BY <1>1, <1>2, <1>3, <1>4, <1>5, <1>6, <1>7, NextCases

\* Both hold at the start.
LEMMA TypeInit ==
  ASSUME Init
  PROVE  TypeInv /\ RunningLive
<1>1. <<>> \in Seq(WsUpMsg) /\ <<>> \in Seq(WsDownMsg) /\ <<>> \in Seq(Session) /\ Len(<<>>) = 0
  BY EmptySeq
<1>2. 0 <= WsCap
  BY BoundsAssumption
<1>3. NetTypeOK
  BY <1>1, <1>2 DEF Init, NetInit, NetTypeOK
<1>4. SensorTypeOK
  BY DEF Init, SensorInit, SensorTypeOK, NoKey, Junk
<1>5. ProxyTypeOK /\ SessionsShape
  BY <1>1 DEF Init, ProxyInit, ProxyTypeOK, SessionsShape, Junk
<1>6. ServerTypeOK /\ RunningLive
  BY DEF Init, ServerInit, ServerTypeOK, RunningLive
<1> QED BY <1>3, <1>4, <1>5, <1>6 DEF TypeInv, TypeOK, Init

\* Every reachable state has the types, and the bounds of the queues hold.
THEOREM TypeCorrect == Spec => []TypeOK
<1>1. Init => TypeInv /\ RunningLive
  BY TypeInit
<1>2. TypeInv /\ RunningLive /\ [Next]_vars => TypeInv' /\ RunningLive'
  BY TypeStep, LiveStep
<1>3. TypeInv => TypeOK
  BY DEF TypeInv
<1> QED BY <1>1, <1>2, <1>3, PTL DEF Spec

-----------------------------------------------------------------------------
\* Keys.

\* A success of the server is for a device of the owner; that of an AUTH repeats the
\* device's own password, that of a NEW_DEVICE comes after the registration.
ReplyInv == \A i \in DOMAIN wsDown :
  wsDown[i].result = "ok" =>
    /\ wsDown[i].device_id \in Valid
    /\ wsDown[i].method = "auth" => wsDown[i].pwd = wsDown[i].device_id
    /\ wsDown[i].method = "new_device" => wsDown[i].device_id \in registered

\* A server hello is made for the password of a device of the owner.
HelloInv == \A m \in down :
  m.type = "server_hello" => m.pwd \in Valid /\ m.key <= g_network_shared_key

\* SessionBinding is not inductive: what makes a session authenticated is an answer
\* of the server, what gives a sensor its key is a server hello.
AuthInv == ReplyInv /\ SessionBinding /\ HelloInv /\ KeySecrecy

\* What a write may add: to the queue the message, to the channel an error.
LEMMA WriteAdds ==
  ASSUME NetTypeOK, NEW msg \in WsUpMsg, WriteOrError(msg)
  PROVE  /\ \A x \in down' : x \in down \/ x.type = "error"
         /\ \A i \in DOMAIN wsUp' :
              (\E j \in DOMAIN wsUp : wsUp'[i] = wsUp[j]) \/ wsUp'[i] = msg
<1>1. CASE CanWrite
  <2>1. wsUp' = Append(wsUp, msg) /\ down' = down
    BY <1>1 DEF WriteOrError
  <2>2. wsUp \in Seq(WsUpMsg)
    BY DEF NetTypeOK
  <2> QED BY <2>1, <2>2, AppendElem
<1>2. CASE ~CanWrite
  <2>1. down' = Sent(down, Error(addr', "SERVER_ERROR")) /\ wsUp' = wsUp
    BY <1>2 DEF WriteOrError
  <2>2. Error(addr', "SERVER_ERROR").type = "error"
    BY DEF Error
  <2> QED BY <2>1, <2>2, SentElem
<1> QED BY <1>1, <1>2

\* A sensor gains only the key of a server hello made for its own password.
LEMMA SensorAuth ==
  ASSUME TypeInv, AuthInv, NEW s \in Sensors, SensorNext(s), SensorStep
  PROVE  AuthInv'
<1>1. UNCHANGED <<sessions, g_network_shared_key, registered>>
  BY DEF SensorStep, proxyVars, serverVars
<1>2. wsDown' = wsDown
  BY DEF SensorNext, Timer, RecvServerHello, RecvError, RecvData, Reboot, netVars
<1>3. \A x \in down' : x \in down
  BY DeliveredElem
     DEF SensorNext, Timer, RecvServerHello, RecvError, RecvData, Reboot, netVars
<1>4. \A t \in Sensors :
        \/ network_shared_key'[t].key \in {network_shared_key[t].key, Junk}
        \/ t \in Valid /\ network_shared_key'[t].key <= g_network_shared_key
  <2>1. CASE RecvServerHello(s)
    <3>1. PICK m \in down :
            /\ m.type = "server_hello"
            /\ network_shared_key' = [network_shared_key EXCEPT
                 ![s] = [used |-> TRUE, version |-> CurrentKeyVersion, key |-> HelloKey(s, m)]]
      BY <2>1 DEF RecvServerHello
    <3>2. HelloKey(s, m) = Junk \/ (s \in Valid /\ HelloKey(s, m) <= g_network_shared_key)
      BY <3>1 DEF HelloKey, AuthInv, HelloInv
    <3> QED BY <3>1, <3>2 DEF TypeInv, TypeOK, SensorTypeOK
  <2>2. CASE RecvError(s)
    BY <2>2 DEF RecvError, TypeInv, TypeOK, SensorTypeOK
  <2>3. CASE Reboot(s)
    BY <2>3 DEF Reboot, NoKey, TypeInv, TypeOK, SensorTypeOK
  <2>4. CASE Timer(s) \/ RecvData(s)
    BY <2>4 DEF Timer, RecvData, sensorVars
  <2> QED BY <2>1, <2>2, <2>3, <2>4 DEF SensorNext
<1>5. KeySecrecy'
  BY <1>1, <1>4 DEF AuthInv, KeySecrecy
<1>6. HelloInv'
  BY <1>1, <1>3 DEF AuthInv, HelloInv
<1> QED BY <1>1, <1>2, <1>5, <1>6 DEF AuthInv, ReplyInv, SessionBinding

\* A grant goes only to the device whose password the session holds.
LEMMA ClientHelloAuth ==
  ASSUME TypeInv, AuthInv, HandleClientHello, GatewayStep
  PROVE  AuthInv'
<1>1. PICK m \in up : \E sv \in Served(m.src) : TakeHello(m, sv)
  BY DEF HandleClientHello
<1>2. PICK sv \in Served(m.src) : TakeHello(m, sv)
  BY <1>1
<1> DEFINE x == sv.list[sv.at]
           y == [x EXCEPT !.device_id = m.src, !.random = KeptRandom(x, m)]
           auth == [method |-> "auth", device_id |-> m.src, pwd |-> AuthPwd(m)]
<1>3. /\ m.type = "client_hello"
      /\ sessions' = [sv.list EXCEPT ![sv.at] = y]
      /\ \/ WriteOrError(auth)
         \/ HelloVerdict(x, m) = "grant" /\ Answer(ServerHelloMsg(m.src, y))
         \/ Answer(Error(m.src, HelloVerdict(x, m)))
      /\ UNCHANGED <<conn, wsDown, g_network_shared_key>>
  BY <1>2 DEF TakeHello
<1>4. /\ m.src \in Sensors
      /\ y \in Session
      /\ [sv.list EXCEPT ![sv.at] = y] = <<y>>
      /\ y.device_id = m.src
      /\ y.pwd = x.pwd /\ y.auth_flag = x.auth_flag
      /\ x.addr = m.src
      /\ x.auth_flag => sessions = <<x>>
  BY <1>3, HelloSession
<1>5. auth \in WsUpMsg
  BY <1>4 DEF AuthPwd, DecryptedPwd, Pwd, WsUpMsg, Request
<1>6. HelloVerdict(x, m) = "grant" => x.auth_flag /\ DecryptedPwd(m) = x.pwd
  BY DEF HelloVerdict, Reason
<1> HIDE DEF x, y, auth
<1>7. UNCHANGED <<network_shared_key, registered>>
  BY DEF GatewayStep, sensorVars, serverVars
<1>8. x.auth_flag => x.pwd = m.src /\ m.src \in Valid
  <2>1. ASSUME sessions = <<x>>
        PROVE  1 \in DOMAIN sessions /\ sessions[1] = x
    BY <2>1
  <2> QED BY <1>4, <2>1 DEF AuthInv, SessionBinding, TypeInv, SessionsShape
<1>9. SessionBinding'
  <2>1. DOMAIN sessions' = {1} /\ sessions'[1] = y
    BY <1>3, <1>4
  <2> QED BY <1>4, <1>8, <2>1 DEF SessionBinding
<1>10. HelloInv'
  <2>1. CASE WriteOrError(auth)
    BY <1>3, <1>5, <2>1, WriteAdds DEF AuthInv, HelloInv, TypeInv, TypeOK
  <2>2. CASE HelloVerdict(x, m) = "grant" /\ Answer(ServerHelloMsg(m.src, y))
    <3>1. /\ ServerHelloMsg(m.src, y).pwd \in Valid
          /\ ServerHelloMsg(m.src, y).key = g_network_shared_key
      BY <1>4, <1>6, <1>8, <2>2 DEF ServerHelloMsg
    <3>2. \A d \in down' : d \in down \/ d = ServerHelloMsg(m.src, y)
      BY <2>2, SentElem DEF Answer
    <3>3. g_network_shared_key \in Nat
      BY DEF TypeInv, TypeOK, ProxyTypeOK
    <3> QED BY <1>3, <3>1, <3>2, <3>3 DEF AuthInv, HelloInv
  <2>3. CASE Answer(Error(m.src, HelloVerdict(x, m)))
    <3>1. \A d \in down' : d \in down \/ d.type = "error"
      BY <2>3, SentElem DEF Answer, Error
    <3> QED BY <1>3, <3>1 DEF AuthInv, HelloInv
  <2> QED BY <1>3, <2>1, <2>2, <2>3
<1> QED BY <1>3, <1>7, <1>9, <1>10 DEF AuthInv, ReplyInv, KeySecrecy

\* A datagram of a sensor authenticates nobody.
LEMMA SensorDataAuth ==
  ASSUME TypeInv, AuthInv, HandleSensorData, GatewayStep
  PROVE  AuthInv'
<1>1. PICK m \in up :
        /\ m.type = "data"
        /\ WriteOrError(Forward(m)) \/ Answer(Error(m.src, SessionError(m)))
        /\ UNCHANGED <<conn, wsDown, g_network_shared_key, sessions>>
  BY DEF HandleSensorData
<1>2. Forward(m) \in WsUpMsg
  BY <1>1, UpKinds DEF Forward, SensorData, WsUpMsg, Request, TypeInv, TypeOK, NetTypeOK
<1>3. \A d \in down' : d \in down \/ d.type = "error"
  BY <1>1, <1>2, WriteAdds, SentElem DEF Answer, Error, TypeInv, TypeOK
<1>4. UNCHANGED <<network_shared_key, registered>>
  BY DEF GatewayStep, sensorVars, serverVars
<1>5. HelloInv'
  BY <1>1, <1>3 DEF AuthInv, HelloInv
<1> QED BY <1>1, <1>4, <1>5 DEF AuthInv, ReplyInv, SessionBinding, KeySecrecy

\* A confirmed password is the one of the device the session serves.
LEMMA AuthReplyAuth ==
  ASSUME TypeInv, AuthInv, HandleAuthReply, GatewayStep
  PROVE  AuthInv'
<1> DEFINE r == Head(wsDown)
           y == [sessions[1] EXCEPT !.pwd = r.pwd, !.auth_flag = TRUE]
<1>1. /\ r.method = "auth" /\ FindSession(r.device_id) # {}
      /\ wsDown # <<>> /\ wsDown' = Tail(wsDown)
  BY DEF HandleAuthReply, Answered
<1>2. /\ First(Answered(r.device_id)) = 1
      /\ 1 \in DOMAIN sessions /\ Len(sessions) = 1
      /\ sessions[1] \in Session /\ sessions[1].device_id = r.device_id
  BY <1>1, AnsweredSession DEF TypeInv, TypeOK, Answered
<1>3. /\ r \in WsDownMsg
      /\ 1 \in DOMAIN wsDown /\ r = wsDown[1]
      /\ \A i \in DOMAIN Tail(wsDown) : \E j \in DOMAIN wsDown : Tail(wsDown)[i] = wsDown[j]
  BY <1>1, TailElem DEF TypeInv, TypeOK, NetTypeOK
<1>4. r.result = "ok" => r.pwd = r.device_id /\ r.device_id \in Valid
  BY <1>1, <1>3 DEF AuthInv, ReplyInv
<1>5. y.pwd = r.pwd /\ y.device_id = r.device_id
  BY <1>2, <1>3 DEF Session, WsDownMsg
<1>6. \/ /\ r.result = "ok"
         /\ sessions' = [sessions EXCEPT ![1] = y]
         /\ Answer(ServerHelloMsg(addr, y))
      \/ /\ Answer(Error(addr, "INVALID_PWD"))
         /\ sessions' = sessions
  BY <1>2 DEF HandleAuthReply
<1>7. UNCHANGED <<g_network_shared_key, network_shared_key, registered>>
  BY DEF HandleAuthReply, GatewayStep, sensorVars, serverVars
<1> HIDE DEF r, y
<1>8. SessionBinding'
  <2>1. CASE r.result = "ok" /\ sessions' = [sessions EXCEPT ![1] = y]
    <3>1. DOMAIN sessions' \subseteq {1} /\ sessions'[1] = y
      BY <1>2, <2>1, SessionsDomain DEF TypeInv, TypeOK
    <3> QED BY <1>4, <1>5, <2>1, <3>1 DEF SessionBinding
  <2>2. CASE sessions' = sessions
    BY <2>2 DEF AuthInv, SessionBinding
  <2> QED BY <1>6, <2>1, <2>2
<1>9. HelloInv'
  <2>1. CASE r.result = "ok" /\ Answer(ServerHelloMsg(addr, y))
    <3>1. /\ ServerHelloMsg(addr, y).pwd \in Valid
          /\ ServerHelloMsg(addr, y).key = g_network_shared_key
      BY <1>4, <1>5, <2>1 DEF ServerHelloMsg
    <3>2. \A d \in down' : d \in down \/ d = ServerHelloMsg(addr, y)
      BY <2>1, SentElem DEF Answer
    <3>3. g_network_shared_key \in Nat
      BY DEF TypeInv, TypeOK, ProxyTypeOK
    <3> QED BY <1>7, <3>1, <3>2, <3>3 DEF AuthInv, HelloInv
  <2>2. CASE Answer(Error(addr, "INVALID_PWD"))
    <3>1. \A d \in down' : d \in down \/ d.type = "error"
      BY <2>2, SentElem DEF Answer, Error
    <3> QED BY <1>7, <3>1 DEF AuthInv, HelloInv
  <2> QED BY <1>6, <2>1, <2>2
<1>10. ReplyInv'
  BY <1>1, <1>3, <1>7 DEF AuthInv, ReplyInv
<1> QED BY <1>7, <1>8, <1>9, <1>10 DEF AuthInv, KeySecrecy

\* Nor does an answer to a request that is not AUTH.
LEMMA OtherReplyAuth ==
  ASSUME TypeInv, AuthInv, HandleDataReply \/ HandleOrphanReply, GatewayStep
  PROVE  AuthInv'
<1>1. /\ wsDown # <<>> /\ wsDown' = Tail(wsDown)
      /\ UNCHANGED <<sessions, g_network_shared_key, network_shared_key, registered>>
  BY DEF HandleDataReply, HandleOrphanReply, proxyVars, GatewayStep, sensorVars, serverVars
<1>2. \A i \in DOMAIN Tail(wsDown) : \E j \in DOMAIN wsDown : Tail(wsDown)[i] = wsDown[j]
  BY <1>1, TailElem DEF TypeInv, TypeOK, NetTypeOK
<1>3. \A d \in down' : d \in down \/ d.type = "data"
  BY SentElem DEF HandleDataReply, HandleOrphanReply, Answer
<1>4. ReplyInv'
  BY <1>1, <1>2 DEF AuthInv, ReplyInv
<1>5. HelloInv'
  BY <1>1, <1>3 DEF AuthInv, HelloInv
<1> QED BY <1>1, <1>4, <1>5 DEF AuthInv, SessionBinding, KeySecrecy

\* A handler answers a success only after its checks.
LEMMA FinishReply ==
  ASSUME TypeInv, ReplyInv, NEW c \in running, NEW r \in {"ok", "fail", "KeyError"}, Finish(c, r),
         r = "ok" =>
           /\ c.request.device_id \in Valid
           /\ c.request.method = "auth" => c.request.pwd = c.request.device_id
           /\ c.request.method = "new_device" => c.request.device_id \in registered',
         registered \subseteq registered'
  PROVE  ReplyInv'
<1> DEFINE msg == [method |-> c.request.method, device_id |-> c.request.device_id, result |-> r,
                   pwd |-> IF r = "ok" /\ c.request.method = "auth" THEN c.request.pwd ELSE NoPwd]
<1>1. wsDown' = wsDown \/ (r # "KeyError" /\ wsDown' = Append(wsDown, msg))
  BY DEF Finish
<1>2. wsDown \in Seq(WsDownMsg)
  BY DEF TypeInv, TypeOK, NetTypeOK
<1>3. /\ msg.result = r /\ msg.device_id = c.request.device_id /\ msg.method = c.request.method
      /\ r = "ok" /\ c.request.method = "auth" => msg.pwd = c.request.pwd
  OBVIOUS
<1>4. r # "KeyError" => msg \in WsDownMsg
  BY DEF Request, WsDownMsg, Pwd, TypeInv, TypeOK, ServerTypeOK
<1> HIDE DEF msg
<1>5. \A i \in DOMAIN wsDown' : (i \in DOMAIN wsDown /\ wsDown'[i] = wsDown[i]) \/ wsDown'[i] = msg
  BY <1>1, <1>2, <1>4, AppendElem
<1>6. ASSUME NEW i \in DOMAIN wsDown', wsDown'[i].result = "ok"
      PROVE  /\ wsDown'[i].device_id \in Valid
             /\ wsDown'[i].method = "auth" => wsDown'[i].pwd = wsDown'[i].device_id
             /\ wsDown'[i].method = "new_device" => wsDown'[i].device_id \in registered'
  <2>1. CASE i \in DOMAIN wsDown /\ wsDown'[i] = wsDown[i]
    BY <1>6, <2>1 DEF ReplyInv
  <2>2. CASE wsDown'[i] = msg
    BY <1>3, <1>6, <2>2
  <2> QED BY <1>5, <2>1, <2>2
<1> QED BY <1>6 DEF ReplyInv

\* The server answers AUTH only after its checks, and forgets no registration.
LEMMA ServerAuth ==
  ASSUME TypeInv, AuthInv, ServerNext, ServerStep
  PROVE  AuthInv'
<1>1. UNCHANGED <<sessions, g_network_shared_key, network_shared_key>>
  BY DEF ServerStep, sensorVars, proxyVars
<1>2. down' = down
  BY DEF ServerNext, OpenDone, OnClose, Accept, DropUnparsable, DeviceAuth, DeviceNew,
     DeviceReport, Finish, netVars
<1>3. CASE OpenDone \/ OnClose \/ Accept \/ DropUnparsable
  <2>1. wsDown' = wsDown /\ registered' = registered
    BY <1>3 DEF OpenDone, OnClose, Accept, DropUnparsable, netVars, serverVars
  <2> QED BY <1>1, <1>2, <2>1 DEF AuthInv, ReplyInv, SessionBinding, HelloInv, KeySecrecy
<1>4. CASE DeviceAuth
  <2>1. PICK c \in running : /\ c.request.method = "auth"
                             /\ Finish(c, AuthResult(c.request.device_id, c.request.pwd))
                             /\ UNCHANGED registered
    BY <1>4 DEF DeviceAuth
  <2>2. ReplyInv'
    BY <2>1, ResultTypes, FinishReply DEF AuthInv
  <2> QED BY <1>1, <1>2, <2>2 DEF AuthInv, SessionBinding, HelloInv, KeySecrecy
<1>5. CASE DeviceNew
  <2>1. PICK c \in running :
          /\ c.request.method = "new_device"
          /\ Finish(c, Checked(c.request.device_id))
          /\ registered' = registered \cup {d \in {c.request.device_id} :
                                              Checked(c.request.device_id) = "ok"}
    BY <1>5 DEF DeviceNew
  <2>2. ReplyInv'
    BY <2>1, ResultTypes, FinishReply DEF AuthInv
  <2> QED BY <1>1, <1>2, <2>2 DEF AuthInv, SessionBinding, HelloInv, KeySecrecy
<1>6. CASE DeviceReport
  <2>1. PICK c \in running : /\ c.request.method = "report"
                             /\ Finish(c, ReportResult(c.request.device_id))
                             /\ UNCHANGED registered
    BY <1>6 DEF DeviceReport
  <2>2. ReplyInv'
    BY <2>1, ResultTypes, FinishReply DEF AuthInv
  <2> QED BY <1>1, <1>2, <2>2 DEF AuthInv, SessionBinding, HelloInv, KeySecrecy
<1> QED BY <1>3, <1>4, <1>5, <1>6 DEF ServerNext

\* What the network and a restart lose was true before it was lost.
LEMMA WorldAuth ==
  ASSUME TypeInv, AuthInv,
         \/ Lose /\ UNCHANGED <<sensorVars, proxyVars, serverVars, drops>>
         \/ Connect \/ Break \/ Restart
  PROVE  AuthInv'
<1>1. UNCHANGED <<network_shared_key, registered>> /\ \A d \in down' : d \in down
  BY DEF Lose, Connect, Break, Restart, Broken, sensorVars, serverVars
<1>2. wsDown' = wsDown \/ wsDown' = <<>>
  BY DEF Lose, Connect, Break, Restart, Broken
<1>3. sessions' = sessions \/ sessions' = <<>>
  BY DEF Lose, Connect, Break, Restart, proxyVars
<1>4. g_network_shared_key' = g_network_shared_key
      \/ g_network_shared_key' = g_network_shared_key + 1
  BY DEF Lose, Connect, Break, Restart, proxyVars
<1>5. \A k \in Nat : k <= g_network_shared_key => k <= g_network_shared_key'
  BY <1>4 DEF TypeInv, TypeOK, ProxyTypeOK
<1>6. \A m \in down : m.type = "server_hello" => m.key \in Nat
  BY DownKinds DEF TypeInv, TypeOK, NetTypeOK, ServerHello
<1>7. HelloInv'
  BY <1>1, <1>5, <1>6 DEF AuthInv, HelloInv
<1>8. KeySecrecy'
  BY <1>1, <1>5 DEF AuthInv, KeySecrecy, TypeInv, TypeOK, SensorTypeOK
<1>9. ReplyInv'
  BY <1>1, <1>2 DEF AuthInv, ReplyInv
<1>10. SessionBinding'
  BY <1>3 DEF AuthInv, SessionBinding
<1> QED BY <1>7, <1>8, <1>9, <1>10 DEF AuthInv

\* AuthInv is inductive.
LEMMA AuthStep ==
  ASSUME TypeInv, AuthInv, [Next]_vars
  PROVE  AuthInv'
<1>1. CASE UNCHANGED vars
  BY <1>1 DEF vars, netVars, sensorVars, proxyVars, serverVars, AuthInv, ReplyInv,
     SessionBinding, HelloInv, KeySecrecy
<1>2. CASE Next
  BY <1>2, NextCases, SensorAuth, ClientHelloAuth, SensorDataAuth, AuthReplyAuth,
     OtherReplyAuth, ServerAuth, WorldAuth
<1> QED BY <1>1, <1>2

\* It holds at the start.
LEMMA AuthInit ==
  ASSUME Init
  PROVE  AuthInv
BY DEF Init, NetInit, SensorInit, ProxyInit, NoKey, AuthInv, ReplyInv, SessionBinding,
   HelloInv, KeySecrecy

\* AuthInv, and what it rests on, always hold.
LEMMA AuthCorrect == Spec => [](TypeInv /\ RunningLive /\ AuthInv)
<1>1. Init => TypeInv /\ RunningLive /\ AuthInv
  BY TypeInit, AuthInit
<1>2. TypeInv /\ RunningLive /\ AuthInv /\ [Next]_vars
        => TypeInv' /\ RunningLive' /\ AuthInv'
  BY TypeStep, LiveStep, AuthStep
<1> QED BY <1>1, <1>2, PTL DEF Spec

\* However many starts of the gateway, and whatever the network does to the messages, a
\* device the owner did not add never holds a network key.
THEOREM KeysAreSecret == Spec => []KeySecrecy
<1>1. AuthInv => KeySecrecy
  BY DEF AuthInv
<1> QED BY <1>1, AuthCorrect, PTL

\* The gateway takes for authenticated only the device whose password the server
\* confirmed.
THEOREM SessionsAreBound == Spec => []SessionBinding
<1>1. AuthInv => SessionBinding
  BY DEF AuthInv
<1> QED BY <1>1, AuthCorrect, PTL

-----------------------------------------------------------------------------
\* Registration.

\* A confirmation under way to the sensors names a registered device.
AnswerInv == \A m \in down :
  m.type = "data" /\ m.method = "new_device" /\ m.result = "ok" => m.device_id \in registered

RegInv == AnswerInv /\ RegistrationSound /\ ReportsLand

\* A sensor believes what names it, and reports only what it believes.
LEMMA SensorReg ==
  ASSUME TypeInv, RegInv, NEW s \in Sensors, SensorNext(s), SensorStep
  PROVE  RegInv'
<1>1. UNCHANGED <<registered, running>>
  BY DEF SensorStep, serverVars
<1>2. wsUp' = wsUp
  BY DEF SensorNext, Timer, RecvServerHello, RecvError, RecvData, Reboot, netVars
<1>3. \A x \in down' : x \in down
  BY DeliveredElem
     DEF SensorNext, Timer, RecvServerHello, RecvError, RecvData, Reboot, netVars
<1>4. RegistrationSound'
  <2>1. CASE RecvData(s)
    <3>1. PICK m \in down :
            /\ m.type = "data"
            /\ reg_success' = [reg_success EXCEPT
                 ![s] = @ \/ (ForMe(s, m) /\ m.method = "new_device" /\ m.result = "ok")]
      BY <2>1 DEF RecvData
    <3>2. ForMe(s, m) /\ m.method = "new_device" /\ m.result = "ok" => s \in registered
      BY <3>1 DEF ForMe, RegInv, AnswerInv
    <3> QED BY <1>1, <3>1, <3>2 DEF RegInv, RegistrationSound, TypeInv, TypeOK, SensorTypeOK
  <2>2. CASE Reboot(s)
    BY <1>1, <2>2 DEF Reboot, RegInv, RegistrationSound, TypeInv, TypeOK, SensorTypeOK
  <2>3. CASE Timer(s) \/ RecvServerHello(s) \/ RecvError(s)
    BY <1>1, <2>3 DEF Timer, RecvServerHello, RecvError, sensorVars, RegInv, RegistrationSound
  <2> QED BY <2>1, <2>2, <2>3 DEF SensorNext
<1>5. \A x \in up' : x \in up \/ (x.type = "data" /\ x.method = "report" => x.src \in registered)
  <2>1. CASE Timer(s)
    <3>1. TimerMsg(s).type = "data" /\ TimerMsg(s).method = "report" =>
            reg_success[s] /\ TimerMsg(s).src = s
      BY DEF TimerMsg, Hello, Data, TypeInv, TypeOK, SensorTypeOK
    <3> QED BY <2>1, <3>1, SentElem DEF Timer, RegInv, RegistrationSound
  <2>2. CASE ~Timer(s)
    BY <2>2 DEF SensorNext, RecvServerHello, RecvError, RecvData, Reboot, netVars
  <2> QED BY <2>1, <2>2
<1>6. ReportsLand'
  BY <1>1, <1>2, <1>5 DEF RegInv, ReportsLand
<1> QED BY <1>1, <1>3, <1>4, <1>6 DEF RegInv, AnswerInv

\* A server hello or an error that is sent adds no data.
LEMMA HandshakeAnswers ==
  ASSUME \/ \E a, z : down' = Sent(down, ServerHelloMsg(a, z))
         \/ \E a, z : down' = Sent(down, Error(a, z))
  PROVE  \A x \in down' : x \in down \/ x.type # "data"
<1>1. \A a, z : ServerHelloMsg(a, z).type # "data"
  BY DEF ServerHelloMsg
<1>2. \A a, z : Error(a, z).type # "data"
  BY DEF Error
<1>3. CASE \E a, z : down' = Sent(down, ServerHelloMsg(a, z))
  <2>1. PICK a, z : down' = Sent(down, ServerHelloMsg(a, z))
    BY <1>3
  <2> QED BY <1>1, <2>1, SentElem
<1>4. CASE \E a, z : down' = Sent(down, Error(a, z))
  <2>1. PICK a, z : down' = Sent(down, Error(a, z))
    BY <1>4
  <2> QED BY <1>2, <2>1, SentElem
<1> QED BY <1>3, <1>4

\* The gateway passes a report on as it came.
LEMMA GatewayReg ==
  ASSUME TypeInv, ReplyInv, RegInv, GatewayStep,
         \/ HandleClientHello \/ HandleSensorData
         \/ HandleAuthReply \/ HandleDataReply \/ HandleOrphanReply
  PROVE  RegInv'
<1>1. UNCHANGED <<registered, running, reg_success>>
  BY DEF GatewayStep, serverVars, sensorVars
<1>2. \A x \in up' : x \in up
  BY DeliveredElem DEF HandleClientHello, TakeHello, HandleSensorData, HandleAuthReply,
     HandleDataReply, HandleOrphanReply
<1>3. \A i \in DOMAIN wsUp' :
        \/ \E j \in DOMAIN wsUp : wsUp'[i] = wsUp[j]
        \/ wsUp'[i].method = "report" => wsUp'[i].device_id \in registered
  <2>1. CASE HandleClientHello
    <3>1. PICK m \in up : \E sv \in Served(m.src) : TakeHello(m, sv)
      BY <2>1 DEF HandleClientHello
    <3> DEFINE auth == [method |-> "auth", device_id |-> m.src, pwd |-> AuthPwd(m)]
    <3>2. WriteOrError(auth) \/ wsUp' = wsUp
      BY <3>1 DEF TakeHello, Answer
    <3>3. m.src \in Sensors
      BY UpKinds DEF TypeInv, TypeOK, NetTypeOK
    <3>4. auth \in WsUpMsg /\ auth.method # "report"
      BY <3>3 DEF AuthPwd, DecryptedPwd, Pwd, WsUpMsg, Request
    <3> HIDE DEF auth
    <3> QED BY <3>2, <3>4, WriteAdds DEF TypeInv, TypeOK
  <2>2. CASE HandleSensorData
    <3>1. PICK m \in up : m.type = "data" /\ (WriteOrError(Forward(m)) \/ wsUp' = wsUp)
      BY <2>2 DEF HandleSensorData, Answer
    <3>2. Forward(m) \in WsUpMsg
      BY <3>1, UpKinds DEF Forward, SensorData, WsUpMsg, Request, TypeInv, TypeOK, NetTypeOK
    <3>3. Forward(m).method = "report" =>
            m.method = "report" /\ Forward(m).device_id = m.src
      BY DEF Forward
    <3>4. Forward(m).method = "report" => Forward(m).device_id \in registered
      BY <3>1, <3>3 DEF RegInv, ReportsLand
    <3> QED BY <3>1, <3>2, <3>4, WriteAdds DEF TypeInv, TypeOK
  <2>3. CASE HandleOrphanReply
    <3> DEFINE msg == [method |-> "connect_error", device_id |-> Head(wsDown).device_id]
    <3>1. wsUp' = wsUp \/ wsUp' = Append(wsUp, msg)
      BY <2>3 DEF HandleOrphanReply
    <3>2. msg \in WsUpMsg /\ msg.method # "report"
      BY <2>3, ReplyTypes DEF HandleOrphanReply, WsDownMsg, WsUpMsg, TypeInv, TypeOK
    <3>3. wsUp \in Seq(WsUpMsg)
      BY DEF TypeInv, TypeOK, NetTypeOK
    <3> HIDE DEF msg
    <3> QED BY <3>1, <3>2, <3>3, AppendElem
  <2>4. CASE HandleAuthReply \/ HandleDataReply
    BY <2>4 DEF HandleAuthReply, HandleDataReply, Answer
  <2> QED BY <2>1, <2>2, <2>3, <2>4
<1>4. \A x \in down' :
        x \in down \/ (x.type = "data" /\ x.method = "new_device" /\ x.result = "ok"
                       => x.device_id \in registered)
  <2>1. CASE HandleDataReply
    <3> DEFINE r == Head(wsDown)
               msg == [type |-> "data", dst |-> addr, key |-> g_network_shared_key,
                       device_id |-> r.device_id, method |-> r.method, result |-> r.result]
    <3>1. wsDown # <<>> /\ down' = Sent(down, msg)
      BY <2>1 DEF HandleDataReply, Answer
    <3>2. 1 \in DOMAIN wsDown /\ r = wsDown[1]
      BY <3>1, TailElem DEF TypeInv, TypeOK, NetTypeOK
    <3>3. msg.method = "new_device" /\ msg.result = "ok" => msg.device_id \in registered
      BY <3>2 DEF ReplyInv
    <3> HIDE DEF msg
    <3> QED BY <3>1, <3>3, SentElem
  <2>2. CASE HandleClientHello
    <3>1. PICK m \in up : \E sv \in Served(m.src) : TakeHello(m, sv)
      BY <2>2 DEF HandleClientHello
    <3> DEFINE auth == [method |-> "auth", device_id |-> m.src, pwd |-> AuthPwd(m)]
    <3>2. \/ WriteOrError(auth)
          \/ \E a, z : down' = Sent(down, ServerHelloMsg(a, z))
          \/ \E a, z : down' = Sent(down, Error(a, z))
      BY <3>1 DEF TakeHello, Answer
    <3>3. m.src \in Sensors
      BY UpKinds DEF TypeInv, TypeOK, NetTypeOK
    <3>4. auth \in WsUpMsg
      BY <3>3 DEF AuthPwd, DecryptedPwd, Pwd, WsUpMsg, Request
    <3> HIDE DEF auth
    <3>5. CASE WriteOrError(auth)
      <4>1. \A x \in down' : x \in down \/ x.type = "error"
        BY <3>4, <3>5, WriteAdds DEF TypeInv, TypeOK
      <4> QED BY <4>1
    <3>6. CASE ~WriteOrError(auth)
      BY <3>2, <3>6, HandshakeAnswers
    <3> QED BY <3>5, <3>6
  <2>3. CASE HandleSensorData
    <3>1. PICK m \in up :
            m.type = "data" /\ (WriteOrError(Forward(m)) \/ Answer(Error(m.src, SessionError(m))))
      BY <2>3 DEF HandleSensorData
    <3>2. Forward(m) \in WsUpMsg
      BY <3>1, UpKinds DEF Forward, SensorData, WsUpMsg, Request, TypeInv, TypeOK, NetTypeOK
    <3> QED BY <3>1, <3>2, WriteAdds, SentElem DEF Answer, Error, TypeInv, TypeOK
  <2>4. CASE HandleAuthReply
    <3>1. \/ \E a, z : down' = Sent(down, ServerHelloMsg(a, z))
          \/ \E a, z : down' = Sent(down, Error(a, z))
      BY <2>4 DEF HandleAuthReply, Answer
    <3> QED BY <3>1, HandshakeAnswers
  <2>5. CASE HandleOrphanReply
    BY <2>5 DEF HandleOrphanReply
  <2> QED BY <2>1, <2>2, <2>3, <2>4, <2>5
<1>5. ReportsLand'
  BY <1>1, <1>2, <1>3 DEF RegInv, ReportsLand
<1>6. AnswerInv'
  BY <1>1, <1>4 DEF RegInv, AnswerInv
<1> QED BY <1>1, <1>5, <1>6 DEF RegInv, RegistrationSound
\* The server takes requests off the websocket as they came, and forgets nobody.
LEMMA ServerReg ==
  ASSUME TypeInv, RegInv, ServerNext, ServerStep
  PROVE  RegInv'
<1>1. UNCHANGED <<reg_success, up, down>>
  BY DEF ServerStep, sensorVars, ServerNext, OpenDone, OnClose, Accept, DropUnparsable,
     DeviceAuth, DeviceNew, DeviceReport, Finish, netVars
<1>2. registered \subseteq registered'
  BY DEF ServerNext, OpenDone, OnClose, Accept, DropUnparsable, DeviceAuth, DeviceNew,
     DeviceReport, serverVars
<1>3. wsUp' = wsUp \/ (wsUp # <<>> /\ wsUp' = Tail(wsUp))
  BY DEF ServerNext, OpenDone, OnClose, Accept, DropUnparsable, DeviceAuth, DeviceNew,
     DeviceReport, Finish, netVars
<1>4. \A i \in DOMAIN wsUp' : \E j \in DOMAIN wsUp : wsUp'[i] = wsUp[j]
  BY <1>3, TailElem DEF TypeInv, TypeOK, NetTypeOK
<1>5. \A c \in running' :
        c \in running \/ \E j \in DOMAIN wsUp : c.request = wsUp[j]
  <2>1. CASE Accept
    <3>1. /\ wsUp # <<>>
          /\ running' = running \cup {[request |-> Head(wsUp), open |-> TRUE]}
      BY <2>1 DEF Accept
    <3>2. 1 \in DOMAIN wsUp /\ Head(wsUp) = wsUp[1]
      BY <3>1, TailElem DEF TypeInv, TypeOK, NetTypeOK
    <3> QED BY <3>1, <3>2
  <2>2. CASE ~Accept
    BY <2>2 DEF ServerNext, OpenDone, OnClose, DropUnparsable, DeviceAuth, DeviceNew,
       DeviceReport, Finish, serverVars
  <2> QED BY <2>1, <2>2
<1>6. ReportsLand'
  <2>1. \A m \in up' : m.type = "data" /\ m.method = "report" => m.src \in registered'
    BY <1>1, <1>2 DEF RegInv, ReportsLand
  <2>2. \A i \in DOMAIN wsUp' :
          wsUp'[i].method = "report" => wsUp'[i].device_id \in registered'
    BY <1>2, <1>4 DEF RegInv, ReportsLand
  <2>3. \A c \in running' :
          c.request.method = "report" => c.request.device_id \in registered'
    BY <1>2, <1>5 DEF RegInv, ReportsLand
  <2> QED BY <2>1, <2>2, <2>3 DEF ReportsLand
<1> QED BY <1>1, <1>2, <1>6 DEF RegInv, AnswerInv, RegistrationSound

\* Losing messages, connections or the gateway's memory confirms nothing.
LEMMA WorldReg ==
  ASSUME TypeInv, RegInv,
         \/ Lose /\ UNCHANGED <<sensorVars, proxyVars, serverVars, drops>>
         \/ Connect \/ Break \/ Restart
  PROVE  RegInv'
<1>1. UNCHANGED <<reg_success, registered>>
  BY DEF Lose, Connect, Break, Restart, Broken, sensorVars, serverVars
<1>2. (\A m \in up' : m \in up) /\ (\A m \in down' : m \in down)
  BY DEF Lose, Connect, Break, Restart, Broken
<1>3. wsUp' = wsUp \/ wsUp' = <<>>
  BY DEF Lose, Connect, Break, Restart, Broken
<1>4. \A c \in running' : \E d \in running : c.request = d.request
  <2>1. CASE running' = running
    BY <2>1
  <2>2. CASE running' = {[c EXCEPT !.open = FALSE] : c \in running}
    BY <2>2 DEF TypeInv, TypeOK, ServerTypeOK
  <2> QED BY <2>1, <2>2 DEF Lose, Connect, Break, Restart, Broken, serverVars
<1>5. ReportsLand'
  <2>1. \A i \in DOMAIN wsUp' :
          wsUp'[i].method = "report" => wsUp'[i].device_id \in registered
    BY <1>3 DEF RegInv, ReportsLand
  <2> QED BY <1>1, <1>2, <1>4, <2>1 DEF RegInv, ReportsLand
<1> QED BY <1>1, <1>2, <1>5 DEF RegInv, AnswerInv, RegistrationSound

\* RegInv is inductive, given what the answers of the server say.
LEMMA RegStep ==
  ASSUME TypeInv, ReplyInv, RegInv, [Next]_vars
  PROVE  RegInv'
<1>1. CASE UNCHANGED vars
  BY <1>1 DEF vars, netVars, sensorVars, proxyVars, serverVars, RegInv, AnswerInv,
     RegistrationSound, ReportsLand
<1>2. CASE Next
  BY <1>2, NextCases, SensorReg, GatewayReg, ServerReg, WorldReg
<1> QED BY <1>1, <1>2

\* No confirmation and no report is under way at the start.
LEMMA RegInit ==
  ASSUME Init
  PROVE  RegInv
BY DEF Init, NetInit, SensorInit, ServerInit, RegInv, AnswerInv, RegistrationSound,
   ReportsLand

\* RegInv, and what it rests on, always hold.
LEMMA RegCorrect == Spec => [](TypeInv /\ AuthInv /\ RegInv)
<1>1. Init => RegInv
  BY RegInit
<1>2. TypeInv /\ AuthInv /\ RegInv /\ [Next]_vars => RegInv'
  BY RegStep DEF AuthInv
<1> QED BY <1>1, <1>2, AuthCorrect, PTL DEF Spec

\* A sensor that believes it is registered is.
THEOREM RegistrationIsSound == Spec => []RegistrationSound
<1>1. RegInv => RegistrationSound
  BY DEF RegInv
<1> QED BY <1>1, RegCorrect, PTL

\* No report on its way, at any stage, comes from a device that is not registered.
THEOREM ReportsAlwaysLand == Spec => []ReportsLand
<1>1. RegInv => ReportsLand
  BY DEF RegInv
<1> QED BY <1>1, RegCorrect, PTL

-----------------------------------------------------------------------------
\* The refinement.

\* What the protocol's state is to the join service.
Held == [s \in Sensors |-> network_shared_key[s].key]
Confirmed == {s \in Sensors : reg_success[s]}

\* The four things the join service sees.
LEMMA JoinView ==
  ASSUME UNCHANGED <<g_network_shared_key, Held, registered, Confirmed>>
  PROVE  UNCHANGED Join!joinVars
BY DEF Join!joinVars, Held, Confirmed

\* The protocol starts as the service does.
LEMMA JoinInitMap ==
  ASSUME Init
  PROVE  Join!JoinInit
BY DEF Init, SensorInit, ProxyInit, ServerInit, NoKey, Junk, Join!JoinInit

\* A sensor gains a key it may have, or only junk; it believes what is on record.
LEMMA SensorJoin ==
  ASSUME TypeInv, AuthInv, RegInv, NEW s \in Sensors, SensorNext(s), SensorStep
  PROVE  Join!JoinNext \/ UNCHANGED Join!joinVars
<1>1. UNCHANGED <<g_network_shared_key, registered>>
  BY DEF SensorStep, proxyVars, serverVars
<1>2. CASE RecvServerHello(s)
  <2>1. PICK m \in down :
          /\ m.type = "server_hello"
          /\ network_shared_key' = [network_shared_key EXCEPT
               ![s] = [used |-> TRUE, version |-> CurrentKeyVersion, key |-> HelloKey(s, m)]]
    BY <1>2 DEF RecvServerHello
  <2>2. Held' = [Held EXCEPT ![s] = HelloKey(s, m)]
    BY <2>1 DEF Held, TypeInv, TypeOK, SensorTypeOK
  <2>3. Confirmed' = Confirmed
    BY <1>2 DEF RecvServerHello, Confirmed
  <2>4. CASE HelloKey(s, m) = 0
    <3>1. Join!Forget(s)
      BY <1>1, <2>2, <2>3, <2>4 DEF Join!Forget, Held, Confirmed
    <3> QED BY <3>1 DEF Join!JoinNext
  <2>5. CASE HelloKey(s, m) # 0
    <3>1. s \in Valid /\ HelloKey(s, m) = m.key
      BY <2>1, <2>5 DEF HelloKey, Junk, AuthInv, HelloInv
    <3>2. m.key \in 1..g_network_shared_key
      BY <2>1, <2>5, <3>1, DownKinds
         DEF AuthInv, HelloInv, ServerHello, TypeInv, TypeOK, NetTypeOK, ProxyTypeOK
    <3>3. Join!Grant(s)
      BY <1>1, <2>2, <2>3, <3>1, <3>2 DEF Join!Grant, Held, Confirmed
    <3> QED BY <3>3 DEF Join!JoinNext
  <2> QED BY <2>4, <2>5
<1>3. CASE RecvError(s)
  <2>1. PICK b \in BOOLEAN :
          network_shared_key' = [network_shared_key EXCEPT ![s].used = b]
    BY <1>3 DEF RecvError, TypeInv, TypeOK, SensorTypeOK
  <2>2. Held' = Held
    BY <2>1 DEF Held, TypeInv, TypeOK, SensorTypeOK
  <2>3. Confirmed' = Confirmed
    BY <1>3 DEF RecvError, Confirmed
  <2> QED BY <1>1, <2>2, <2>3, JoinView
<1>4. CASE RecvData(s)
  <2>1. Held' = Held
    BY <1>4 DEF RecvData, Held
  <2>2. reg_success' = reg_success \/ reg_success' = [reg_success EXCEPT ![s] = TRUE]
    <3>1. PICK b \in BOOLEAN : reg_success' = [reg_success EXCEPT ![s] = @ \/ b]
      BY <1>4 DEF RecvData
    <3>2. reg_success \in [Sensors -> BOOLEAN]
      BY DEF TypeInv, TypeOK, SensorTypeOK
    <3>3. CASE b
      BY <3>1, <3>2, <3>3
    <3>4. CASE ~b
      BY <3>1, <3>2, <3>4
    <3> QED BY <3>3, <3>4
  <2>3. CASE reg_success' = reg_success
    BY <1>1, <2>1, <2>3, JoinView DEF Confirmed
  <2>4. CASE reg_success' = [reg_success EXCEPT ![s] = TRUE]
    <3>1. s \in registered
      BY <1>1, <2>4, SensorReg DEF RegInv, RegistrationSound, TypeInv, TypeOK, SensorTypeOK
    <3>2. Confirmed' = Confirmed \cup {s}
      BY <2>4 DEF Confirmed, TypeInv, TypeOK, SensorTypeOK
    <3>3. Join!Confirm(s)
      BY <1>1, <2>1, <3>1, <3>2 DEF Join!Confirm, Held, Confirmed
    <3> QED BY <3>3 DEF Join!JoinNext
  <2> QED BY <2>2, <2>3, <2>4
<1>5. CASE Reboot(s)
  <2>1. Held' = [Held EXCEPT ![s] = 0]
    BY <1>5 DEF Reboot, Held, NoKey, Junk, TypeInv, TypeOK, SensorTypeOK
  <2>2. Confirmed' = Confirmed \ {s}
    BY <1>5 DEF Reboot, Confirmed, TypeInv, TypeOK, SensorTypeOK
  <2>3. Join!Forget(s)
    BY <1>1, <2>1, <2>2 DEF Join!Forget, Held, Confirmed
  <2> QED BY <2>3 DEF Join!JoinNext
<1>6. CASE Timer(s)
  BY <1>1, <1>6, JoinView DEF Timer, sensorVars, Held, Confirmed
<1> QED BY <1>2, <1>3, <1>4, <1>5, <1>6 DEF SensorNext

\* The server enrols the owner's devices only.
LEMMA ServerJoin ==
  ASSUME ServerNext, ServerStep
  PROVE  Join!JoinNext \/ UNCHANGED Join!joinVars
<1>1. UNCHANGED <<g_network_shared_key, Held, Confirmed>>
  BY DEF ServerStep, proxyVars, sensorVars, Held, Confirmed
<1>2. CASE DeviceNew
  <2>1. PICK c \in running :
          registered' = registered \cup {d \in {c.request.device_id} :
                                           Checked(c.request.device_id) = "ok"}
    BY <1>2 DEF DeviceNew
  <2>2. CASE Checked(c.request.device_id) = "ok"
    <3>1. c.request.device_id \in Valid
      BY <2>2 DEF Checked
    <3>2. registered' = registered \cup {c.request.device_id}
      BY <2>1, <2>2
    <3>3. c.request.device_id \in Sensors
      BY <3>1, SensorsAssumption
    <3>4. Join!Enrol(c.request.device_id)
      BY <1>1, <3>1, <3>2 DEF Join!Enrol, Held, Confirmed
    <3> QED BY <3>3, <3>4 DEF Join!JoinNext
  <2>3. CASE Checked(c.request.device_id) # "ok"
    BY <1>1, <2>1, <2>3, JoinView
  <2> QED BY <2>2, <2>3
<1>3. CASE ~DeviceNew
  <2>1. registered' = registered
    BY <1>3 DEF ServerNext, OpenDone, OnClose, Accept, DropUnparsable, DeviceAuth,
       DeviceReport, serverVars
  <2> QED BY <1>1, <2>1, JoinView
<1> QED BY <1>2, <1>3

\* A restart of the gateway is a new key.
LEMMA WorldJoin ==
  ASSUME \/ Lose /\ UNCHANGED <<sensorVars, proxyVars, serverVars, drops>>
         \/ Connect \/ Break \/ Restart
  PROVE  Join!JoinNext \/ UNCHANGED Join!joinVars
<1>1. UNCHANGED <<Held, registered, Confirmed>>
  BY DEF Lose, Connect, Break, Restart, Broken, sensorVars, serverVars, Held, Confirmed
<1>2. CASE Restart
  <2>1. Join!NewKey
    BY <1>1, <1>2 DEF Restart, Join!NewKey, Held, Confirmed
  <2> QED BY <2>1 DEF Join!JoinNext
<1>3. CASE ~Restart
  <2>1. g_network_shared_key' = g_network_shared_key
    BY <1>3 DEF Lose, Connect, Break, proxyVars
  <2> QED BY <1>1, <2>1, JoinView
<1> QED BY <1>2, <1>3

\* Every step of the protocol is a step of the service or a stutter.
LEMMA JoinStepMap ==
  ASSUME TypeInv, AuthInv, RegInv, [Next]_vars
  PROVE  [Join!JoinNext]_(Join!joinVars)
<1>1. CASE UNCHANGED vars
  BY <1>1, JoinView DEF vars, sensorVars, proxyVars, serverVars, Held, Confirmed
<1>2. ASSUME GatewayStep,
             \/ HandleClientHello \/ HandleSensorData
             \/ HandleAuthReply \/ HandleDataReply \/ HandleOrphanReply
      PROVE  UNCHANGED Join!joinVars
  <2>1. UNCHANGED <<Held, registered, Confirmed>>
    BY <1>2 DEF GatewayStep, sensorVars, serverVars, Held, Confirmed
  <2>2. g_network_shared_key' = g_network_shared_key
    BY <1>2 DEF HandleClientHello, TakeHello, HandleSensorData, HandleAuthReply,
       HandleDataReply, HandleOrphanReply, proxyVars
  <2> QED BY <2>1, <2>2, JoinView
<1>3. CASE Next
  BY <1>2, <1>3, NextCases, SensorJoin, ServerJoin, WorldJoin
<1> QED BY <1>1, <1>3

\* The protocol implements the join service, for any number of devices, restarts and
\* losses.
THEOREM ProtocolImplementsJoin == Spec => ImplementsJoin
<1>1. Init => Join!JoinInit
  BY JoinInitMap
<1>2. TypeInv /\ AuthInv /\ RegInv /\ [Next]_vars => [Join!JoinNext]_(Join!joinVars)
  BY JoinStepMap
<1> QED BY <1>1, <1>2, RegCorrect, PTL DEF Spec, ImplementsJoin, Join!JoinSpec

-----------------------------------------------------------------------------
\* Who gets past the handshake.

\* Data comes from the owner's devices, server hellos go to them, and while a stranger
\* is the source of the last datagram the session of the list is the stranger's.
JoinerInv ==
  /\ OnlyMembersJoin
  /\ \A m \in up : m.type = "data" => m.src \in Valid
  /\ \A m \in down : m.type = "server_hello" => m.dst \in Valid
  /\ \A i \in DOMAIN sessions : addr \in Valid \/ sessions[i].device_id = addr

\* A sensor joins by a server hello, and sends data when it has joined.
LEMMA SensorJoiner ==
  ASSUME TypeInv, JoinerInv, NEW s \in Sensors, SensorNext(s), SensorStep
  PROVE  JoinerInv'
<1>1. UNCHANGED <<sessions, addr>>
  BY DEF SensorStep, proxyVars
<1>2. \A x \in down' : x \in down
  BY DeliveredElem
     DEF SensorNext, Timer, RecvServerHello, RecvError, RecvData, Reboot, netVars
<1>3. OnlyMembersJoin'
  <2>1. CASE RecvServerHello(s)
    <3>1. s \in Valid
      BY <2>1 DEF RecvServerHello, JoinerInv
    <3> QED BY <2>1, <3>1
            DEF RecvServerHello, JoinerInv, OnlyMembersJoin, TypeInv, TypeOK, SensorTypeOK
  <2>2. CASE RecvError(s) \/ Reboot(s)
    BY <2>2 DEF RecvError, Reboot, JoinerInv, OnlyMembersJoin, TypeInv, TypeOK, SensorTypeOK
  <2>3. CASE Timer(s) \/ RecvData(s)
    BY <2>3 DEF Timer, RecvData, sensorVars, JoinerInv, OnlyMembersJoin
  <2> QED BY <2>1, <2>2, <2>3 DEF SensorNext
<1>4. \A x \in up' : x \in up \/ (x.type = "data" => x.src \in Valid)
  <2>1. CASE Timer(s)
    <3>1. TimerMsg(s).type = "data" => auth_success[s] /\ TimerMsg(s).src = s
      BY DEF TimerMsg, Hello, Data, TypeInv, TypeOK, SensorTypeOK
    <3> QED BY <2>1, <3>1, SentElem DEF Timer, JoinerInv, OnlyMembersJoin
  <2>2. CASE ~Timer(s)
    BY <2>2 DEF SensorNext, RecvServerHello, RecvError, RecvData, Reboot, netVars
  <2> QED BY <2>1, <2>2
<1> QED BY <1>1, <1>2, <1>3, <1>4 DEF JoinerInv

\* A hello makes the session its sender's; a grant goes to a member.
LEMMA ClientHelloJoiner ==
  ASSUME TypeInv, AuthInv, JoinerInv, HandleClientHello, GatewayStep
  PROVE  JoinerInv'
<1>1. PICK m \in up : \E sv \in Served(m.src) : TakeHello(m, sv)
  BY DEF HandleClientHello
<1>2. PICK sv \in Served(m.src) : TakeHello(m, sv)
  BY <1>1
<1> DEFINE x == sv.list[sv.at]
           y == [x EXCEPT !.device_id = m.src, !.random = KeptRandom(x, m)]
           auth == [method |-> "auth", device_id |-> m.src, pwd |-> AuthPwd(m)]
<1>3. /\ m.type = "client_hello"
      /\ up' \in Delivered(up, m)
      /\ addr' = m.src
      /\ sessions' = [sv.list EXCEPT ![sv.at] = y]
      /\ \/ WriteOrError(auth)
         \/ HelloVerdict(x, m) = "grant" /\ Answer(ServerHelloMsg(m.src, y))
         \/ Answer(Error(m.src, HelloVerdict(x, m)))
  BY <1>2 DEF TakeHello
<1>4. /\ m.src \in Sensors
      /\ [sv.list EXCEPT ![sv.at] = y] = <<y>>
      /\ y.device_id = m.src
      /\ x.addr = m.src
      /\ x.auth_flag => sessions = <<x>>
  BY <1>3, HelloSession
<1>5. auth \in WsUpMsg
  BY <1>4 DEF AuthPwd, DecryptedPwd, Pwd, WsUpMsg, Request
<1>6. HelloVerdict(x, m) = "grant" => x.auth_flag
  BY DEF HelloVerdict, Reason
<1> HIDE DEF x, y, auth
<1>7. x.auth_flag => m.src \in Valid
  <2>1. ASSUME sessions = <<x>>
        PROVE  1 \in DOMAIN sessions /\ sessions[1] = x
    BY <2>1
  <2> QED BY <1>4, <2>1 DEF AuthInv, SessionBinding, TypeInv, SessionsShape
<1>8. \A i \in DOMAIN sessions' : sessions'[i].device_id = addr'
  <2>1. DOMAIN sessions' = {1} /\ sessions'[1] = y
    BY <1>3, <1>4
  <2> QED BY <1>3, <1>4, <2>1
<1>9. \A d \in down' : d \in down \/ (d.type = "server_hello" => d.dst \in Valid)
  <2>1. CASE WriteOrError(auth)
    BY <1>5, <2>1, WriteAdds DEF TypeInv, TypeOK
  <2>2. CASE HelloVerdict(x, m) = "grant" /\ Answer(ServerHelloMsg(m.src, y))
    <3>1. ServerHelloMsg(m.src, y).dst \in Valid
      BY <1>6, <1>7, <2>2 DEF ServerHelloMsg
    <3> QED BY <2>2, <3>1, SentElem DEF Answer
  <2>3. CASE Answer(Error(m.src, HelloVerdict(x, m)))
    BY <2>3, SentElem DEF Answer, Error
  <2> QED BY <1>3, <2>1, <2>2, <2>3
<1>10. \A u \in up' : u \in up
  BY <1>3, DeliveredElem
<1>11. auth_success' = auth_success
  BY DEF GatewayStep, sensorVars
<1> QED BY <1>8, <1>9, <1>10, <1>11 DEF JoinerInv, OnlyMembersJoin

\* Data has a member for its source; the error it may get is no server hello.
LEMMA SensorDataJoiner ==
  ASSUME TypeInv, JoinerInv, HandleSensorData, GatewayStep
  PROVE  JoinerInv'
<1>1. PICK m \in up :
        /\ m.type = "data"
        /\ up' \in Delivered(up, m)
        /\ addr' = m.src
        /\ WriteOrError(Forward(m)) \/ Answer(Error(m.src, SessionError(m)))
        /\ UNCHANGED sessions
  BY DEF HandleSensorData
<1>2. Forward(m) \in WsUpMsg
  BY <1>1, UpKinds DEF Forward, SensorData, WsUpMsg, Request, TypeInv, TypeOK, NetTypeOK
<1>3. \A d \in down' : d \in down \/ d.type = "error"
  BY <1>1, <1>2, WriteAdds, SentElem DEF Answer, Error, TypeInv, TypeOK
<1>4. addr' \in Valid /\ \A u \in up' : u \in up
  BY <1>1, DeliveredElem DEF JoinerInv
<1>5. auth_success' = auth_success
  BY DEF GatewayStep, sensorVars
<1> QED BY <1>1, <1>3, <1>4, <1>5 DEF JoinerInv, OnlyMembersJoin

\* The server hello after an answer of the server goes to a member: if not to the one
\* it is for, then to another, for a stranger would have replaced the session.
LEMMA AuthReplyJoiner ==
  ASSUME TypeInv, AuthInv, JoinerInv, HandleAuthReply, GatewayStep
  PROVE  JoinerInv'
<1> DEFINE r == Head(wsDown)
           y == [sessions[1] EXCEPT !.pwd = r.pwd, !.auth_flag = TRUE]
<1>1. /\ r.method = "auth" /\ FindSession(r.device_id) # {}
      /\ wsDown # <<>> /\ UNCHANGED <<up, addr>>
  BY DEF HandleAuthReply, Answered
<1>2. /\ First(Answered(r.device_id)) = 1
      /\ 1 \in DOMAIN sessions
      /\ sessions[1] \in Session /\ sessions[1].device_id = r.device_id
  BY <1>1, AnsweredSession DEF TypeInv, TypeOK, Answered
<1>3. 1 \in DOMAIN wsDown /\ r = wsDown[1]
  BY <1>1, TailElem DEF TypeInv, TypeOK, NetTypeOK
<1>4. r.result = "ok" => r.device_id \in Valid
  BY <1>3 DEF AuthInv, ReplyInv
<1>5. y.device_id = sessions[1].device_id
  BY <1>2 DEF Session
<1>6. \/ /\ r.result = "ok"
         /\ sessions' = [sessions EXCEPT ![1] = y]
         /\ Answer(ServerHelloMsg(addr, y))
      \/ /\ Answer(Error(addr, "INVALID_PWD"))
         /\ sessions' = sessions
  BY <1>2 DEF HandleAuthReply
<1> HIDE DEF r, y
<1>7. \A i \in DOMAIN sessions' :
        i \in DOMAIN sessions /\ sessions'[i].device_id = sessions[i].device_id
  BY <1>2, <1>5, <1>6, SessionsDomain DEF TypeInv, TypeOK
<1>8. \A d \in down' : d \in down \/ (d.type = "server_hello" => d.dst \in Valid)
  <2>1. CASE r.result = "ok" /\ Answer(ServerHelloMsg(addr, y))
    <3>1. addr \in Valid
      BY <1>2, <1>4, <2>1 DEF JoinerInv
    <3>2. ServerHelloMsg(addr, y).dst = addr
      BY DEF ServerHelloMsg
    <3> QED BY <2>1, <3>1, <3>2, SentElem DEF Answer
  <2>2. CASE Answer(Error(addr, "INVALID_PWD"))
    BY <2>2, SentElem DEF Answer, Error
  <2> QED BY <1>6, <2>1, <2>2
<1>9. auth_success' = auth_success
  BY DEF GatewayStep, sensorVars
<1> QED BY <1>1, <1>7, <1>8, <1>9 DEF JoinerInv, OnlyMembersJoin

\* Nothing else joins anybody, and a restart of the gateway forgets the session.
LEMMA OtherJoiner ==
  ASSUME TypeInv, JoinerInv,
         \/ (HandleDataReply \/ HandleOrphanReply) /\ GatewayStep
         \/ ServerNext /\ ServerStep
         \/ Lose /\ UNCHANGED <<sensorVars, proxyVars, serverVars, drops>>
         \/ Connect \/ Break \/ Restart \/ UNCHANGED vars
  PROVE  JoinerInv'
<1>1. UNCHANGED <<sessions, addr>> \/ sessions' = <<>>
  BY DEF HandleDataReply, HandleOrphanReply, ServerStep, Lose, Connect, Break, Restart, vars,
         proxyVars
<1>2. auth_success' = auth_success
  BY DEF GatewayStep, ServerStep, Lose, Connect, Break, Restart, vars, sensorVars
<1>3. \A x \in up' : x \in up
  BY DEF HandleDataReply, HandleOrphanReply, Answer, Lose, Connect, Break, Restart, Broken,
         vars, netVars, ServerNext, OpenDone, OnClose, Accept, DropUnparsable, DeviceAuth,
         DeviceNew, DeviceReport, Finish
<1>4. \A x \in down' : x \in down \/ x.type = "data"
  <2>1. CASE HandleDataReply
    BY <2>1, SentElem DEF HandleDataReply, Answer
  <2>2. CASE ~HandleDataReply
    BY <2>2
       DEF HandleOrphanReply, Lose, Connect, Break, Restart, Broken, vars, netVars, ServerNext,
           OpenDone, OnClose, Accept, DropUnparsable, DeviceAuth, DeviceNew, DeviceReport, Finish
  <2> QED BY <2>1, <2>2
<1>5. DOMAIN <<>> = {}
  OBVIOUS
<1> QED BY <1>1, <1>2, <1>3, <1>4, <1>5 DEF JoinerInv, OnlyMembersJoin

\* A device the owner did not add never gets past the handshake, for any number of
\* devices, restarts and misdirected answers.
THEOREM StrangersStayOut == Spec => []OnlyMembersJoin
<1>1. Init => JoinerInv
  <2>1. DOMAIN <<>> = {}
    OBVIOUS
  <2> QED BY <2>1 DEF Init, NetInit, SensorInit, ProxyInit, JoinerInv, OnlyMembersJoin
<1>2. TypeInv /\ AuthInv /\ JoinerInv /\ [Next]_vars => JoinerInv'
  BY NextCases, SensorJoiner, ClientHelloJoiner, SensorDataJoiner, AuthReplyJoiner, OtherJoiner
<1>3. JoinerInv => OnlyMembersJoin
  BY DEF JoinerInv
<1> QED BY <1>1, <1>2, <1>3, AuthCorrect, PTL DEF Spec
=============================================================================
