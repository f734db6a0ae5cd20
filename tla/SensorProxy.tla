---------------------------- MODULE SensorProxy ----------------------------
(***************************************************************************)
(* The gateway's sensor-proxy (sensor_proxy.c, session.c, crypto.c).  Its  *)
(* main loop takes a datagram if there is one, then keeps the websocket    *)
(* up and takes a websocket message if there is one; either half may find  *)
(* nothing, so the two halves interleave freely.                           *)
(*                                                                         *)
(* One variable, addr, receives the source of every datagram and is where  *)
(* every answer goes, those to websocket messages included.                *)
(***************************************************************************)
EXTENDS CoconutNet

VARIABLES
  g_network_shared_key,  \* the key of the running start
  sessions,              \* the linked list of sessions, from header on
  addr                   \* the source of the last datagram received

proxyVars == <<g_network_shared_key, sessions, addr>>

Session == [addr : Sensors, device_id : Sensors, auth_flag : BOOLEAN,
            random : Randoms, pwd : Pwd]

ProxyTypeOK ==
  /\ g_network_shared_key \in Nat \ {Junk}
  /\ sessions \in Seq(Session)
  /\ addr \in Sensors \cup {NoPwd}

ProxyInit ==
  /\ g_network_shared_key = 1
  /\ sessions = <<>>
  /\ addr = NoPwd

-----------------------------------------------------------------------------
\* session.c

First(I) == CHOOSE i \in I : \A j \in I : i <= j

FindSession(d) == {i \in DOMAIN sessions : sessions[i].device_id = d}
FindSessionByAddr(a) == {i \in DOMAIN sessions : sessions[i].addr = a}

\* new_session links the new session to header->next, so the session that was
\* header leaves the list.
LinkedM(list, x) == <<x>> \o list
Linked(list, x) == <<x>> \o (IF list = <<>> THEN <<>> ELSE Tail(list))

\* A new session's random number and password are whatever malloc returned.
Fresh(s, garbage) ==
  [addr |-> s, device_id |-> s, auth_flag |-> FALSE, random |-> garbage, pwd |-> NoPwd]

\* The list and the place in it of the session that serves the source s.
Served(s) ==
  IF FindSessionByAddr(s) # {}
  THEN {[list |-> sessions, at |-> First(FindSessionByAddr(s))]}
  ELSE {[list |-> Linked(sessions, Fresh(s, g)), at |-> 1] : g \in Randoms}

-----------------------------------------------------------------------------
\* crypto.c

DecryptedPwd(m) == IF m.key = g_network_shared_key THEN m.src ELSE NoPwd

\* create_security_server_hello_msg: the network key under the master key that
\* generate_master_key has just made of the session.
ServerHelloMsg(a, x) ==
  [type |-> "server_hello", dst |-> a, pwd |-> x.pwd, random_num |-> x.random,
   key |-> g_network_shared_key]

-----------------------------------------------------------------------------
\* websocket_write, and SERVER_ERROR to addr if it fails.
WriteOrError(msg) ==
  IF CanWrite
  THEN /\ wsUp' = Append(wsUp, msg)
       /\ UNCHANGED down
  ELSE /\ down' = Sent(down, Error(addr', "SERVER_ERROR"))
       /\ UNCHANGED wsUp

Answer(msg) ==
  /\ down' = Sent(down, msg)
  /\ UNCHANGED wsUp

\* What becomes of a client hello in session x.
HelloVerdict(x, m) ==
  IF m.key_version = PublicKeyVersion THEN "ask_server"
  ELSE IF m.key_version # CurrentKeyVersion THEN "INVALID_KEY_VERSION"
  ELSE IF ~x.auth_flag THEN "ask_server"
  ELSE IF DecryptedPwd(m) = x.pwd THEN "grant" ELSE "INVALID_PWD"

KeptRandomM(x, m) == x.random
KeptRandom(x, m) ==
  IF HelloVerdict(x, m) \in {"ask_server", "grant"} THEN m.random_num ELSE x.random

\* The password an AUTH request carries: the image's encrypted copy, which the
\* server decrypts, or what the network key decrypted.
AuthPwd(m) == IF m.key_version = PublicKeyVersion THEN m.src ELSE DecryptedPwd(m)

TakeHello(m, sv) ==
  LET x == sv.list[sv.at]
      y == [x EXCEPT !.device_id = m.src, !.random = KeptRandom(x, m)]
      verdict == HelloVerdict(x, m)
  IN
  /\ m.type = "client_hello"
  /\ up' \in Delivered(up, m)
  /\ addr' = m.src
  /\ sessions' = [sv.list EXCEPT ![sv.at] = y]
  /\ \/ /\ verdict = "ask_server"
        /\ WriteOrError([method |-> "auth", device_id |-> m.src, pwd |-> AuthPwd(m)])
     \/ /\ verdict = "grant"
        /\ Answer(ServerHelloMsg(m.src, y))
     \/ /\ verdict \in Reason
        /\ Answer(Error(m.src, verdict))
  /\ UNCHANGED <<conn, wsDown, g_network_shared_key>>

HandleClientHello == \E m \in up : \E sv \in Served(m.src) : TakeHello(m, sv)

\* What the gateway passes on: the request, if the sensor's key is its own.
Forward(m) ==
  IF m.key = g_network_shared_key
  THEN [method |-> m.method, device_id |-> m.src] ELSE [method |-> "garbage"]

SessionErrorM(m) == "forward"
SessionError(m) ==
  IF FindSessionByAddr(m.src) = {} THEN "SESSION_NOT_FOUND"
  ELSE IF m.key_version # CurrentKeyVersion THEN "INVALID_KEY_VERSION" ELSE "forward"

HandleSensorData == \E m \in up :
  /\ m.type = "data"
  /\ up' \in Delivered(up, m)
  /\ addr' = m.src
  /\ IF SessionError(m) = "forward" THEN WriteOrError(Forward(m))
     ELSE Answer(Error(m.src, SessionError(m)))
  /\ UNCHANGED <<conn, wsDown, g_network_shared_key, sessions>>

-----------------------------------------------------------------------------
\* The websocket half of the loop.

\* Which sessions an answer of the server about d concerns.
AnsweredM(d) == DOMAIN sessions
Answered(d) == FindSession(d)

HandleAuthReply ==
  /\ conn /\ wsDown # <<>> /\ Head(wsDown).method = "auth"
  /\ Answered(Head(wsDown).device_id) # {}
  /\ LET r == Head(wsDown)
         i == First(Answered(r.device_id))
         y == [sessions[i] EXCEPT !.pwd = r.pwd, !.auth_flag = TRUE]
     IN IF r.result = "ok"
        THEN /\ sessions' = [sessions EXCEPT ![i] = y]
             /\ Answer(ServerHelloMsg(addr, y))
        ELSE /\ Answer(Error(addr, "INVALID_PWD"))
             /\ UNCHANGED sessions
  /\ wsDown' = Tail(wsDown)
  /\ UNCHANGED <<up, conn, g_network_shared_key, addr>>

\* Any other answer goes on under the network key.
HandleDataReply ==
  /\ conn /\ wsDown # <<>> /\ Head(wsDown).method # "auth"
  /\ LET r == Head(wsDown) IN
     /\ FindSession(r.device_id) # {}
     /\ Answer([type |-> "data", dst |-> addr, key |-> g_network_shared_key,
                device_id |-> r.device_id, method |-> r.method, result |-> r.result])
  /\ wsDown' = Tail(wsDown)
  /\ UNCHANGED <<up, conn, proxyVars>>

\* No session: the server is told so (a failing write is only logged).
HandleOrphanReply ==
  /\ conn /\ wsDown # <<>>
  /\ FindSession(Head(wsDown).device_id) = {}
  /\ wsUp' = IF CanWrite
             THEN Append(wsUp, [method |-> "connect_error",
                                device_id |-> Head(wsDown).device_id])
             ELSE wsUp
  /\ wsDown' = Tail(wsDown)
  /\ UNCHANGED <<up, down, conn, proxyVars>>

ProxyNext ==
  \/ HandleClientHello \/ HandleSensorData
  \/ HandleAuthReply \/ HandleDataReply \/ HandleOrphanReply
=============================================================================
