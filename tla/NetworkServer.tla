--------------------------- MODULE NetworkServer ---------------------------
(***************************************************************************)
(* The network server as the gateway sees it (device_handler.py): the      *)
(* module-wide dict of connected gateways, filled by the open() coroutine  *)
(* and emptied by on_close(), and the handlers of AUTH, NEW_DEVICE and     *)
(* REPORT.  on_message() is a coroutine nobody waits for: each request     *)
(* waits for the database by itself, so requests finish in any order, and  *)
(* may finish when their connection is gone; then the answer is lost.      *)
(* Two equal requests of one connection take turns.                        *)
(* The devices of the database are the constants Added (in the factory     *)
(* table and added by a user) and Valid (added by the owner of the         *)
(* gateway's license).                                                     *)
(***************************************************************************)
EXTENDS CoconutNet

VARIABLES
  entry,       \* whether clients holds the gateway's id
  opening,     \* open() coroutines waiting for the database
  closing,     \* dead connections whose on_close() has not run
  running,     \* requests in progress, and whether their connection is up
  registered,  \* devices whose objects NEW_DEVICE stored
  reported     \* devices with a report in the history

serverVars == <<entry, opening, closing, running, registered, reported>>

ServerTypeOK ==
  /\ entry \in BOOLEAN
  /\ opening \in Nat /\ closing \in Nat
  /\ running \subseteq [request : Request, open : BOOLEAN]
  /\ registered \subseteq Sensors /\ reported \subseteq Sensors

ServerInit ==
  /\ entry = FALSE /\ opening = 0 /\ closing = 0
  /\ running = {} /\ registered = {} /\ reported = {}

-----------------------------------------------------------------------------

\* open() has read the license and its owner.
OpenDone ==
  /\ opening > 0
  /\ opening' = opening - 1
  /\ entry' = TRUE
  /\ UNCHANGED <<closing, running, registered, reported, netVars>>

\* on_close() deletes the id whichever connection's entry is there.
OnClose ==
  /\ closing > 0
  /\ closing' = closing - 1
  /\ entry' = FALSE
  /\ UNCHANGED <<opening, running, registered, reported, netVars>>

\* Every handler looks for the device, then for the gateway's license (a
\* KeyError, and no answer, if open() has not entered it), then for the owner.
CheckedM(d) ==
  IF d \notin Added THEN "fail" ELSE IF ~entry THEN "KeyError" ELSE "ok"
CheckedLateM(d) ==
  IF d \notin Added \/ ~entry THEN "fail" ELSE CheckedM(d)
Checked(d) ==
  IF d \notin Added THEN "fail"
  ELSE IF ~entry THEN "KeyError"
  ELSE IF d \notin Valid THEN "fail" ELSE "ok"

AuthResultM(d, p) == CheckedM(d)
AuthResult(d, p) ==
  IF Checked(d) = "ok" THEN (IF p = d THEN "ok" ELSE "fail") ELSE Checked(d)

ReportResult(d) ==
  IF Checked(d) = "ok" THEN (IF d \in registered THEN "ok" ELSE "fail")
  ELSE Checked(d)

\* on_message() of a request: the handler runs until it needs the database.
Accept ==
  /\ conn /\ wsUp # <<>> /\ Head(wsUp) \in Request
  /\ Cardinality(running) < MaxRunning
  /\ [request |-> Head(wsUp), open |-> TRUE] \notin running
  /\ running' = running \cup {[request |-> Head(wsUp), open |-> TRUE]}
  /\ wsUp' = Tail(wsUp)
  /\ UNCHANGED <<up, down, conn, wsDown, entry, opening, closing, registered, reported>>

\* parse_message refuses garbage, and a response's type byte too.
DropUnparsable ==
  /\ conn /\ wsUp # <<>> /\ Head(wsUp).method \in {"garbage", "connect_error"}
  /\ wsUp' = Tail(wsUp)
  /\ UNCHANGED <<up, down, conn, wsDown, serverVars>>

\* The database has answered: the handler ends with result r for request c.  The
\* answer is written unless an exception ended the handler or the write fails;
\* the connection's buffer bounds the answers.
Finish(c, r) ==
  /\ running' = running \ {c}
  /\ IF r = "KeyError" \/ ~c.open THEN UNCHANGED wsDown
     ELSE /\ Len(wsDown) < WsCap
          /\ wsDown' = Append(wsDown,
               [method |-> c.request.method, device_id |-> c.request.device_id, result |-> r,
                pwd |-> IF r = "ok" /\ c.request.method = "auth"
                        THEN c.request.pwd ELSE NoPwd])
  /\ UNCHANGED <<up, down, conn, wsUp, entry, opening, closing>>

DeviceAuth == \E c \in running :
  /\ c.request.method = "auth"
  /\ Finish(c, AuthResult(c.request.device_id, c.request.pwd))
  /\ UNCHANGED <<registered, reported>>

DeviceNew == \E c \in running :
  /\ c.request.method = "new_device"
  /\ LET r == Checked(c.request.device_id)
     IN /\ Finish(c, r)
        /\ registered' = registered \cup {d \in {c.request.device_id} : r = "ok"}
  /\ UNCHANGED reported

DeviceReport == \E c \in running :
  /\ c.request.method = "report"
  /\ LET r == ReportResult(c.request.device_id)
     IN /\ Finish(c, r)
        /\ reported' = reported \cup {d \in {c.request.device_id} : r = "ok"}
  /\ UNCHANGED registered

ServerNext ==
  OpenDone \/ OnClose \/ Accept \/ DropUnparsable
  \/ DeviceAuth \/ DeviceNew \/ DeviceReport
=============================================================================
