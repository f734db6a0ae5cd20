--------------------------- MODULE DeviceRegistry ---------------------------
(***************************************************************************)
(* The documents of one device in the database both servers share.  Every  *)
(* query and update of the code names the device, so devices do not touch  *)
(* each other.  Calls run as coroutines that give way at each wait for the *)
(* database: DeviceAddHandler.post of the app server (device.py), and      *)
(* device_new and device_report of the network server, which read the      *)
(* document, check its owner and write it back.  No index makes device_id  *)
(* unique, and nothing orders documents: find_one and update take any of   *)
(* several.  The value of an object is the call that wrote it; a           *)
(* registration writes the values of all objects, a report that of one, as *)
(* the sensor sends a message for each object it reports (main.c:727-743). *)
(***************************************************************************)
EXTENDS Naturals, Sequences

CONSTANTS
  User,    \* users, each with one gateway
  Call,    \* calls, each made at most once
  Object,  \* the device's objects
  Nobody   \* no user, and no call

ASSUME NobodyIsNobody == Nobody \notin User \cup Call

VARIABLES
  docs,    \* the documents of the device, in no order that matters
  call,    \* what each call is and where it waits
  listed   \* users whose cookie lists the device

vars == <<docs, call, listed>>

Document == [owner : User \cup {Nobody}, manager : User \cup {Nobody},
             value : [Object -> Call \cup {Nobody}]]

\* new_device of post: no gateway yet, and objects is empty.
NewDocument(u) ==
  [owner |-> u, manager |-> Nobody, value |-> [o \in Object |-> Nobody]]

\* "error" is a page that says the add failed, although the document is inserted.
Step == {"idle", "find", "factory", "insert", "write", "stats", "ok", "failed", "error"}

\* A call, what it writes, the document it read, and the calls acknowledged
\* before it began.
CallState == [kind : {"none", "add", "new", "report"}, user : User \cup {Nobody},
              objects : SUBSET Object, step : Step, read : Document, prior : SUBSET Call]

TypeOK ==
  /\ docs \in Seq(Document)
  /\ call \in [Call -> CallState]
  /\ \A c \in Call : call[c].kind # "none" => call[c].user \in User
  /\ listed \subseteq User

Idle == [kind |-> "none", user |-> Nobody, objects |-> {}, step |-> "idle",
         read |-> NewDocument(Nobody), prior |-> {}]

\* Nobody has added the device.
Init == docs = <<>> /\ call = [c \in Call |-> Idle] /\ listed = {}

\* One user has, and nothing is in progress.
InitAdded ==
  /\ \E u \in User : docs = <<NewDocument(u)>> /\ listed \in SUBSET {u}
  /\ call = [c \in Call |-> Idle]

-----------------------------------------------------------------------------

At(c, kind, step) == call[c].kind = kind /\ call[c].step = step
GoTo(c, step) == call' = [call EXCEPT ![c].step = step]
Acknowledged == {c \in Call : call[c].step = "ok"}

\* What the messages of a kind are about.
Subjects(kind) ==
  [add |-> {{}}, new |-> {Object}, report |-> {{o} : o \in Object}][kind]

\* A request arrives and asks for the device.
Begin(c, kind, u) ==
  /\ call[c].step = "idle"
  /\ kind = "add" => u \notin listed
  /\ \E objects \in Subjects(kind) :
       call' = [call EXCEPT ![c] =
                 [kind |-> kind, user |-> u, objects |-> objects, step |-> "find",
                  read |-> NewDocument(Nobody), prior |-> Acknowledged]]
  /\ UNCHANGED <<docs, listed>>

\* A call ends without effect: malformed parameters, a wrong serial number, or
\* no license because the gateway's connection is gone.
Fail(c) ==
  /\ call[c].step \in {"find", "factory"}
  /\ GoTo(c, "failed")
  /\ UNCHANGED <<docs, listed>>

\* get_device of post: refused if somebody has the device.
NoDeviceM == TRUE
NoDevice == docs = <<>>
AddFind(c) ==
  /\ At(c, "add", "find")
  /\ NoDevice
  /\ GoTo(c, "factory")
  /\ UNCHANGED <<docs, listed>>

\* The factory table knows the device and its serial number.
AddFactory(c) ==
  /\ At(c, "add", "factory")
  /\ GoTo(c, "insert")
  /\ UNCHANGED <<docs, listed>>

\* update_current_user then raises, as the owner_id of a document it puts in the
\* cookie is no JSON: the cookie stays as it was.
AddInsert(c) ==
  /\ At(c, "add", "insert")
  /\ docs' = Append(docs, NewDocument(call[c].user))
  /\ GoTo(c, "error")
  /\ UNCHANGED listed

\* do_login fills the cookie with the devices that are the user's.
Login(u) ==
  /\ listed' = IF \E i \in DOMAIN docs : docs[i].owner = u
               THEN listed \cup {u} ELSE listed \ {u}
  /\ UNCHANGED <<docs, call>>

\* device_new and device_report refuse a gateway of another user.
AllowedM(doc, u) == doc.owner # Nobody
Allowed(doc, u) == doc.owner = u

NewFind(c, doc) ==
  /\ At(c, "new", "find")
  /\ Allowed(doc, call[c].user)
  /\ GoTo(c, "write")
  /\ UNCHANGED <<docs, listed>>

\* The update of device_new sets the objects and the manager only.
NewWriteKeepM(c, i) ==
  /\ At(c, "new", "write")
  /\ docs' = [docs EXCEPT ![i].value = [o \in Object |-> IF @[o] = Nobody THEN c ELSE @[o]],
                         ![i].manager = call[c].user]
  /\ GoTo(c, "ok")
  /\ UNCHANGED listed
NewWrite(c, i) ==
  /\ At(c, "new", "write")
  /\ docs' = [docs EXCEPT ![i].value = [o \in Object |-> c], ![i].manager = call[c].user]
  /\ GoTo(c, "ok")
  /\ UNCHANGED listed

\* The document device_report makes of the one it read: none, after a KeyError,
\* if the object is not there.
ReportedValue(c, doc) ==
  [o \in Object |-> IF o \in call[c].objects THEN c ELSE doc.value[o]]
ReportedSkipM(c, doc) ==
  {[doc EXCEPT !.value = IF \A o \in Object : @[o] = Nobody THEN @ ELSE ReportedValue(c, doc),
               !.manager = call[c].user]}
ReportedStaleM(c, doc) ==
  {[doc EXCEPT !.manager = call[c].user]}
ReportedSwapM(c, doc) ==
  {[doc EXCEPT !.value = call[c].user, !.manager = c]}
Reported(c, doc) ==
  {[d EXCEPT !.value = ReportedValue(c, doc), !.manager = call[c].user] :
     d \in {d \in {doc} : \A o \in call[c].objects : d.value[o] # Nobody}}

ReportFind(c, doc) ==
  /\ At(c, "report", "find")
  /\ Allowed(doc, call[c].user)
  /\ \E read \in Reported(c, doc) :
       call' = [call EXCEPT ![c].step = "write", ![c].read = read]
  /\ UNCHANGED <<docs, listed>>

\* The update of device_report sets every field of the document it read.
ReportWrite(c, i) ==
  /\ At(c, "report", "write")
  /\ docs' = [docs EXCEPT ![i] = call[c].read]
  /\ GoTo(c, "stats")
  /\ UNCHANGED listed

\* The value is in the history too, and the gateway gets its answer.
ReportStats(c) ==
  /\ At(c, "report", "stats")
  /\ GoTo(c, "ok")
  /\ UNCHANGED <<docs, listed>>

CallNext == \E c \in Call :
  \/ \E u \in User, kind \in {"add", "new", "report"} : Begin(c, kind, u)
  \/ Fail(c)
  \/ AddFind(c)
  \/ AddFactory(c)
  \/ AddInsert(c)
  \/ \E i \in DOMAIN docs : NewFind(c, docs[i])
  \/ \E i \in DOMAIN docs : NewWrite(c, i)
  \/ \E i \in DOMAIN docs : ReportFind(c, docs[i])
  \/ \E i \in DOMAIN docs : ReportWrite(c, i)
  \/ ReportStats(c)

Next == CallNext \/ \E u \in User : Login(u)

Spec == Init /\ [][Next]_vars
AddedSpec == InitAdded /\ [][Next]_vars

-----------------------------------------------------------------------------

\* A device is added once: who adds it second is told that others have it
\* (device.py:66-70).
OneDocument == Len(docs) <= 1

\* The gateway of a document belongs to its owner, although owner and gateway
\* are compared with the document that was read and written to the one that is
\* found then (device_handler.py:112-136).
OwnerManages == \A i \in DOMAIN docs :
  docs[i].manager # Nobody => docs[i].manager = docs[i].owner

\* A call that has stored its values.
Written(c) == At(c, "new", "ok") \/ At(c, "report", "stats") \/ At(c, "report", "ok")

\* While c was worked on, d wrote back the object o as it had read it.
Overtook(d, c, o) ==
  /\ call[d].kind = "report" /\ Written(d) /\ o \notin call[d].objects
  /\ d \notin call[c].prior /\ c \notin call[d].prior

\* An object goes back to a value that was acknowledged before an acknowledged
\* registration or report of it began only if a report of another object ran at
\* the same time, for device_report writes back all of the document it read
\* earlier (device_handler.py:119-136).
FreshValue == \A i \in DOMAIN docs, o \in Object, c \in Acknowledged :
  (o \in call[c].objects /\ docs[i].value[o] \in call[c].prior) =>
    \E d \in Call : Overtook(d, c, o)

Adders == {call[c].user : c \in {c \in Call : At(c, "add", "error")}}

\* Only users who added the device own or manage a document of it, also when
\* adds race and reports carry owner_id from one document to another
\* (device_handler.py:136).
OnlyAdders == \A i \in DOMAIN docs :
  /\ docs[i].owner \in Adders
  /\ docs[i].manager \in Adders \cup {Nobody}

\* A registered device stays registered: no report that read the document
\* before the registration undoes it (device_handler.py:104-136).
RegistrationKept ==
  [][\A i \in DOMAIN docs, o \in Object :
       docs[i].value[o] # Nobody => docs'[i].value[o] # Nobody]_vars

\* Nothing that a call has stored was written back to what it was before.
NoneOvertaken == \A c, d \in Call : Written(c) =>
  \A o \in call[c].objects : ~Overtook(d, c, o)

\* The documents as a store: where a call is in it.
Progress(step) ==
  CASE step = "idle"                                 -> "new"
    [] step \in {"find", "factory", "insert", "write"} -> "asked"
    [] step = "stats"                                -> "stored"
    [] step = "ok"                                   -> "answered"
    [] step \in {"failed", "error"}                  -> "refused"

Store == INSTANCE ObjectStore WITH
  value  <- docs[1].value,
  about  <- [c \in Call |-> call[c].objects],
  status <- [c \in Call |-> Progress(call[c].step)]

\* Reading a document, changing it and writing it back is as good as changing it at
\* once, for any number of calls at a time, until a report has written back another
\* object than its own as it was before a call that has stored (device_handler.py:81-104,
\* :108-147): that is the one way in which the calls of a device disturb each other.
AtomicUnlessOvertaken ==
  Store!Init /\ [][NoneOvertaken' => Store!Next \/ UNCHANGED Store!vars]_vars

=============================================================================
