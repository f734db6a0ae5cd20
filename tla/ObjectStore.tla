---------------------------- MODULE ObjectStore ----------------------------
(***************************************************************************)
(* What the gateways expect of the documents of a device: the answer to a  *)
(* call, a registration or a report, stands for one moment at which all    *)
(* the objects that the call is about, and no others, take its values.     *)
(***************************************************************************)
CONSTANTS
  Call,    \* calls, each made at most once
  Object,  \* the device's objects
  Nobody   \* no call: the object has no value yet

VARIABLES
  value,   \* the call that an object has its value from
  about,   \* the objects that a call is about
  status   \* how far a call is

vars == <<value, about, status>>

Status == {"new", "asked", "stored", "answered", "refused"}

Init ==
  /\ value = [o \in Object |-> Nobody]
  /\ about = [c \in Call |-> {}]
  /\ status = [c \in Call |-> "new"]

Ask(c) ==
  /\ status[c] = "new"
  /\ status' = [status EXCEPT ![c] = "asked"]
  /\ \E objects \in SUBSET Object : about' = [about EXCEPT ![c] = objects]
  /\ UNCHANGED value

\* The moment: a registration is answered at once.
Store(c) ==
  /\ status[c] = "asked"
  /\ \E s \in {"stored", "answered"} : status' = [status EXCEPT ![c] = s]
  /\ value' = [o \in Object |-> IF o \in about[c] THEN c ELSE value[o]]
  /\ UNCHANGED about

Answer(c) ==
  /\ status[c] = "stored"
  /\ status' = [status EXCEPT ![c] = "answered"]
  /\ UNCHANGED <<value, about>>

Refuse(c) ==
  /\ status[c] = "asked"
  /\ status' = [status EXCEPT ![c] = "refused"]
  /\ UNCHANGED <<value, about>>

Next == \E c \in Call : Ask(c) \/ Store(c) \/ Answer(c) \/ Refuse(c)

Spec == Init /\ [][Next]_vars

=============================================================================
