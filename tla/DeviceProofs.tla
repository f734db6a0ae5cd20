---------------------------- MODULE DeviceProofs ----------------------------
(***************************************************************************)
(* What holds of the documents of a device for all users and calls.        *)
(***************************************************************************)
EXTENDS DeviceRegistry, SequenceTheorems, TLAPS

\* The types hold of an empty document.
LEMMA NewDocumentType == \A u \in User \cup {Nobody} : NewDocument(u) \in Document
BY DEF NewDocument, Document

\* A step keeps the types.
LEMMA TypeStep == TypeOK /\ [Next]_vars => TypeOK'
<1> SUFFICES ASSUME TypeOK, [Next]_vars PROVE TypeOK'
  OBVIOUS
<1> USE DEF TypeOK, GoTo, At
<1>1. CASE UNCHANGED vars
  BY <1>1 DEF vars
<1>2. ASSUME NEW c \in Call, NEW u \in User, NEW kind \in {"add", "new", "report"},
             Begin(c, kind, u)
      PROVE TypeOK'
  <2>1. call' \in [Call -> CallState]
    <3>1. PICK objects \in Subjects(kind) : call' = [call EXCEPT ![c] =
                 [kind |-> kind, user |-> u, objects |-> objects, step |-> "find",
                  read |-> NewDocument(Nobody), prior |-> Acknowledged]]
      BY <1>2 DEF Begin
    <3>2. objects \subseteq Object
      BY <3>1 DEF Subjects
    <3>3. NewDocument(Nobody) \in Document
      BY NewDocumentType
    <3> QED
      BY <3>1, <3>2, <3>3 DEF CallState, Step, Acknowledged
  <2>2. \A d \in Call : call'[d].kind # "none" => call'[d].user \in User
    BY <1>2 DEF Begin, CallState
  <2> QED
    BY <1>2, <2>1, <2>2 DEF Begin
<1>3. ASSUME NEW c \in Call, Fail(c) PROVE TypeOK'
  BY <1>3 DEF Fail, CallState, Step
<1>4. ASSUME NEW c \in Call, AddFind(c) PROVE TypeOK'
  BY <1>4 DEF AddFind, CallState, Step
<1>5. ASSUME NEW c \in Call, AddFactory(c) PROVE TypeOK'
  BY <1>5 DEF AddFactory, CallState, Step
<1>6. ASSUME NEW c \in Call, AddInsert(c) PROVE TypeOK'
  <2>1. call[c].user \in User
    BY <1>6 DEF AddInsert
  <2>2. docs' \in Seq(Document)
    BY <1>6, <2>1, NewDocumentType DEF AddInsert
  <2>3. call' \in [Call -> CallState]
    BY <1>6 DEF AddInsert, CallState, Step
  <2>4. listed' \subseteq User
    BY <1>6 DEF AddInsert
  <2>5. \A d \in Call : call'[d].kind = call[d].kind /\ call'[d].user = call[d].user
    BY <1>6 DEF AddInsert, CallState
  <2> QED
    BY <2>2, <2>3, <2>4, <2>5
<1>7. ASSUME NEW c \in Call, NEW i \in DOMAIN docs, NewFind(c, docs[i]) PROVE TypeOK'
  BY <1>7 DEF NewFind, CallState, Step
<1>8. ASSUME NEW c \in Call, NEW i \in DOMAIN docs, NewWrite(c, i) PROVE TypeOK'
  <2>1. call[c].user \in User
    BY <1>8 DEF NewWrite
  <2>2. docs' \in Seq(Document)
    <3>1. docs[i] \in Document
      OBVIOUS
    <3>2. [docs[i] EXCEPT !.value = [o \in Object |-> c], !.manager = call[c].user] \in Document
      BY <2>1, <3>1 DEF Document
    <3>3. docs' = [docs EXCEPT ![i] =
                    [docs[i] EXCEPT !.value = [o \in Object |-> c], !.manager = call[c].user]]
      BY <1>8 DEF NewWrite
    <3> QED
      BY <3>2, <3>3, ExceptSeq
  <2>3. call' \in [Call -> CallState]
    BY <1>8 DEF NewWrite, CallState, Step
  <2>4. \A d \in Call : call'[d].kind = call[d].kind /\ call'[d].user = call[d].user
    BY <1>8 DEF NewWrite, CallState
  <2> QED
    BY <1>8, <2>2, <2>3, <2>4 DEF NewWrite
<1>9. ASSUME NEW c \in Call, NEW i \in DOMAIN docs, ReportFind(c, docs[i]) PROVE TypeOK'
  <2>1. docs[i] \in Document /\ call[c].user \in User
    BY <1>9 DEF ReportFind
  <2>2. PICK read \in Reported(c, docs[i]) :
          call' = [call EXCEPT ![c].step = "write", ![c].read = read]
    BY <1>9 DEF ReportFind
  <2>3. read \in Document
    <3>1. read = [docs[i] EXCEPT !.value = ReportedValue(c, docs[i]), !.manager = call[c].user]
      BY <2>2 DEF Reported
    <3>2. ReportedValue(c, docs[i]) \in [Object -> Call \cup {Nobody}]
      BY <2>1 DEF ReportedValue, Document
    <3> HIDE DEF TypeOK
    <3> QED
      BY <2>1, <3>1, <3>2 DEF Document
  <2>4. call' \in [Call -> CallState]
    <3>1. [call[c] EXCEPT !.step = "write", !.read = read] \in CallState
      <4>1. call[c] \in CallState
        OBVIOUS
      <4> HIDE DEF TypeOK
      <4> QED
        BY <4>1, <2>3 DEF CallState, Step
    <3>2. call' = [call EXCEPT ![c] = [call[c] EXCEPT !.step = "write", !.read = read]]
      BY <2>2
    <3> QED
      BY <3>1, <3>2
  <2>5. \A d \in Call : call'[d].kind = call[d].kind /\ call'[d].user = call[d].user
    BY <2>2 DEF CallState
  <2> QED
    BY <1>9, <2>4, <2>5 DEF ReportFind
<1>10. ASSUME NEW c \in Call, NEW i \in DOMAIN docs, ReportWrite(c, i) PROVE TypeOK'
  <2>1. call[c].read \in Document
    BY DEF CallState
  <2>2. docs' \in Seq(Document)
    BY <1>10, <2>1, ExceptSeq DEF ReportWrite
  <2>3. call' \in [Call -> CallState]
    BY <1>10 DEF ReportWrite, CallState, Step
  <2>4. \A d \in Call : call'[d].kind = call[d].kind /\ call'[d].user = call[d].user
    BY <1>10 DEF ReportWrite, CallState
  <2> QED
    BY <1>10, <2>2, <2>3, <2>4 DEF ReportWrite
<1>11. ASSUME NEW c \in Call, ReportStats(c) PROVE TypeOK'
  BY <1>11 DEF ReportStats, CallState, Step
<1>12. ASSUME NEW u \in User, Login(u) PROVE TypeOK'
  BY <1>12 DEF Login
<1> QED
  BY <1>1, <1>2, <1>3, <1>4, <1>5, <1>6, <1>7, <1>8, <1>9, <1>10, <1>11, <1>12
  DEF Next, CallNext

\* The types hold from both beginnings.
LEMMA TypeInit == Init \/ InitAdded => TypeOK
<1> SUFFICES ASSUME Init \/ InitAdded PROVE TypeOK
  OBVIOUS
<1>1. Idle \in CallState /\ Idle.kind = "none"
  BY NewDocumentType DEF Idle, CallState, Step
<1>3. call = [c \in Call |-> Idle]
  BY DEF Init, InitAdded
<1>2. docs \in Seq(Document) /\ listed \subseteq User
  <2>1. CASE Init
    BY <2>1 DEF Init
  <2>2. CASE InitAdded
    <3>1. PICK u \in User : docs = <<NewDocument(u)>> /\ listed \in SUBSET {u}
      BY <2>2 DEF InitAdded
    <3>2. NewDocument(u) \in Document
      BY NewDocumentType
    <3> QED
      BY <3>1, <3>2
  <2> QED
    BY <2>1, <2>2
<1> QED
  BY <1>1, <1>2, <1>3 DEF TypeOK

\* Types, of the calls' records and of the documents (DeviceRegistry).
THEOREM TypesHold == Spec => []TypeOK
BY TypeInit, TypeStep, PTL DEF Spec

-----------------------------------------------------------------------------
\* What calls leave alone.

\* A step moves at most one call; a call that moves was not at its end, and
\* keeps its kind, user, objects and what was acknowledged before it, unless it begins,
\* when it notes what is acknowledged.
LEMMA OneCallMoves ==
  ASSUME TypeOK, [Next]_vars
  PROVE  \A d \in Call : \/ call'[d] = call[d]
                         \/ /\ call[d].step \notin {"ok", "error"}
                            /\ call[d].step # "idle" => /\ call'[d].kind = call[d].kind
                                                       /\ call'[d].user = call[d].user
                                                       /\ call'[d].objects = call[d].objects
                                                       /\ call'[d].prior = call[d].prior
                            /\ call[d].step = "idle" => /\ call'[d].step = "find"
                                                       /\ call'[d].prior = Acknowledged
<1> DEFINE Moves(c) == /\ call[c].step \notin {"ok", "error"}
                       /\ call[c].step # "idle" => /\ call'[c].kind = call[c].kind
                                                  /\ call'[c].user = call[c].user
                                                  /\ call'[c].objects = call[c].objects
                                                  /\ call'[c].prior = call[c].prior
                       /\ call[c].step = "idle" => /\ call'[c].step = "find"
                                                  /\ call'[c].prior = Acknowledged
                       /\ \A d \in Call \ {c} : call'[d] = call[d]
<1> USE DEF TypeOK, CallState, At, GoTo
<1>1. CASE UNCHANGED vars
  BY <1>1 DEF vars
<1>2. ASSUME NEW c \in Call, NEW u \in User, NEW kind \in {"add", "new", "report"},
             Begin(c, kind, u)
      PROVE  Moves(c)
  BY <1>2 DEF Begin
<1>3. ASSUME NEW c \in Call, Fail(c) \/ AddFind(c) \/ AddFactory(c) \/ AddInsert(c)
                             \/ ReportStats(c)
      PROVE  Moves(c)
  BY <1>3 DEF Fail, AddFind, AddFactory, AddInsert, ReportStats
<1>4. ASSUME NEW c \in Call, NEW i \in DOMAIN docs,
             NewFind(c, docs[i]) \/ NewWrite(c, i) \/ ReportWrite(c, i)
      PROVE  Moves(c)
  BY <1>4 DEF NewFind, NewWrite, ReportWrite
<1>5. ASSUME NEW c \in Call, NEW i \in DOMAIN docs, ReportFind(c, docs[i])
      PROVE  Moves(c)
  BY <1>5 DEF ReportFind
<1>6. UNCHANGED call \/ \E c \in Call : Moves(c)
  <2> HIDE DEF Moves, TypeOK, CallState, At, GoTo
  <2> QED
    BY <1>2, <1>3, <1>4, <1>5 DEF Next, CallNext, Login, vars
<1> QED
  BY <1>1, <1>6

-----------------------------------------------------------------------------
\* Whose documents they are.

\* Who added a device has added it.
LEMMA AddersGrow ==
  ASSUME TypeOK, [Next]_vars
  PROVE  Adders \subseteq Adders'
<1>1. ASSUME NEW c \in Call, At(c, "add", "error") PROVE call'[c] = call[c]
  BY <1>1, OneCallMoves DEF At
<1> QED
  BY <1>1 DEF Adders, At

\* What is written to a document comes from a document that was read before.
WritersInv ==
  /\ OnlyAdders
  /\ \A c \in Call : At(c, "new", "write") => call[c].user \in Adders
  /\ \A c \in Call : At(c, "report", "write") =>
       /\ call[c].read.owner \in Adders
       /\ call[c].read.manager \in Adders

\* At the beginning nothing is read or written.
LEMMA WritersInit == Init => WritersInv
BY DEF Init, WritersInv, OnlyAdders, At, Idle, NewDocument

\* A step keeps WritersInv.
LEMMA WritersStep == TypeOK /\ WritersInv /\ [Next]_vars => WritersInv'
<1> SUFFICES ASSUME TypeOK, WritersInv, [Next]_vars PROVE WritersInv'
  OBVIOUS
<1> USE DEF WritersInv, At, GoTo
<1>0. /\ docs \in Seq(Document) /\ call \in [Call -> CallState]
      /\ \A c \in Call : call[c].kind # "none" => call[c].user \in User
      /\ Adders \subseteq Adders'
  BY AddersGrow DEF TypeOK
<1>1. CASE UNCHANGED vars
  BY <1>0, <1>1 DEF vars, OnlyAdders
<1>2. ASSUME NEW c \in Call, NEW u \in User, NEW kind \in {"add", "new", "report"},
             Begin(c, kind, u)
      PROVE  WritersInv'
  BY <1>0, <1>2 DEF Begin, OnlyAdders
<1>3. ASSUME NEW c \in Call, Fail(c) \/ AddFind(c) \/ AddFactory(c) \/ ReportStats(c)
      PROVE  WritersInv'
  <2>1. docs' = docs /\ \A d \in Call \ {c} : call'[d] = call[d]
    BY <1>0, <1>3 DEF Fail, AddFind, AddFactory, ReportStats
  <2>2. call'[c].step # "write"
    BY <1>0, <1>3 DEF Fail, AddFind, AddFactory, ReportStats, CallState
  <2>3. OnlyAdders'
    BY <1>0, <2>1 DEF OnlyAdders
  <2> QED
    BY <1>0, <2>1, <2>2, <2>3
<1>4. ASSUME NEW c \in Call, AddInsert(c) PROVE WritersInv'
  <2>1. OnlyAdders'
    <3>1. call[c].user \in Adders'
      BY <1>0, <1>4 DEF AddInsert, Adders, CallState
    <3> QED
      BY <1>0, <1>4, <3>1 DEF AddInsert, OnlyAdders, NewDocument
  <2> QED
    BY <1>0, <1>4, <2>1 DEF AddInsert
<1>5. ASSUME NEW c \in Call, NEW i \in DOMAIN docs, NewFind(c, docs[i]) PROVE WritersInv'
  BY <1>0, <1>5 DEF NewFind, Allowed, OnlyAdders
<1>6. ASSUME NEW c \in Call, NEW i \in DOMAIN docs, NewWrite(c, i) PROVE WritersInv'
  <2>1. OnlyAdders'
    BY <1>0, <1>6 DEF NewWrite, OnlyAdders, Document
  <2> QED
    BY <1>0, <1>6, <2>1 DEF NewWrite
<1>7. ASSUME NEW c \in Call, NEW i \in DOMAIN docs, ReportFind(c, docs[i]) PROVE WritersInv'
  <2>1. PICK read \in Reported(c, docs[i]) :
          call' = [call EXCEPT ![c].step = "write", ![c].read = read]
    BY <1>7 DEF ReportFind
  <2>2. docs[i] \in Document /\ docs[i].owner \in Adders /\ call[c].user = docs[i].owner
    BY <1>0, <1>7 DEF ReportFind, Allowed, OnlyAdders
  <2>3. read.owner \in Adders /\ read.manager \in Adders
    <3>1. read = [docs[i] EXCEPT !.value = ReportedValue(c, docs[i]), !.manager = call[c].user]
      BY <2>1 DEF Reported
    <3> QED
      BY <2>2, <3>1 DEF Document
  <2>4. call'[c].read = read /\ \A d \in Call \ {c} : call'[d] = call[d]
    BY <1>0, <2>1 DEF CallState
  <2>5. call'[c].kind = "report"
    BY <1>0, <1>7, <2>1 DEF CallState, ReportFind
  <2>6. docs' = docs
    BY <1>7 DEF ReportFind
  <2>7. OnlyAdders'
    BY <1>0, <2>6 DEF OnlyAdders
  <2> QED
    BY <1>0, <2>3, <2>4, <2>5, <2>6, <2>7
<1>8. ASSUME NEW c \in Call, NEW i \in DOMAIN docs, ReportWrite(c, i) PROVE WritersInv'
  <2>1. OnlyAdders'
    BY <1>0, <1>8 DEF ReportWrite, OnlyAdders
  <2> QED
    BY <1>0, <1>8, <2>1 DEF ReportWrite
<1>9. ASSUME NEW u \in User, Login(u) PROVE WritersInv'
  BY <1>0, <1>9 DEF Login, OnlyAdders
<1> QED
  BY <1>1, <1>2, <1>3, <1>4, <1>5, <1>6, <1>7, <1>8, <1>9 DEF Next, CallNext

\* Only users who added the device own or manage a document of it
\* (device_handler.py:30-147, device.py:35-94).
THEOREM OnlyAddersHold == Spec => []OnlyAdders
<1>1. Spec => [](TypeOK /\ WritersInv)
  BY TypeInit, TypeStep, WritersInit, WritersStep, PTL DEF Spec
<1>2. WritersInv => OnlyAdders
  BY DEF WritersInv
<1> QED
  BY <1>1, <1>2, PTL

\* A document, and one that is waiting to be written, has the values of all
\* objects once it has one: a registration writes all, and a report finds one.
Whole(doc) == (\E o \in Object : doc.value[o] # Nobody) => \A o \in Object : doc.value[o] # Nobody
WholeInv ==
  /\ \A i \in DOMAIN docs : Whole(docs[i])
  /\ \A c \in Call : call[c].kind = "report" => \E o \in Object : call[c].objects = {o}
  /\ \A c \in Call : At(c, "report", "write") =>
       \A o \in Object : call[c].read.value[o] # Nobody

\* At the beginning no object has a value.
LEMMA WholeInit == Init => WholeInv
BY DEF Init, WholeInv, At, Idle

\* A step keeps WholeInv.
LEMMA WholeStep == TypeOK /\ WholeInv /\ [Next]_vars => WholeInv'
<1> SUFFICES ASSUME TypeOK, WholeInv, [Next]_vars PROVE WholeInv'
  OBVIOUS
<1> USE DEF At, GoTo
<1>0. /\ docs \in Seq(Document) /\ call \in [Call -> CallState]
      /\ \A c \in Call : c # Nobody
  BY NobodyIsNobody DEF TypeOK
<1>1. CASE UNCHANGED vars
  BY <1>1 DEF vars, WholeInv
<1>2. ASSUME NEW c \in Call, NEW u \in User, NEW kind \in {"add", "new", "report"},
             Begin(c, kind, u)
      PROVE  WholeInv'
  <2>1. /\ docs' = docs /\ \A d \in Call \ {c} : call'[d] = call[d]
        /\ call'[c].kind = kind /\ call'[c].step = "find"
    BY <1>0, <1>2 DEF Begin
  <2>2. kind = "report" => \E o \in Object : call'[c].objects = {o}
    <3>1. PICK objects \in Subjects(kind) : call'[c].objects = objects
      BY <1>0, <1>2 DEF Begin
    <3> QED
      BY <3>1 DEF Subjects
  <2> QED
    BY <2>1, <2>2 DEF WholeInv
<1>3. ASSUME NEW c \in Call,
             \/ Fail(c) \/ AddFind(c) \/ AddFactory(c) \/ ReportStats(c)
             \/ \E i \in DOMAIN docs : NewFind(c, docs[i])
      PROVE  WholeInv'
  <2>1. docs' = docs /\ \A d \in Call \ {c} : call'[d] = call[d]
    BY <1>0, <1>3 DEF Fail, AddFind, AddFactory, ReportStats, NewFind
  <2>2. call'[c].kind = call[c].kind /\ call'[c].objects = call[c].objects
    BY <1>0, <1>3 DEF Fail, AddFind, AddFactory, ReportStats, NewFind, CallState
  <2>3. ~(call'[c].kind = "report" /\ call'[c].step = "write")
    BY <1>0, <1>3 DEF Fail, AddFind, AddFactory, ReportStats, NewFind, CallState
  <2> QED
    BY <2>1, <2>2, <2>3 DEF WholeInv
<1>4. ASSUME NEW c \in Call, AddInsert(c) PROVE WholeInv'
  <2>1. \A i \in DOMAIN docs' : Whole(docs'[i])
    <3>1. Whole(NewDocument(call[c].user))
      BY DEF Whole, NewDocument
    <3>2. \A i \in DOMAIN docs' : \/ docs'[i] = NewDocument(call[c].user)
                                  \/ i \in DOMAIN docs /\ docs'[i] = docs[i]
      <4>1. docs' = Append(docs, NewDocument(call[c].user))
        BY <1>4 DEF AddInsert
      <4>2. call[c].user \in User \cup {Nobody}
        BY <1>0 DEF CallState
      <4>3. NewDocument(call[c].user) \in Document
        BY <4>2, NewDocumentType
      <4>4. /\ Len(docs) \in Nat /\ DOMAIN docs = 1 .. Len(docs)
            /\ DOMAIN docs' = 1 .. Len(docs) + 1
            /\ docs'[Len(docs) + 1] = NewDocument(call[c].user)
            /\ \A i \in DOMAIN docs : docs'[i] = docs[i]
        BY <1>0, <4>1, <4>3, AppendProperties, LenProperties
      <4> QED
        BY <4>4
    <3> QED
      BY <3>1, <3>2 DEF WholeInv
  <2>2. /\ \A d \in Call \ {c} : call'[d] = call[d]
        /\ call'[c].kind = "add"
    BY <1>0, <1>4 DEF AddInsert, CallState
  <2> QED
    BY <2>1, <2>2 DEF WholeInv, Whole
<1>5. ASSUME NEW c \in Call, NEW i \in DOMAIN docs, NewWrite(c, i) PROVE WholeInv'
  <2>1. \A j \in DOMAIN docs' : Whole(docs'[j])
    <3>1. docs'[i].value = [o \in Object |-> c]
      <4>1. docs[i] \in Document
        BY <1>0
      <4> QED
        BY <1>0, <1>5, <4>1 DEF NewWrite, Document
    <3>2. Whole(docs'[i])
      BY <1>0, <3>1 DEF Whole
    <3>3. \A j \in DOMAIN docs' : j = i \/ (j \in DOMAIN docs /\ docs'[j] = docs[j])
      <4> DEFINE new == [docs[i] EXCEPT !.value = [o \in Object |-> c], !.manager = call[c].user]
      <4>1. docs' = [docs EXCEPT ![i] = new]
        BY <1>5 DEF NewWrite
      <4>2. docs \in [DOMAIN docs -> Document]
        BY <1>0, LenProperties
      <4> HIDE DEF new
      <4> QED
        BY <4>1, <4>2
    <3> QED
      BY <3>2, <3>3 DEF WholeInv
  <2>2. /\ \A d \in Call \ {c} : call'[d] = call[d]
        /\ call'[c].kind = "new"
    BY <1>0, <1>5 DEF NewWrite, CallState
  <2> QED
    BY <2>1, <2>2 DEF WholeInv, Whole
<1>6. ASSUME NEW c \in Call, NEW i \in DOMAIN docs, ReportFind(c, docs[i]) PROVE WholeInv'
  <2>1. PICK read \in Reported(c, docs[i]) :
          call' = [call EXCEPT ![c].step = "write", ![c].read = read]
    BY <1>6 DEF ReportFind
  <2>2. /\ read.value = ReportedValue(c, docs[i])
        /\ \A o \in call[c].objects : docs[i].value[o] # Nobody
    <3>1. /\ read = [docs[i] EXCEPT !.value = ReportedValue(c, docs[i]),
                                  !.manager = call[c].user]
          /\ \A o \in call[c].objects : docs[i].value[o] # Nobody
      BY <2>1 DEF Reported
    <3>2. docs[i] \in Document
      BY <1>0
    <3> QED
      BY <3>1, <3>2 DEF Document
  <2>3. PICK o \in Object : call[c].objects = {o}
    BY <1>6 DEF ReportFind, WholeInv
  <2>4. \A p \in Object : docs[i].value[p] # Nobody
    BY <2>2, <2>3 DEF WholeInv, Whole
  <2>5. \A p \in Object : read.value[p] # Nobody
    BY <1>0, <2>2, <2>4 DEF ReportedValue
  <2>6. /\ docs' = docs /\ \A d \in Call \ {c} : call'[d] = call[d]
        /\ call'[c].kind = call[c].kind /\ call'[c].objects = call[c].objects
        /\ call'[c].read = read
    BY <1>0, <1>6, <2>1 DEF ReportFind, CallState
  <2> QED
    BY <2>5, <2>6 DEF WholeInv
<1>7. ASSUME NEW c \in Call, NEW i \in DOMAIN docs, ReportWrite(c, i) PROVE WholeInv'
  <2>1. \A j \in DOMAIN docs' : Whole(docs'[j])
    BY <1>0, <1>7 DEF ReportWrite, WholeInv, Whole
  <2>2. /\ \A d \in Call \ {c} : call'[d] = call[d]
        /\ call'[c].kind = call[c].kind /\ call'[c].objects = call[c].objects
        /\ call'[c].step = "stats"
    BY <1>0, <1>7 DEF ReportWrite, CallState
  <2> QED
    BY <2>1, <2>2 DEF WholeInv, Whole
<1>8. ASSUME NEW u \in User, Login(u) PROVE WholeInv'
  BY <1>8 DEF Login, WholeInv
<1> QED
  <2> HIDE DEF At, GoTo
  <2> QED
    BY <1>1, <1>2, <1>3, <1>4, <1>5, <1>6, <1>7, <1>8 DEF Next, CallNext

\* No update takes an object from a document.
LEMMA KeptStep ==
  TypeOK /\ WholeInv /\ [Next]_vars
    => [\A i \in DOMAIN docs, o \in Object :
          docs[i].value[o] # Nobody => docs'[i].value[o] # Nobody]_vars
<1> SUFFICES ASSUME TypeOK, WholeInv, Next,
                    NEW i \in DOMAIN docs, NEW o \in Object, docs[i].value[o] # Nobody
             PROVE  docs'[i].value[o] # Nobody
  OBVIOUS
<1>1. docs \in Seq(Document) /\ \A c \in Call : c # Nobody
  BY NobodyIsNobody DEF TypeOK
<1>2. CASE UNCHANGED docs
  BY <1>2
<1>3. ASSUME NEW c \in Call, AddInsert(c) PROVE docs'[i].value[o] # Nobody
  BY <1>1, <1>3 DEF AddInsert
<1>4. ASSUME NEW c \in Call, NEW j \in DOMAIN docs, NewWrite(c, j)
      PROVE  docs'[i].value[o] # Nobody
  BY <1>1, <1>4 DEF NewWrite, Document
<1>5. ASSUME NEW c \in Call, NEW j \in DOMAIN docs, ReportWrite(c, j)
      PROVE  docs'[i].value[o] # Nobody
  BY <1>1, <1>5 DEF ReportWrite, WholeInv
<1> QED
  BY <1>2, <1>3, <1>4, <1>5
  DEF Next, CallNext, Login, Begin, Fail, AddFind, AddFactory, NewFind, ReportFind, ReportStats

\* A registered device stays registered (device_handler.py:102-147).
THEOREM RegistrationIsKept == Spec => RegistrationKept
<1>1. Spec => [](TypeOK /\ WholeInv)
  BY TypeInit, TypeStep, WholeInit, WholeStep, PTL DEF Spec
<1> QED
  BY <1>1, KeptStep, PTL DEF Spec, RegistrationKept

\* Nor does one take an object from the document of a device that was there when the
\* calls began (device_handler.py:104-136).
THEOREM AddedRegistrationIsKept == AddedSpec => RegistrationKept
<1>1. InitAdded => WholeInv
  <2> SUFFICES ASSUME InitAdded PROVE WholeInv
    OBVIOUS
  <2>1. PICK u \in User : docs = <<NewDocument(u)>>
    BY DEF InitAdded
  <2>2. \A i \in DOMAIN docs : docs[i] = NewDocument(u)
    BY <2>1
  <2>3. \A c \in Call : call[c] = Idle
    BY DEF InitAdded
  <2>4. \A i \in DOMAIN docs : Whole(docs[i])
    BY <2>2 DEF Whole, NewDocument
  <2> QED BY <2>3, <2>4 DEF WholeInv, At, Idle
<1>2. AddedSpec => [](TypeOK /\ WholeInv)
  BY <1>1, TypeInit, TypeStep, WholeStep, PTL DEF AddedSpec
<1> QED
  BY <1>2, KeptStep, PTL DEF AddedSpec, RegistrationKept

-----------------------------------------------------------------------------
\* A device that is added when the calls begin.

\* It keeps its one document, since no add gets past the question for it, and
\* all that waits to be written is for the owner and the owner's gateway.
AddedInv ==
  /\ Len(docs) = 1
  /\ docs[1].manager \in {Nobody, docs[1].owner}
  /\ \A c \in Call : call[c].kind = "none" => call[c].step = "idle"
  /\ \A c \in Call : call[c].kind = "add" => call[c].step \in {"idle", "find", "failed"}
  /\ \A c \in Call : At(c, "new", "write") => call[c].user = docs[1].owner
  /\ \A c \in Call : At(c, "report", "write") =>
       /\ call[c].read.owner = docs[1].owner
       /\ call[c].read.manager = docs[1].owner

\* What was acknowledged before a call stays so.  A value from before a call that
\* has written is in the document only if a report overtook the call, and is
\* waiting to be written only by a report that will have.
FreshInv ==
  /\ \A c \in Call : call[c].prior \subseteq Acknowledged
  /\ \A d \in Call : At(d, "report", "write") =>
       \A o \in call[d].objects : call[d].read.value[o] = d
  /\ \A c \in Call : Written(c) => \A o \in call[c].objects :
       docs[1].value[o] \in call[c].prior => \E e \in Call : Overtook(e, c, o)
  /\ \A c, d \in Call : Written(c) /\ At(d, "report", "write") => \A o \in call[c].objects :
       call[d].read.value[o] \in call[c].prior =>
         \/ \E e \in Call : Overtook(e, c, o)
         \/ o \notin call[d].objects /\ c \notin call[d].prior

\* The invariants hold when the device has been added.
LEMMA AddedInit == InitAdded => AddedInv /\ FreshInv
<1> SUFFICES ASSUME InitAdded PROVE AddedInv /\ FreshInv
  OBVIOUS
<1>1. PICK u \in User : docs = <<NewDocument(u)>>
  BY DEF InitAdded
<1>2. Len(docs) = 1 /\ docs[1].manager = Nobody
  BY <1>1 DEF NewDocument
<1>3. \A c \in Call : call[c].kind = "none" /\ call[c].step = "idle" /\ call[c].prior = {}
  BY DEF InitAdded, Idle
<1> QED
  BY <1>2, <1>3 DEF AddedInv, FreshInv, Written, At

\* A step keeps AddedInv.
LEMMA AddedStep == TypeOK /\ AddedInv /\ [Next]_vars => AddedInv'
<1> SUFFICES ASSUME TypeOK, AddedInv, [Next]_vars PROVE AddedInv'
  OBVIOUS
<1> USE DEF AddedInv, At, GoTo
<1>0. /\ docs \in Seq(Document) /\ call \in [Call -> CallState]
      /\ Len(docs) = 1 /\ DOMAIN docs = {1} /\ docs[1] \in Document
  BY DEF TypeOK
<1>1. CASE UNCHANGED vars
  BY <1>1 DEF vars
<1>2. ASSUME NEW c \in Call, NEW u \in User, NEW kind \in {"add", "new", "report"},
             Begin(c, kind, u)
      PROVE  AddedInv'
  BY <1>0, <1>2 DEF Begin
<1>3. ASSUME NEW c \in Call, Fail(c) PROVE AddedInv'
  BY <1>0, <1>3 DEF Fail
<1>4. ASSUME NEW c \in Call, AddFind(c) \/ AddFactory(c) \/ AddInsert(c) PROVE FALSE
  <2>1. Len(<<>>) = 0 /\ Len(docs) = 1
    BY <1>0
  <2>2. docs # <<>>
    BY <2>1
  <2> QED
    BY <1>4, <2>2 DEF AddFind, NoDevice, AddFactory, AddInsert
<1>5. ASSUME NEW c \in Call, NewFind(c, docs[1]) PROVE AddedInv'
  BY <1>0, <1>5 DEF NewFind, Allowed
<1>6. ASSUME NEW c \in Call, NewWrite(c, 1) PROVE AddedInv'
  <2>1. \A d \in Call \ {c} : call'[d] = call[d]
    BY <1>0, <1>6 DEF NewWrite
  <2>2. call'[c].step = "ok" /\ call'[c].kind = "new"
    BY <1>0, <1>6 DEF NewWrite, CallState
  <2>3. Len(docs') = 1 /\ docs'[1].owner = docs[1].owner /\ docs'[1].manager = docs[1].owner
    BY <1>0, <1>6 DEF NewWrite, Document
  <2> QED
    BY <2>1, <2>2, <2>3
<1>7. ASSUME NEW c \in Call, ReportFind(c, docs[1]) PROVE AddedInv'
  <2>1. PICK read \in Reported(c, docs[1]) :
          call' = [call EXCEPT ![c].step = "write", ![c].read = read]
    BY <1>7 DEF ReportFind
  <2>2. read = [docs[1] EXCEPT !.value = ReportedValue(c, docs[1]), !.manager = call[c].user]
    BY <2>1 DEF Reported
  <2>3. read.owner = docs[1].owner /\ read.manager = docs[1].owner
    BY <1>0, <1>7, <2>2 DEF ReportFind, Allowed, Document
  <2>4. call'[c].read = read /\ \A d \in Call \ {c} : call'[d] = call[d]
    BY <1>0, <2>1 DEF CallState
  <2>5. call'[c].kind = "report"
    BY <1>0, <1>7, <2>1 DEF CallState, ReportFind
  <2>6. docs' = docs
    BY <1>7 DEF ReportFind
  <2> QED
    BY <2>3, <2>4, <2>5, <2>6
<1>8. ASSUME NEW c \in Call, ReportWrite(c, 1) PROVE AddedInv'
  <2>1. \A d \in Call \ {c} : call'[d] = call[d]
    BY <1>0, <1>8 DEF ReportWrite
  <2>2. call'[c].step = "stats" /\ call'[c].kind = "report"
    BY <1>0, <1>8 DEF ReportWrite, CallState
  <2>3. Len(docs') = 1 /\ docs'[1].owner = docs[1].owner /\ docs'[1].manager = docs[1].owner
    BY <1>0, <1>8 DEF ReportWrite
  <2> QED
    BY <2>1, <2>2, <2>3
<1>9. ASSUME NEW c \in Call, ReportStats(c) PROVE AddedInv'
  BY <1>0, <1>9 DEF ReportStats
<1>10. ASSUME NEW u \in User, Login(u) PROVE AddedInv'
  BY <1>10 DEF Login
<1> QED
  <2> HIDE DEF AddedInv, At, GoTo
  <2> QED
    BY <1>0, <1>1, <1>2, <1>3, <1>4, <1>5, <1>6, <1>7, <1>8, <1>9, <1>10 DEF Next, CallNext

\* A call that has written stays one, and stays overtaken.
LEMMA WrittenStays ==
  ASSUME TypeOK, [Next]_vars
  PROVE  /\ \A c \in Call : Written(c) => /\ Written(c)'
                                          /\ call'[c].kind = call[c].kind
                                          /\ call'[c].objects = call[c].objects
                                          /\ call'[c].prior = call[c].prior
         /\ \A c, e \in Call, o \in Object :
              Written(c) /\ Overtook(e, c, o) => Overtook(e, c, o)'
<1>0. call \in [Call -> CallState]
  BY DEF TypeOK
<1>1. ASSUME NEW c \in Call, Written(c)
      PROVE  /\ Written(c)'
             /\ call'[c].kind = call[c].kind
             /\ call'[c].objects = call[c].objects
             /\ call'[c].prior = call[c].prior
  <2>1. CASE call'[c] = call[c]
    BY <1>1, <2>1 DEF Written, At
  <2>2. CASE call'[c] # call[c]
    <3>1. call[c].step = "stats" /\ call[c].kind = "report"
      BY <1>1, <2>2, OneCallMoves DEF Written, At
    <3>2. /\ call'[c].kind = call[c].kind
          /\ call'[c].objects = call[c].objects
          /\ call'[c].prior = call[c].prior
      BY <2>2, <3>1, OneCallMoves
    <3>3. call'[c].step = "ok"
      <4>1. ASSUME NEW d \in Call, NEW u \in User, NEW kind \in {"add", "new", "report"},
                   Begin(d, kind, u)
            PROVE  call'[c] = call[c]
        BY <1>0, <3>1, <4>1 DEF Begin
      <4>2. ASSUME NEW d \in Call, Fail(d) \/ AddFind(d) \/ AddFactory(d) \/ AddInsert(d)
            PROVE  call'[c] = call[c]
        BY <1>0, <3>1, <4>2 DEF Fail, AddFind, AddFactory, AddInsert, At, GoTo
      <4>3. ASSUME NEW d \in Call, NEW i \in DOMAIN docs,
                   \/ NewFind(d, docs[i]) \/ NewWrite(d, i)
                   \/ ReportFind(d, docs[i]) \/ ReportWrite(d, i)
            PROVE  call'[c] = call[c]
        BY <1>0, <3>1, <4>3 DEF NewFind, NewWrite, ReportFind, ReportWrite, At, GoTo
      <4>4. ASSUME NEW d \in Call, ReportStats(d)
            PROVE  call'[c] = call[c] \/ call'[c].step = "ok"
        BY <1>0, <4>4 DEF ReportStats, GoTo, CallState
      <4> QED
        BY <2>2, <4>1, <4>2, <4>3, <4>4 DEF Next, CallNext, Login, vars
    <3> QED
      BY <3>1, <3>2, <3>3 DEF Written, At
  <2> QED
    BY <2>1, <2>2
<1> QED
  BY <1>1 DEF Overtook

\* What a step does to the document and to what waits to be written to it.
LEMMA DocumentStep ==
  ASSUME TypeOK, AddedInv, [Next]_vars
  PROVE  \/ /\ docs' = docs
            /\ \A c \in Call : Written(c)' => Written(c)
            /\ \A d \in Call : At(d, "report", "write")' =>
                 \/ At(d, "report", "write") /\ call'[d].read = call[d].read
                 \/ /\ call'[d].read.value = ReportedValue(d, docs[1])
                    /\ call[d].step = "find" /\ call[d].kind = "report"
         \/ \E w \in Call :
              /\ \A c \in Call \ {w} : call'[c] = call[c]
              /\ \/ At(w, "new", "write") /\ docs'[1].value = [o \in Object |-> w]
                 \/ At(w, "report", "write") /\ docs'[1].value = call[w].read.value
              /\ Written(w)' /\ ~At(w, "report", "write")'
              /\ call'[w].kind = call[w].kind
<1> USE DEF At, GoTo
<1>0. /\ call \in [Call -> CallState] /\ docs \in Seq(Document)
      /\ Len(docs) = 1 /\ DOMAIN docs = {1} /\ docs[1] \in Document
  BY DEF TypeOK, AddedInv
<1> DEFINE Reads == \A d \in Call : At(d, "report", "write")' =>
                      \/ At(d, "report", "write") /\ call'[d].read = call[d].read
                      \/ /\ call'[d].read.value = ReportedValue(d, docs[1])
                         /\ call[d].step = "find" /\ call[d].kind = "report"
           Same == docs' = docs /\ (\A c \in Call : Written(c)' => Written(c)) /\ Reads
           Writes(w) == /\ \A c \in Call \ {w} : call'[c] = call[c]
                        /\ \/ At(w, "new", "write") /\ docs'[1].value = [o \in Object |-> w]
                           \/ At(w, "report", "write") /\ docs'[1].value = call[w].read.value
                        /\ Written(w)' /\ ~At(w, "report", "write")'
                        /\ call'[w].kind = call[w].kind
<1>1. ASSUME UNCHANGED vars PROVE Same
  BY <1>1 DEF vars, Written
<1>2. ASSUME NEW c \in Call, NEW u \in User, NEW kind \in {"add", "new", "report"},
             Begin(c, kind, u)
      PROVE  Same
  <2>1. docs' = docs /\ call'[c].step = "find" /\ \A d \in Call \ {c} : call'[d] = call[d]
    BY <1>0, <1>2 DEF Begin
  <2> QED
    BY <2>1 DEF Written
<1>3. ASSUME NEW c \in Call, Fail(c) \/ NewFind(c, docs[1]) \/ ReportStats(c)
      PROVE  Same
  <2>1. docs' = docs /\ \A d \in Call \ {c} : call'[d] = call[d]
    BY <1>0, <1>3 DEF Fail, NewFind, ReportStats
  <2>2. Written(c)' => Written(c)
    BY <1>0, <1>3 DEF Fail, NewFind, ReportStats, Written, CallState
  <2>3. ~At(c, "report", "write")'
    BY <1>0, <1>3 DEF Fail, NewFind, ReportStats, CallState
  <2> QED
    BY <2>1, <2>2, <2>3 DEF Written
<1>4. ASSUME NEW c \in Call, AddFind(c) \/ AddFactory(c) \/ AddInsert(c) PROVE FALSE
  <2>1. Len(<<>>) = 0 /\ Len(docs) = 1
    BY <1>0
  <2>2. docs # <<>>
    BY <2>1
  <2> QED
    <3>1. call[c].kind = "add" /\ call[c].step \in {"factory", "insert"}
      BY <1>4, <2>2 DEF AddFind, NoDevice, AddFactory, AddInsert
    <3> QED
      BY <3>1 DEF AddedInv
<1>5. ASSUME NEW c \in Call, ReportFind(c, docs[1]) PROVE Same
  <2>1. PICK read \in Reported(c, docs[1]) :
          call' = [call EXCEPT ![c].step = "write", ![c].read = read]
    BY <1>5 DEF ReportFind
  <2>2. read.value = ReportedValue(c, docs[1])
    BY <1>0, <2>1 DEF Reported, Document
  <2>3. /\ call'[c].step = "write" /\ call'[c].read = read
        /\ \A d \in Call \ {c} : call'[d] = call[d]
    BY <1>0, <2>1 DEF CallState
  <2> QED
    BY <1>5, <2>2, <2>3 DEF ReportFind, Written
<1>6. ASSUME NEW c \in Call, NewWrite(c, 1) PROVE Writes(c)
  <2>1. docs'[1].value = [o \in Object |-> c]
    BY <1>0, <1>6 DEF NewWrite, Document
  <2> QED
    BY <1>0, <1>6, <2>1 DEF NewWrite, Written, CallState
<1>7. ASSUME NEW c \in Call, ReportWrite(c, 1) PROVE Writes(c)
  BY <1>0, <1>7 DEF ReportWrite, Written, CallState
<1>8. ASSUME NEW u \in User, Login(u) PROVE Same
  BY <1>8 DEF Login, Written
<1> HIDE DEF Same, Writes, At, GoTo
<1>9. Same \/ \E c \in Call : Writes(c)
  BY <1>0, <1>2, <1>3, <1>4, <1>5, <1>6, <1>7, <1>8, <1>1 DEF Next, CallNext
<1> QED
  BY <1>9 DEF Same, Writes, At

\* A step keeps FreshInv: the values a call writes are its own, which are not
\* acknowledged yet and so before no other call, or those it read; and when these
\* are from before a call that has written meanwhile, it has overtaken that call.
LEMMA FreshStep == TypeOK /\ AddedInv /\ FreshInv /\ [Next]_vars => FreshInv'
<1> SUFFICES ASSUME TypeOK, AddedInv, FreshInv, [Next]_vars PROVE FreshInv'
  OBVIOUS
<1>0. /\ call \in [Call -> CallState] /\ docs[1] \in Document
      /\ \A c \in Call : call[c].objects \subseteq Object
  <2>1. call \in [Call -> CallState] /\ docs \in Seq(Document) /\ DOMAIN docs = {1}
    BY DEF TypeOK, AddedInv
  <2> QED
    BY <2>1 DEF CallState
<1>1. Acknowledged \subseteq Acknowledged'
  BY OneCallMoves DEF Acknowledged
<1>2. \A c \in Call : \/ call'[c].prior = call[c].prior
                      \/ call'[c].prior = Acknowledged /\ call'[c].step = "find"
  BY OneCallMoves
<1>3. ASSUME NEW c \in Call PROVE call'[c].prior \subseteq Acknowledged'
  BY <1>1, <1>2 DEF FreshInv
<1>4. /\ \A c \in Call : Written(c) => /\ Written(c)'
                                       /\ call'[c].objects = call[c].objects
                                       /\ call'[c].prior = call[c].prior
      /\ \A c, e \in Call, o \in Object :
           Written(c) /\ Overtook(e, c, o) => Overtook(e, c, o)'
  BY WrittenStays
\* Who is not at an end is before nobody.
<1>5. \A c, d \in Call : call[d].step # "ok" => d \notin call[c].prior
  BY DEF FreshInv, Acknowledged
<1>6. \A d \in Call : call[d].step \notin {"idle", "ok"} =>
        /\ call'[d].objects = call[d].objects /\ call'[d].prior = call[d].prior
  BY OneCallMoves
<1>7. CASE /\ docs' = docs
           /\ \A c \in Call : Written(c)' => Written(c)
           /\ \A d \in Call : At(d, "report", "write")' =>
                \/ At(d, "report", "write") /\ call'[d].read = call[d].read
                \/ /\ call'[d].read.value = ReportedValue(d, docs[1])
                   /\ call[d].step = "find" /\ call[d].kind = "report"
  <2>1. ASSUME NEW d \in Call, At(d, "report", "write")', NEW o \in call'[d].objects
        PROVE  call'[d].read.value[o] = d
    <3>1. CASE At(d, "report", "write") /\ call'[d].read = call[d].read
      BY <1>6, <2>1, <3>1 DEF FreshInv, At
    <3>2. CASE call'[d].read.value = ReportedValue(d, docs[1]) /\ call[d].step = "find"
      BY <1>0, <1>6, <2>1, <3>2 DEF ReportedValue
    <3> QED
      BY <1>7, <2>1, <3>1, <3>2
  <2>2. ASSUME NEW c \in Call, Written(c)', NEW o \in call'[c].objects,
               docs'[1].value[o] \in call'[c].prior
        PROVE  \E e \in Call : Overtook(e, c, o)'
    BY <1>0, <1>4, <1>7, <2>2 DEF FreshInv
  <2>3. ASSUME NEW c \in Call, NEW d \in Call, Written(c)', At(d, "report", "write")',
               NEW o \in call'[c].objects, call'[d].read.value[o] \in call'[c].prior
        PROVE  \/ \E e \in Call : Overtook(e, c, o)'
               \/ o \notin call'[d].objects /\ c \notin call'[d].prior
    <3>1. /\ Written(c) /\ o \in call[c].objects /\ o \in Object
          /\ call'[c].prior = call[c].prior
      BY <1>0, <1>4, <1>7, <2>3
    <3>2. CASE At(d, "report", "write") /\ call'[d].read = call[d].read
      BY <1>4, <1>6, <2>3, <3>1, <3>2 DEF FreshInv, At
    <3>3. CASE call'[d].read.value = ReportedValue(d, docs[1]) /\ call[d].step = "find"
      <4>1. call'[d].read.value[o] = IF o \in call[d].objects THEN d ELSE docs[1].value[o]
        BY <3>1, <3>3 DEF ReportedValue
      <4>2. d \notin call[c].prior
        BY <1>5, <3>3
      <4>3. docs[1].value[o] \in call[c].prior
        BY <2>3, <3>1, <4>1, <4>2
      <4> QED
        BY <1>4, <3>1, <4>3 DEF FreshInv
    <3> QED
      BY <1>7, <2>3, <3>2, <3>3
  <2> QED
    BY <1>3, <2>1, <2>2, <2>3 DEF FreshInv
<1>8. ASSUME NEW w \in Call,
             \A c \in Call \ {w} : call'[c] = call[c],
             \/ At(w, "new", "write") /\ docs'[1].value = [o \in Object |-> w]
             \/ At(w, "report", "write") /\ docs'[1].value = call[w].read.value,
             Written(w)', ~At(w, "report", "write")', call'[w].kind = call[w].kind
      PROVE  FreshInv'
  <2>1. /\ call'[w].objects = call[w].objects /\ call'[w].prior = call[w].prior
        /\ \A c \in Call : w \notin call[c].prior
    BY <1>5, <1>6, <1>8 DEF At
  <2>2. \A d \in Call : At(d, "report", "write")' =>
          d # w /\ At(d, "report", "write") /\ call'[d] = call[d]
    BY <1>8 DEF At
  <2>3. \A c \in Call : Written(c)' => c = w \/ Written(c)
    BY <1>8 DEF Written, At
  <2>4. \A c \in Call : call'[c].objects = call[c].objects /\ call'[c].prior = call[c].prior
    BY <1>8, <2>1
  <2>5. ASSUME NEW c \in Call, Written(c)', NEW o \in call'[c].objects,
               docs'[1].value[o] \in call'[c].prior
        PROVE  \E e \in Call : Overtook(e, c, o)'
    <3>1. o \in call[c].objects /\ o \in Object
      BY <1>0, <2>4, <2>5
    <3>2. At(w, "report", "write") /\ docs'[1].value = call[w].read.value
      BY <1>8, <2>1, <2>4, <2>5, <3>1
    <3>3. call[w].read.value[o] \in call[c].prior
      BY <2>4, <2>5, <3>2
    <3>4. c # w /\ Written(c)
      BY <2>1, <2>3, <2>5, <3>1, <3>2, <3>3 DEF FreshInv
    <3>5. CASE o \notin call[w].objects /\ c \notin call[w].prior
      BY <1>8, <2>1, <2>4, <3>2, <3>5 DEF Overtook, At
    <3> QED
      BY <1>4, <3>1, <3>2, <3>3, <3>4, <3>5 DEF FreshInv
  <2>6. ASSUME NEW c \in Call, NEW d \in Call, Written(c)', At(d, "report", "write")',
               NEW o \in call'[c].objects, call'[d].read.value[o] \in call'[c].prior
        PROVE  \/ \E e \in Call : Overtook(e, c, o)'
               \/ o \notin call'[d].objects /\ c \notin call'[d].prior
    <3>1. /\ o \in call[c].objects /\ o \in Object
          /\ At(d, "report", "write") /\ call[d].read.value[o] \in call[c].prior
      BY <1>0, <2>2, <2>4, <2>6
    <3>2. CASE c = w
      <4>1. d \notin call[c].prior
        BY <1>5, <3>1 DEF At
      <4>2. o \notin call[d].objects
        BY <3>1, <4>1 DEF FreshInv
      <4> QED
        BY <2>1, <2>4, <3>2, <4>2
    <3>3. CASE Written(c)
      BY <1>4, <2>4, <3>1, <3>3 DEF FreshInv
    <3> QED
      BY <2>3, <2>6, <3>2, <3>3
  <2>7. ASSUME NEW d \in Call, At(d, "report", "write")', NEW o \in call'[d].objects
        PROVE  call'[d].read.value[o] = d
    BY <2>2, <2>7 DEF FreshInv
  <2> QED
    BY <1>3, <2>5, <2>6, <2>7 DEF FreshInv
<1> QED
  BY <1>7, <1>8, DocumentStep

\* The invariants of an added device hold throughout.
LEMMA AddedInvariant == AddedSpec => [](TypeOK /\ AddedInv /\ FreshInv)
BY TypeInit, TypeStep, AddedInit, AddedStep, FreshStep, PTL DEF AddedSpec

\* A device that is added is not added again (device.py:66-70).
THEOREM AddedOnce == AddedSpec => []OneDocument
<1>1. AddedInv => OneDocument
  BY DEF AddedInv, OneDocument
<1> QED
  BY <1>1, AddedInvariant, PTL

\* Its gateway is its owner's (device_handler.py:45-48, :112-115).
THEOREM OwnersManage == AddedSpec => []OwnerManages
<1>1. TypeOK /\ AddedInv => OwnerManages
  BY DEF TypeOK, AddedInv, OwnerManages
<1> QED
  BY <1>1, AddedInvariant, PTL

\* Its value is never older than what was acknowledged before an acknowledged
\* call (device_handler.py:102-147).
THEOREM ValuesAreFresh == AddedSpec => []FreshValue
<1>1. TypeOK /\ AddedInv /\ FreshInv => FreshValue
  <2> SUFFICES ASSUME TypeOK, AddedInv, FreshInv PROVE FreshValue
    OBVIOUS
  <2>1. DOMAIN docs = {1}
    BY DEF TypeOK, AddedInv
  <2>2. ASSUME NEW c \in Acknowledged, NEW o \in Object, o \in call[c].objects
        PROVE  Written(c)
    <3>1. call[c].kind \in {"none", "add", "new", "report"}
      BY DEF TypeOK, CallState, Acknowledged
    <3> QED
      BY <3>1, <2>2 DEF AddedInv, Acknowledged, Written, At
  <2> QED
    BY <2>1, <2>2 DEF FreshInv, FreshValue, Acknowledged
<1> QED
  BY <1>1, AddedInvariant, PTL

-----------------------------------------------------------------------------
\* The documents are a store in which each call takes effect at one moment.

\* Registrations are about all objects.  Until a call is overtaken, a report that waits
\* to be written holds of the other objects what the document does, or a call that
\* the report's beginning did not see has stored them since.
AtomicInv ==
  /\ \A c \in Call : call[c].kind = "new" => call[c].objects = Object
  /\ NoneOvertaken => \A d \in Call : At(d, "report", "write") =>
       \A o \in Object \ call[d].objects :
         \/ call[d].read.value[o] = docs[1].value[o]
         \/ \E c \in Call : Written(c) /\ o \in call[c].objects /\ c \notin call[d].prior

\* It holds when the device has been added, and the store is empty.
LEMMA AtomicInit == InitAdded => AtomicInv /\ Store!Init
<1> SUFFICES ASSUME InitAdded PROVE AtomicInv /\ Store!Init
  OBVIOUS
<1>1. PICK u \in User : docs = <<NewDocument(u)>>
  BY DEF InitAdded
<1>2. docs[1].value = [o \in Object |-> Nobody]
  BY <1>1 DEF NewDocument
<1>3. \A c \in Call : /\ call[c].kind = "none" /\ call[c].step = "idle"
                       /\ call[c].objects = {}
  BY DEF InitAdded, Idle
<1>4. AtomicInv
  BY <1>3 DEF AtomicInv, At
<1>5. Store!Init
  BY <1>2, <1>3 DEF Store!Init, Progress
<1> QED
  BY <1>4, <1>5

\* A call that is overtaken stays so.
LEMMA OvertakenStays ==
  ASSUME TypeOK, [Next]_vars, NoneOvertaken'
  PROVE  NoneOvertaken
<1> SUFFICES ASSUME NEW c \in Call, NEW d \in Call, Written(c), NEW o \in call[c].objects,
                    Overtook(d, c, o)
             PROVE  FALSE
  BY DEF NoneOvertaken
<1>1. o \in Object
  BY DEF TypeOK, CallState
<1>2. Written(c)' /\ call'[c].objects = call[c].objects /\ Overtook(d, c, o)'
  BY <1>1, WrittenStays
<1> QED
  BY <1>2 DEF NoneOvertaken

\* A step keeps registrations about all objects.
LEMMA RegistersAll ==
  ASSUME TypeOK, [Next]_vars, \A c \in Call : call[c].kind = "new" => call[c].objects = Object
  PROVE  \A c \in Call : call'[c].kind = "new" => call'[c].objects = Object
<1> USE DEF At, GoTo
<1>0. call \in [Call -> CallState]
  BY DEF TypeOK
<1>1. ASSUME NEW c \in Call, NEW u \in User, NEW kind \in {"add", "new", "report"},
             Begin(c, kind, u)
      PROVE  /\ call'[c].kind = "new" => call'[c].objects = Object
             /\ \A d \in Call \ {c} : call'[d] = call[d]
  <2>1. PICK objects \in Subjects(kind) : call' = [call EXCEPT ![c] =
               [kind |-> kind, user |-> u, objects |-> objects, step |-> "find",
                read |-> NewDocument(Nobody), prior |-> Acknowledged]]
    BY <1>1 DEF Begin
  <2>2. kind = "new" => objects = Object
    BY <2>1 DEF Subjects
  <2> QED
    BY <1>0, <2>1, <2>2
<1> DEFINE Keeps == \A d \in Call : /\ call'[d].kind = call[d].kind
                                   /\ call'[d].objects = call[d].objects
<1>2. ASSUME NEW c \in Call,
             Fail(c) \/ AddFind(c) \/ AddFactory(c) \/ AddInsert(c) \/ ReportStats(c)
      PROVE  Keeps
  BY <1>0, <1>2 DEF Fail, AddFind, AddFactory, AddInsert, ReportStats, CallState
<1>3. ASSUME NEW c \in Call, NEW i \in DOMAIN docs,
             NewFind(c, docs[i]) \/ NewWrite(c, i) \/ ReportWrite(c, i)
      PROVE  Keeps
  BY <1>0, <1>3 DEF NewFind, NewWrite, ReportWrite, CallState
<1>4. ASSUME NEW c \in Call, NEW i \in DOMAIN docs, ReportFind(c, docs[i]) PROVE Keeps
  BY <1>0, <1>4 DEF ReportFind, CallState
<1>5. UNCHANGED call => Keeps
  OBVIOUS
<1>6. Keeps \/ \E c \in Call : /\ call'[c].kind = "new" => call'[c].objects = Object
                              /\ \A d \in Call \ {c} : call'[d] = call[d]
  <2> HIDE DEF Keeps, At, GoTo
  <2> QED
    BY <1>1, <1>2, <1>3, <1>4, <1>5 DEF Next, CallNext, Login, vars
<1> QED
  BY <1>6

\* A report that is written without overtaking a call writes of the other objects what
\* the document holds.
LEMMA WritesBackTheSame ==
  ASSUME TypeOK, FreshInv, AtomicInv, [Next]_vars, NoneOvertaken',
         NEW w \in Call, At(w, "report", "write"), Written(w)',
         \A c \in Call \ {w} : call'[c] = call[c]
  PROVE  \A o \in Object \ call[w].objects : call[w].read.value[o] = docs[1].value[o]
<1> SUFFICES ASSUME NEW o \in Object \ call[w].objects,
                    call[w].read.value[o] # docs[1].value[o]
             PROVE  FALSE
  OBVIOUS
<1>1. PICK c \in Call : Written(c) /\ o \in call[c].objects /\ c \notin call[w].prior
  BY OvertakenStays DEF AtomicInv
<1>2. c # w
  BY <1>1 DEF Written, At
<1>3. w \notin call[c].prior
  BY DEF FreshInv, Acknowledged, At
<1>4. /\ call'[w].kind = call[w].kind /\ call'[w].objects = call[w].objects
      /\ call'[w].prior = call[w].prior
  BY OneCallMoves DEF At
<1>5. Overtook(w, c, o)'
  BY <1>1, <1>2, <1>3, <1>4 DEF Overtook, At
<1>6. Written(c)' /\ o \in call'[c].objects
  BY <1>1, <1>2 DEF Written, At
<1> QED
  BY <1>5, <1>6 DEF NoneOvertaken

\* A step keeps AtomicInv: what a call stores is not seen by who read before it.
LEMMA AtomicInvStep == TypeOK /\ AddedInv /\ FreshInv /\ AtomicInv /\ [Next]_vars => AtomicInv'
<1> SUFFICES ASSUME TypeOK, AddedInv, FreshInv, AtomicInv, [Next]_vars PROVE AtomicInv'
  OBVIOUS
<1>1. \A c \in Call : call'[c].kind = "new" => call'[c].objects = Object
  BY RegistersAll DEF AtomicInv
<1> SUFFICES ASSUME NoneOvertaken', NEW d \in Call, At(d, "report", "write")',
                    NEW o \in Object, o \notin call'[d].objects
             PROVE  \/ call'[d].read.value[o] = docs'[1].value[o]
                    \/ \E c \in Call : /\ Written(c)' /\ o \in call'[c].objects
                                      /\ c \notin call'[d].prior
  BY <1>1 DEF AtomicInv
<1>2. \A c \in Call : Written(c) => /\ Written(c)'
                                    /\ call'[c].objects = call[c].objects
                                    /\ call'[c].prior = call[c].prior
  BY WrittenStays
<1>3. \A c \in Call : call[c].step \notin {"idle", "ok"} =>
        /\ call'[c].objects = call[c].objects /\ call'[c].prior = call[c].prior
  BY OneCallMoves
<1>4. ASSUME At(d, "report", "write"), call'[d] = call[d],
             call[d].read.value[o] = docs[1].value[o] => docs'[1].value[o] = docs[1].value[o]
      PROVE  \/ call'[d].read.value[o] = docs'[1].value[o]
             \/ \E c \in Call : /\ Written(c)' /\ o \in call'[c].objects
                               /\ c \notin call'[d].prior
  BY <1>2, <1>4, OvertakenStays DEF AtomicInv
<1>5. CASE /\ docs' = docs
           /\ \A e \in Call : At(e, "report", "write")' =>
                \/ At(e, "report", "write") /\ call'[e].read = call[e].read
                \/ /\ call'[e].read.value = ReportedValue(e, docs[1])
                   /\ call[e].step = "find" /\ call[e].kind = "report"
  <2>1. CASE At(d, "report", "write") /\ call'[d].read = call[d].read
    BY <1>2, <1>3, <1>5, <2>1, OvertakenStays DEF AtomicInv, At
  <2>2. CASE call'[d].read.value = ReportedValue(d, docs[1]) /\ call[d].step = "find"
    BY <1>3, <1>5, <2>2 DEF ReportedValue
  <2> QED
    BY <1>5, <2>1, <2>2
<1>6. ASSUME NEW w \in Call,
             \A c \in Call \ {w} : call'[c] = call[c],
             \/ At(w, "new", "write") /\ docs'[1].value = [p \in Object |-> w]
             \/ At(w, "report", "write") /\ docs'[1].value = call[w].read.value,
             Written(w)', ~At(w, "report", "write")'
      PROVE  \/ call'[d].read.value[o] = docs'[1].value[o]
             \/ \E c \in Call : /\ Written(c)' /\ o \in call'[c].objects
                               /\ c \notin call'[d].prior
  <2>1. d # w /\ call'[d] = call[d] /\ At(d, "report", "write")
    BY <1>6 DEF At
  <2>2. w \notin call'[d].prior /\ call'[w].objects = call[w].objects
    BY <1>3, <1>6, <2>1 DEF FreshInv, Acknowledged, At
  <2>3. CASE o \in call[w].objects
    BY <1>6, <2>2, <2>3
  <2>4. CASE o \notin call[w].objects
    <3>1. At(w, "report", "write") /\ docs'[1].value = call[w].read.value
      BY <1>6, <2>4 DEF AtomicInv, At
    <3>2. docs'[1].value[o] = docs[1].value[o]
      BY <1>6, <2>4, <3>1, WritesBackTheSame
    <3> QED
      BY <1>4, <2>1, <3>2
  <2> QED
    BY <2>3, <2>4
<1> QED
  BY <1>5, <1>6, DocumentStep
\* When a call moves to a step, its status in the store does.
LEMMA ProgressMoves ==
  ASSUME NEW c \in Call, \A d \in Call \ {c} : call'[d] = call[d]
  PROVE  [d \in Call |-> Progress(call'[d].step)] =
           [[d \in Call |-> Progress(call[d].step)] EXCEPT ![c] = Progress(call'[c].step)]
OBVIOUS

\* The store's next step, of a call that keeps its objects.
LEMMA StoreStep ==
  ASSUME TypeOK, AddedInv, FreshInv, AtomicInv, [Next]_vars, NoneOvertaken'
  PROVE  Store!Next \/ UNCHANGED Store!vars
<1> USE DEF At, GoTo
<1>0. /\ call \in [Call -> CallState] /\ docs \in Seq(Document)
      /\ Len(docs) = 1 /\ DOMAIN docs = {1} /\ docs[1] \in Document
      /\ docs[1].value \in [Object -> Call \cup {Nobody}]
  <2>1. call \in [Call -> CallState] /\ docs \in Seq(Document) /\ Len(docs) = 1
    BY DEF TypeOK, AddedInv
  <2>2. DOMAIN docs = {1} /\ docs[1] \in Document
    BY <2>1
  <2> QED
    BY <2>1, <2>2 DEF Document
<1>1. CASE UNCHANGED vars
  BY <1>1 DEF vars, Store!vars
<1>2. ASSUME NEW c \in Call, NEW u \in User, NEW kind \in {"add", "new", "report"},
             Begin(c, kind, u)
      PROVE  Store!Ask(c)
  <2>1. PICK objects \in Subjects(kind) : call' = [call EXCEPT ![c] =
               [kind |-> kind, user |-> u, objects |-> objects, step |-> "find",
                read |-> NewDocument(Nobody), prior |-> Acknowledged]]
    BY <1>2 DEF Begin
  <2>2. /\ \A d \in Call \ {c} : call'[d] = call[d]
        /\ call'[c].step = "find" /\ call'[c].objects = objects
    BY <1>0, <2>1
  <2>3. objects \in SUBSET Object
    BY <2>1 DEF Subjects
  <2>4. [d \in Call |-> call'[d].objects] =
          [[d \in Call |-> call[d].objects] EXCEPT ![c] = objects]
    BY <2>2
  <2>5. Progress(call[c].step) = "new" /\ Progress(call'[c].step) = "asked"
    BY <1>2, <2>2 DEF Begin, Progress
  <2>6. docs' = docs
    BY <1>2 DEF Begin
  <2> QED
    BY <2>2, <2>3, <2>4, <2>5, <2>6, ProgressMoves DEF Store!Ask
<1>3. ASSUME NEW c \in Call, Fail(c) PROVE Store!Refuse(c)
  <2>1. /\ \A d \in Call \ {c} : call'[d] = call[d]
        /\ call'[c].step = "failed" /\ \A d \in Call : call'[d].objects = call[d].objects
    BY <1>0, <1>3 DEF Fail, CallState
  <2>2. Progress(call[c].step) = "asked" /\ Progress(call'[c].step) = "refused"
    BY <1>3, <2>1 DEF Fail, Progress
  <2>3. docs' = docs
    BY <1>3 DEF Fail
  <2> QED
    BY <2>1, <2>2, <2>3, ProgressMoves DEF Store!Refuse
<1>4. ASSUME NEW c \in Call, AddFind(c) \/ AddFactory(c) \/ AddInsert(c) PROVE FALSE
  <2>1. Len(<<>>) = 0 /\ Len(docs) = 1
    BY <1>0
  <2>2. call[c].kind = "add" /\ call[c].step \in {"factory", "insert"}
    <3>1. docs # <<>>
      BY <2>1
    <3> QED
      BY <1>4, <3>1 DEF AddFind, NoDevice, AddFactory, AddInsert
  <2> QED
    BY <2>2 DEF AddedInv
<1>5. ASSUME NEW c \in Call, NewFind(c, docs[1]) \/ ReportFind(c, docs[1])
      PROVE  UNCHANGED Store!vars
  <2>1. /\ docs' = docs /\ call[c].step = "find" /\ call'[c].step = "write"
        /\ \A d \in Call \ {c} : call'[d] = call[d]
        /\ \A d \in Call : call'[d].objects = call[d].objects
    BY <1>0, <1>5 DEF NewFind, ReportFind, CallState
  <2>2. Progress("find") = Progress("write")
    BY DEF Progress
  <2>3. \A d \in Call : Progress(call'[d].step) = Progress(call[d].step)
    BY <2>1, <2>2
  <2> QED
    BY <2>1, <2>3 DEF Store!vars
<1>6. ASSUME NEW c \in Call, NewWrite(c, 1) PROVE Store!Store(c)
  <2>1. /\ \A d \in Call \ {c} : call'[d] = call[d]
        /\ call'[c].step = "ok" /\ \A d \in Call : call'[d].objects = call[d].objects
    BY <1>0, <1>6 DEF NewWrite, CallState
  <2>2. Progress(call[c].step) = "asked" /\ Progress(call'[c].step) = "answered"
    BY <1>6, <2>1 DEF NewWrite, Progress
  <2>3. docs'[1].value = [o \in Object |-> c]
    BY <1>0, <1>6 DEF NewWrite, Document
  <2>4. call[c].objects = Object
    BY <1>6 DEF NewWrite, AtomicInv
  <2>5. docs'[1].value =
          [o \in Object |-> IF o \in call[c].objects THEN c ELSE docs[1].value[o]]
    BY <2>3, <2>4
  <2> QED
    BY <2>1, <2>2, <2>5, ProgressMoves DEF Store!Store
<1>7. ASSUME NEW c \in Call, ReportWrite(c, 1) PROVE Store!Store(c)
  <2>1. /\ \A d \in Call \ {c} : call'[d] = call[d]
        /\ call'[c].step = "stats" /\ call'[c].kind = call[c].kind
        /\ \A d \in Call : call'[d].objects = call[d].objects
    BY <1>0, <1>7 DEF ReportWrite, CallState
  <2>2. Progress(call[c].step) = "asked" /\ Progress(call'[c].step) = "stored"
    BY <1>7, <2>1 DEF ReportWrite, Progress
  <2>3. docs'[1].value = call[c].read.value /\ At(c, "report", "write")
    BY <1>0, <1>7 DEF ReportWrite
  <2>4. call[c].read.value \in [Object -> Call \cup {Nobody}]
    BY <1>0 DEF CallState, Document
  <2>5. \A o \in Object : o \notin call[c].objects =>
          call[c].read.value[o] = docs[1].value[o]
    BY <2>1, <2>3, WritesBackTheSame DEF Written
  <2>6. \A o \in Object : o \in call[c].objects => call[c].read.value[o] = c
    BY <2>3 DEF FreshInv
  <2>7. docs'[1].value =
          [o \in Object |-> IF o \in call[c].objects THEN c ELSE docs[1].value[o]]
    BY <2>3, <2>4, <2>5, <2>6
  <2> QED
    BY <2>1, <2>2, <2>7, ProgressMoves DEF Store!Store
<1>8. ASSUME NEW c \in Call, ReportStats(c) PROVE Store!Answer(c)
  <2>1. /\ \A d \in Call \ {c} : call'[d] = call[d]
        /\ call'[c].step = "ok" /\ \A d \in Call : call'[d].objects = call[d].objects
    BY <1>0, <1>8 DEF ReportStats, CallState
  <2>2. Progress(call[c].step) = "stored" /\ Progress(call'[c].step) = "answered"
    BY <1>8, <2>1 DEF ReportStats, Progress
  <2>3. docs' = docs
    BY <1>8 DEF ReportStats
  <2> QED
    BY <2>1, <2>2, <2>3, ProgressMoves DEF Store!Answer
<1>9. ASSUME NEW u \in User, Login(u) PROVE UNCHANGED Store!vars
  BY <1>9 DEF Login, Store!vars
<1> HIDE DEF At, GoTo
<1> QED
  BY <1>0, <1>1, <1>2, <1>3, <1>4, <1>5, <1>6, <1>7, <1>8, <1>9
  DEF Next, CallNext, Store!Next

\* A device that is added is a store whose calls take effect at one moment each, until
\* one is overtaken (device_handler.py:81-104, :108-147).
THEOREM DocumentsAreAStore == AddedSpec => AtomicUnlessOvertaken
<1>1. AddedSpec => [](TypeOK /\ AddedInv /\ FreshInv /\ AtomicInv)
  BY TypeInit, TypeStep, AddedInit, AddedStep, FreshStep, AtomicInit, AtomicInvStep, PTL
  DEF AddedSpec
<1>2. AddedSpec => Store!Init
  BY AtomicInit DEF AddedSpec
<1>3. TypeOK /\ AddedInv /\ FreshInv /\ AtomicInv /\ [Next]_vars
        => [NoneOvertaken' => Store!Next \/ UNCHANGED Store!vars]_vars
  BY StoreStep
<1> QED
  BY <1>1, <1>2, <1>3, PTL DEF AddedSpec, AtomicUnlessOvertaken
=============================================================================
