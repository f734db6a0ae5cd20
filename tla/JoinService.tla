---------------------------- MODULE JoinService ----------------------------
(***************************************************************************)
(* What the join protocol promises, without messages: a network has one    *)
(* key at a time, only the owner's devices ever hold a key of it, and a    *)
(* device believes it is enrolled only if it is.  A device may hold an old *)
(* key and may lose its key and its belief at any time; the promise is     *)
(* about what it can wrongly gain.                                         *)
(***************************************************************************)
EXTENDS Naturals

CONSTANTS Devices, Members

VARIABLES
  epoch,      \* the number of the network's current key
  held,       \* held[d], the number of the key d holds, 0 if it holds none
  enrolled,   \* the devices on record
  confirmed   \* the devices that believe they are on record

joinVars == <<epoch, held, enrolled, confirmed>>

JoinInit ==
  /\ epoch = 1
  /\ held = [d \in Devices |-> 0]
  /\ enrolled = {} /\ confirmed = {}

NewKey ==
  /\ epoch' = epoch + 1
  /\ UNCHANGED <<held, enrolled, confirmed>>

Grant(d) ==
  /\ d \in Members
  /\ \E e \in 1..epoch : held' = [held EXCEPT ![d] = e]
  /\ UNCHANGED <<epoch, enrolled, confirmed>>

Forget(d) ==
  /\ held' = [held EXCEPT ![d] = 0]
  /\ confirmed' \in {confirmed, confirmed \ {d}}
  /\ UNCHANGED <<epoch, enrolled>>

Enrol(d) ==
  /\ d \in Members
  /\ enrolled' = enrolled \cup {d}
  /\ UNCHANGED <<epoch, held, confirmed>>

Confirm(d) ==
  /\ d \in enrolled
  /\ confirmed' = confirmed \cup {d}
  /\ UNCHANGED <<epoch, held, enrolled>>

JoinNext ==
  \/ NewKey
  \/ \E d \in Devices : Grant(d) \/ Forget(d) \/ Enrol(d) \/ Confirm(d)

JoinSpec == JoinInit /\ [][JoinNext]_joinVars
=============================================================================
