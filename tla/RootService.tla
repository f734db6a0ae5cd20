---------------------------- MODULE RootService ----------------------------
(***************************************************************************)
(* What the nodes of a radio network expect of its border router.  Before  *)
(* it is told a network it may hear of some, as any node does; then it is  *)
(* the root of one at a time and of no other router's.  Of each network it *)
(* knows a version, and only ever takes the next or a newer one, so that   *)
(* no node takes an old network for the new: as a root it outbids whatever *)
(* version it hears.  Routes are those of the network as it is now.        *)
(***************************************************************************)
EXTENDS Lollipop

CONSTANTS
  Prefix,    \* networks, by their prefixes
  NoPrefix,  \* no network
  Node

VARIABLES
  root,   \* the network the router is root of
  known,  \* the version it knows of each network, if any
  reach   \* the nodes the router has routes to

vars == <<root, known, reach>>

Version == 0..255

None == root = NoPrefix /\ known = [p \in Prefix |-> {}] /\ reach = {}

Init == None

\* It becomes root of a network, which begins anew under its next version.
Lead(p) ==
  /\ root' = p
  /\ \E v \in Version \cap known'[p] :
       /\ \A w \in known[p] : v = RPL_LOLLIPOP_INCREMENT(w)
       /\ known' = [known EXCEPT ![p] = {v}]
  /\ reach' = {}

\* It hears of a network, and of newer versions of those it knows.
Hear(p) ==
  /\ root = NoPrefix /\ root' = NoPrefix
  /\ \E v \in Version \cap known'[p] :
       /\ \A w \in known[p] : lollipop_greater_than(v, w)
       /\ known' = [known EXCEPT ![p] = {v}]
  /\ reach' \subseteq reach

\* A root hears a newer version of a network that it is or was root of.
Outbid(p) ==
  /\ root # NoPrefix /\ known[p] # {} /\ known'[p] # known[p]
  /\ \E v \in Version :
       /\ \A w \in known[p] : lollipop_greater_than(v, w)
       /\ known' = [known EXCEPT ![p] = {RPL_LOLLIPOP_INCREMENT(v)}]
  /\ UNCHANGED <<root, reach>>

\* Nodes announce themselves and leave.
Route == (\E n \in Node : reach' \in {reach \cup {n}, reach \ {n}}) /\ UNCHANGED <<root, known>>

\* It moves from one network to another that is not its own.
Move == root = NoPrefix /\ reach' \subseteq reach /\ UNCHANGED <<root, known>>

\* A router that reboots knows nothing of what it was.
Reboot == None'

Next ==
  \/ \E p \in Prefix : Lead(p) \/ Hear(p) \/ Outbid(p)
  \/ Route \/ Move \/ Reboot

Spec == Init /\ [][Next]_vars
=============================================================================
