---------------------------- MODULE BorderRouter ----------------------------
(***************************************************************************)
(* The border router asks its host (tunslip6) for a prefix, once a second  *)
(* until it has one, and becomes the root of an RPL network with it        *)
(* (border-router.c, slip-bridge.c, rpl-dag.c).  Questions and answers go  *)
(* over a serial line that keeps their order and may lose them, which is   *)
(* all PacketQueue promises.  An answer may come late or repeat another,   *)
(* and the host may have been restarted with another prefix.  From the     *)
(* radio it hears DIOs, of its own DAGs as they were before it rebooted,   *)
(* left or renewed them, and of other routers' (rpl_process_dio), and      *)
(* DAOs, with which nodes announce themselves or leave (dao_input).        *)
(***************************************************************************)
EXTENDS Naturals, Sequences, FiniteSets, Lollipop

CONSTANTS
  Prefix,    \* prefixes of the networks on the radio
  Offered,   \* those with which the host may be started
  NoPrefix,  \* no prefix
  Node,      \* sensors
  Heard,     \* versions that come in DIOs (of 0..255, fewer for TLC)
  MaxDag,    \* RPL_MAX_DAG_PER_INSTANCE
  MaxAddr,   \* addresses beside the link-local one, UIP_DS6_ADDR_NBU
  MaxRoute,  \* routes, UIP_DS6_ROUTE_NB
  MaxAsked,  \* questions in flight (a bound for TLC)
  MaxTold,   \* answers in flight (a bound for TLC)
  Restarts,  \* restarts of the host (a bound for TLC)
  Reboots    \* reboots of the router (a bound for TLC)

ASSUME NoPrefixAssumption == NoPrefix \notin Prefix
ASSUME OfferedAssumption == Offered \subseteq Prefix
ASSUME HeardAssumption == Heard \subseteq 0..255
ASSUME TableAssumption ==
  MaxDag \in Nat \ {0} /\ MaxAddr \in Nat /\ MaxAddr >= MaxDag /\ MaxRoute \in Nat
ASSUME BoundAssumption == {MaxAsked, MaxTold, Restarts, Reboots} \subseteq Nat

VARIABLES
  prefix_set,  \* that of border-router.c
  questions,   \* "?P" on their way to the host
  answers,     \* "!P" on their way to the router
  dag_table,   \* that of the one instance of rpl-dag.c
  current_dag, \* the place of the joined DAG in dag_table, 0: the instance is unused
  addresses,   \* prefixes of the router's global addresses
  routes,      \* of each node, the router's route to it in the current DAG
  host,        \* the prefix tunslip6 was started with
  seen,        \* prefixes taken since the router booted
  last,        \* the last one of them
  met,         \* DAGs heard before their prefix was taken, but for the first taken
  restarts, reboots

vars == <<prefix_set, questions, answers, dag_table, current_dag, addresses, routes, host,
          seen, last, met, restarts, reboots>>

router == <<prefix_set, dag_table, current_dag, addresses, routes, seen, last, met>>

Place == 1..MaxDag

(* A DAG, which other routers know by its prefix; of its rank the model     *)
(* knows whether it is ROOT_RANK, and none of its parents.                  *)
Dag == [used : BOOLEAN, dag_id : Prefix \cup {NoPrefix}, version : 0..255,
        joined : BOOLEAN, root : BOOLEAN]

Unused == [used |-> FALSE, dag_id |-> NoPrefix, version |-> 0, joined |-> FALSE, root |-> FALSE]

Made(p, v, joined, root) ==
  [used |-> TRUE, dag_id |-> p, version |-> v, joined |-> joined, root |-> root]

Empty == [d \in Place |-> Unused]

(* A route that a No-Path DAO lets run out is leaving; when its node comes  *)
(* back it is held again, but keeps the saved_lifetime of that DAO.         *)
RouteState == {"none", "held", "leaving", "again"}

NoRoutes == [n \in Node |-> "none"]

Reach == {n \in Node : routes[n] # "none"}

TypeOK ==
  /\ prefix_set \in BOOLEAN
  /\ questions \in 0..MaxAsked
  /\ answers \in Seq(Prefix)
  /\ dag_table \in [Place -> Dag]
  /\ current_dag \in 0..MaxDag
  /\ addresses \subseteq Prefix
  /\ routes \in [Node -> RouteState]
  /\ host \in Offered
  /\ seen \subseteq Prefix /\ last \in Prefix \cup {NoPrefix} /\ met \subseteq Prefix
  /\ restarts \in Nat /\ reboots \in Nat

Booted ==
  /\ prefix_set' = FALSE
  /\ dag_table' = Empty
  /\ current_dag' = 0
  /\ addresses' = {} /\ routes' = NoRoutes /\ seen' = {} /\ last' = NoPrefix /\ met' = {}

Init ==
  /\ prefix_set = FALSE
  /\ questions = 0 /\ answers = <<>>
  /\ dag_table = Empty
  /\ current_dag = 0
  /\ addresses = {} /\ routes = NoRoutes /\ seen = {} /\ last = NoPrefix /\ met = {}
  /\ host \in Offered
  /\ restarts = 0 /\ reboots = 0

----------------------------------------------------------------------------
(* The timer of border_router_process expires and the prefix is not set. *)
RequestPrefix ==
  /\ ~prefix_set
  /\ questions' = IF questions < MaxAsked THEN questions + 1 ELSE questions
  /\ UNCHANGED <<router, answers, host, restarts, reboots>>

(* The place of a DAG, 0 if there is none, and the one a new DAG gets. *)
get_dag(p) ==
  IF \E d \in Place : dag_table[d].used /\ dag_table[d].dag_id = p
  THEN CHOOSE d \in Place : dag_table[d].used /\ dag_table[d].dag_id = p
  ELSE 0

Least(S) == CHOOSE d \in S : \A e \in S : d <= e

NewVersionM(p) == RPL_LOLLIPOP_INIT
NewVersion(p) ==
  IF get_dag(p) = 0 THEN RPL_LOLLIPOP_INIT
  ELSE RPL_LOLLIPOP_INCREMENT(dag_table[get_dag(p)].version)

(* rpl_free_dag takes away the address of a DAG that was joined. *)
Given(places) == {dag_table[d].dag_id : d \in {e \in places : dag_table[e].joined}}

(* uip_ds6_addr_add, of a list that may be full. *)
WithAddress(S, p) == IF Cardinality(S) < MaxAddr THEN S \cup {p} ELSE S

NewRootM(p, free) ==
  /\ dag_table' = [Empty EXCEPT ![Least(free)] = Made(p, NewVersion(p), TRUE, TRUE)]
  /\ current_dag' = Least(free)
  /\ addresses' = WithAddress(addresses \ Given(Place), p)
(* rpl_set_root and rpl_set_prefix: the DAG of the same prefix is dropped   *)
(* and made anew with the next version, another one left; and the address  *)
(* that goes with the old DAG comes back with the new one.                 *)
NewRoot(p, free) ==
  LET old == get_dag(p) IN
  /\ dag_table' = [d \in Place |->
       IF d = Least(free) THEN Made(p, NewVersion(p), TRUE, TRUE)
       ELSE IF d = old THEN Unused
       ELSE [dag_table[d] EXCEPT !.joined = FALSE]]
  /\ current_dag' = Least(free)
  /\ addresses' = WithAddress(WithAddress(addresses, p) \ (IF old = 0 THEN {} ELSE Given({old})), p)

(* rpl_alloc_dag finds no place, and frees the instance with all its DAGs. *)
NoRootM(p) ==
  current_dag' = MaxDag + 1 /\ addresses' = WithAddress(addresses, p) /\ UNCHANGED dag_table
NoRoot(p) ==
  /\ dag_table' = Empty
  /\ current_dag' = 0
  /\ addresses' = WithAddress(addresses, p) \ Given(Place)

SetPrefixM(p) ==
  LET free == {d \in Place : ~dag_table[d].used}
  IN  IF free = {} THEN NoRoot(p) ELSE NewRoot(p, free)
SetPrefix(p) ==
  LET free == {d \in Place : ~dag_table[d].used \/ d = get_dag(p)}
  IN  IF free = {} THEN NoRoot(p) ELSE NewRoot(p, free)

(* slip_input_callback and set_prefix_64; also when a prefix is set.  All  *)
(* routes are those of a DAG that is left.                                 *)
RecvPrefix ==
  /\ answers # <<>>
  /\ answers' = Tail(answers)
  /\ prefix_set' = TRUE
  /\ SetPrefix(Head(answers))
  /\ routes' = NoRoutes
  /\ seen' = seen \cup {Head(answers)} /\ last' = Head(answers)
  /\ met' = IF prefix_set THEN met ELSE met \ {Head(answers)}
  /\ UNCHANGED <<questions, host, restarts, reboots>>

----------------------------------------------------------------------------
(* rpl_join_instance: the router, of no DAG yet, joins the one it hears of, *)
(* as any node does; it may find no room for its parent.                    *)
JoinInstance(p, v) ==
  \/ /\ dag_table' = [Empty EXCEPT ![1] = Made(p, v, TRUE, FALSE)]
     /\ current_dag' = 1
     /\ addresses' = WithAddress(addresses, p)
     /\ UNCHANGED routes
  \/ UNCHANGED <<dag_table, current_dag, addresses, routes>>

(* A parent that changes its DAG takes the routes through it along; a root  *)
(* has no parents.                                                          *)
RoutesAfterMove ==
  IF dag_table[current_dag].root THEN {routes}
  ELSE {[n \in Node |-> IF n \in N THEN "none" ELSE routes[n]] : N \in SUBSET Node}

(* rpl_local_repair: every DAG gets rank INFINITE_RANK. *)
LocalRepair(table) == [d \in Place |-> [table[d] EXCEPT !.root = FALSE]]

(* rpl_process_parent_event and rpl_select_dag, in a table that holds the   *)
(* news of a parent in the DAG at place x.  Either the parent is not        *)
(* accepted, or stays one of several, and nothing happens.  Or no DAG has   *)
(* a parent of acceptable rank, which is always so for a root: it has no    *)
(* parent, its rank is computed all the same, and so it is root no longer.  *)
(* Or a router that is not root moves to a better DAG, that of the news,    *)
(* or any other with parents if the news is of the current one.             *)
ParentEvent(table, x) ==
  \/ /\ dag_table' \in {table, LocalRepair(table)}
     /\ routes' \in RoutesAfterMove
     /\ UNCHANGED <<current_dag, addresses>>
  \/ \E y \in Place \ {current_dag} :
       /\ ~table[current_dag].root
       /\ table[y].used /\ ~table[y].root
       /\ y = x \/ x = current_dag
       /\ \E t \in {table, LocalRepair(table)} :
            dag_table' = [t EXCEPT ![current_dag].joined = FALSE, ![y].joined = TRUE]
       /\ current_dag' = y
       /\ addresses' = WithAddress(addresses \ {table[current_dag].dag_id}, table[y].dag_id)
       /\ routes' = NoRoutes

(* rpl_add_dag: a DAG more, unless there is no room for its parent or its   *)
(* parameters do not fit; without a place, the instance is freed.           *)
AddDag(p, v) ==
  LET free == {d \in Place : ~dag_table[d].used} IN
  \/ /\ free = {}
     /\ dag_table' = Empty
     /\ current_dag' = 0
     /\ addresses' = addresses \ Given(Place)
     /\ routes' = NoRoutes
  \/ /\ free # {}
     /\ routes' \in RoutesAfterMove
     /\ UNCHANGED <<dag_table, current_dag, addresses>>
  \/ /\ free # {}
     /\ ParentEvent([dag_table EXCEPT ![Least(free)] = Made(p, v, FALSE, FALSE)], Least(free))

KnownDagM(p, v) ==
  LET d == get_dag(p) IN
  \/ /\ lollipop_greater_than(v, dag_table[d].version)
     /\ ParentEvent([dag_table EXCEPT ![d].version = v], d)
  \/ ~lollipop_greater_than(v, dag_table[d].version) /\ UNCHANGED <<dag_table, current_dag, addresses, routes>>
(* A DIO of a DAG in the table.  Of a newer version: a root takes the one   *)
(* that follows it, others take it and begin anew (global_repair).  Of an   *)
(* older version, or from a node without a path: the joined DAG ignores it. *)
(* A root has nothing else to do with DIOs.                                 *)
KnownDag(p, v) ==
  LET d     == get_dag(p)
      newer == lollipop_greater_than(v, dag_table[d].version)
  IN
  \/ /\ newer /\ dag_table[d].root
     /\ dag_table' = [dag_table EXCEPT ![d].version = RPL_LOLLIPOP_INCREMENT(v)]
     /\ UNCHANGED <<current_dag, addresses, routes>>
  \/ /\ newer /\ ~dag_table[d].root
     /\ ParentEvent([dag_table EXCEPT ![d].version = v], d)
  \/ /\ ~newer /\ ~dag_table[d].root
     /\ ~(lollipop_greater_than(dag_table[d].version, v) /\ dag_table[d].joined)
     /\ ParentEvent(dag_table, d)

(* rpl_process_dio; what it ignores is no step. *)
RecvDio(p, v) ==
  /\ \/ current_dag = 0 /\ JoinInstance(p, v)
     \/ current_dag # 0 /\ get_dag(p) = 0 /\ AddDag(p, v)
     \/ current_dag # 0 /\ get_dag(p) # 0 /\ KnownDag(p, v)
  /\ met' = IF p \in seen THEN met ELSE met \cup {p}
  /\ UNCHANGED <<prefix_set, seen, last, questions, answers, host, restarts, reboots>>

(* rpl_recalculate_ranks: the link to a parent got better, worse or lost. *)
RecalculateRanks(x) ==
  /\ current_dag # 0 /\ dag_table[x].used /\ ~dag_table[x].root
  /\ ParentEvent(dag_table, x)
  /\ UNCHANGED <<prefix_set, seen, last, met, questions, answers, host, restarts, reboots>>

----------------------------------------------------------------------------
(* dao_input knows the instance and the DAG of the DAO. *)
OfThisDag(p) == current_dag # 0 /\ dag_table[current_dag].dag_id = p

RouteTo(n, state) ==
  /\ routes' = [routes EXCEPT ![n] = state]
  /\ UNCHANGED <<prefix_set, dag_table, current_dag, addresses, seen, last, met, questions, answers,
                 host, restarts, reboots>>

(* A node announces itself to the DAG of p, and the router has a route if   *)
(* there is room for it, for as long as the default lifetime.  (A router    *)
(* that is not root ignores the DAOs of its parents.)                       *)
Dao(n, p) ==
  /\ OfThisDag(p)
  /\ n \in Reach \/ Cardinality(Reach) < MaxRoute
  /\ RouteTo(n, IF routes[n] \in {"none", "held"} THEN "held" ELSE "again")

(* A node leaves (a No-Path DAO, of lifetime 0), and its route will run     *)
(* out; but the second time the route stays, for its saved_lifetime is set. *)
NoPathDao(n, p) == OfThisDag(p) /\ routes[n] = "held" /\ RouteTo(n, "leaving")

(* A route runs out, or the link to its next hop is lost. *)
PurgeRoute(n) == n \in Reach /\ RouteTo(n, "none")

Reboot ==
  /\ reboots < Reboots
  /\ reboots' = reboots + 1
  /\ Booted
  /\ UNCHANGED <<questions, answers, host, restarts>>

----------------------------------------------------------------------------
(* tunslip6 answers each question with the prefix it was started with. *)
AnswerPrefix ==
  /\ questions > 0 /\ Len(answers) < MaxTold
  /\ questions' = questions - 1
  /\ answers' = Append(answers, host)
  /\ UNCHANGED <<router, host, restarts, reboots>>

Lose ==
  /\ \/ questions > 0 /\ questions' = questions - 1 /\ UNCHANGED answers
     \/ answers # <<>> /\ answers' = Tail(answers) /\ UNCHANGED questions
  /\ UNCHANGED <<router, host, restarts, reboots>>

RestartHost ==
  /\ restarts < Restarts
  /\ restarts' = restarts + 1
  /\ host' \in Offered
  /\ UNCHANGED <<router, questions, answers, reboots>>

Next ==
  \/ RequestPrefix \/ RecvPrefix \/ Reboot
  \/ \E p \in Prefix : \/ \E v \in Heard : RecvDio(p, v)
                      \/ \E n \in Node : Dao(n, p) \/ NoPathDao(n, p)
  \/ \E d \in Place : RecalculateRanks(d)
  \/ \E n \in Node : PurgeRoute(n)
  \/ AnswerPrefix \/ Lose \/ RestartHost

(* The timer expires again and again; of answers asked for again and again *)
(* some arrive; nodes announce themselves again and again, to the DAG they *)
(* last heard of.                                                          *)
Spec ==
  /\ Init /\ [][Next]_vars
  /\ WF_vars(RequestPrefix) /\ SF_vars(AnswerPrefix) /\ SF_vars(RecvPrefix)
  /\ \A n \in Node : WF_vars(\E p \in Prefix : Dao(n, p))

----------------------------------------------------------------------------
(* The router has heard of no more DAGs since it booted than its table     *)
(* holds, and once it has a prefix, of none but those it was told; one it   *)
(* heard of before may be the first it is told, as after a reboot.          *)
Undisturbed ==
  /\ Cardinality(seen \cup met) <= MaxDag
  /\ prefix_set => met = {}

(* The router whose prefix is set, and which therefore asks no more, is    *)
(* root of a DAG of the last prefix it was told and has an address of it:  *)
(* neither late or repeated answers nor the DIOs of its own DAGs, of       *)
(* whatever version, also those it left and one it was in before its prefix *)
(* came, take them away.  The DIO of another DAG does, for rpl_select_dag   *)
(* then computes the rank of the root (rpl-dag.c:620-630).                  *)
RootKept ==
  prefix_set /\ Undisturbed =>
    /\ current_dag # 0
    /\ dag_table[current_dag].joined /\ dag_table[current_dag].root
    /\ dag_table[current_dag].dag_id = last
    /\ last \in addresses

(* The router whose prefix is set has a DAG, root or not, as long as it has *)
(* heard of and been told no more prefixes than its table holds: neither    *)
(* answers nor DIOs make it throw away its instance, without which it never *)
(* asks for a prefix again (rpl-dag.c:430-432, border-router.c:109, :128).  *)
InstanceKept == prefix_set /\ Cardinality(seen \cup met) <= MaxDag => current_dag # 0

Version(p) == {dag_table[d].version : d \in {e \in Place : dag_table[e].used /\ dag_table[e].dag_id = p}}

(* A DAG that is dropped and made again, joined or left, the router's own   *)
(* or another's, gets the version that follows: nodes that joined the old   *)
(* one leave it (rpl-dag.c:211-212).                                        *)
NewDagNewVersion ==
  [][\A p \in Prefix : RecvPrefix /\ p = Head(answers) =>
       \A v \in Version(p) : Version(p)' = {RPL_LOLLIPOP_INCREMENT(v)}]_vars

(* Through the table of DAGs, its places freed and taken again, the router *)
(* keeps what its nodes expect of a root: it is root of the last network   *)
(* it was told, it remembers the version of each that it left or heard of, *)
(* never goes back to an older one, and outbids what it hears of them      *)
(* (rpl-dag.c:201-272, :410-466, :785-990, :1103-1116).                    *)
Root == INSTANCE RootService WITH
  root  <- IF current_dag # 0 /\ dag_table[current_dag].root
           THEN dag_table[current_dag].dag_id ELSE NoPrefix,
  known <- [p \in Prefix |-> Version(p)],
  reach <- Reach

RootWhileUndisturbed ==
  Root!Init /\ [][Undisturbed' => Root!Next \/ UNCHANGED Root!vars]_vars

(* In the end the router has its prefix, and each node is again and again   *)
(* reachable, if the table of routes has room for it: also after an answer  *)
(* that came late has taken away all routes.                                *)
AgainAndAgainRoutes ==
  \A n \in Node : []<>(~Undisturbed \/ (prefix_set /\ (n \in Reach \/ Cardinality(Reach) = MaxRoute)))
=============================================================================
