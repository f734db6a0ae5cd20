---------------------------- MODULE BorderProofs ----------------------------
(***************************************************************************)
(* What holds of the border router for any prefixes, any sizes of its      *)
(* tables, whatever DIOs and DAOs it hears, and however often it, its host *)
(* and the line fail.                                                      *)
(***************************************************************************)
EXTENDS BorderRouter, Functions, FiniteSetTheorems, TLAPS

(* The DAGs in a table have prefixes of their own, of a set S; the one at  *)
(* place c, and no other, is joined; and without one there are none.       *)
Distinct(t) == \A d, e \in Place : t[d].used /\ t[e].used /\ t[d].dag_id = t[e].dag_id => d = e

Within(t, S) == \A d \in Place : t[d].used => t[d].dag_id \in S

OneJoined(t, c) ==
  \A d \in Place :
    /\ t[d].joined <=> d = c
    /\ t[d].joined => t[d].used
    /\ c = 0 => ~t[d].used

Good(t, c, S) == t \in [Place -> Dag] /\ Distinct(t) /\ Within(t, S) /\ OneJoined(t, c)

AllRoot(t) == \A d \in Place : t[d].used => t[d].root

NoneRoot(t) == \A d \in Place : ~t[d].root

Holds(t, S) == \A p \in S : \E d \in Place : t[d].used /\ t[d].dag_id = p

Inv ==
  /\ TypeOK
  /\ IsFiniteSet(seen) /\ IsFiniteSet(met)
  /\ Good(dag_table, current_dag, seen \cup met)
  /\ addresses \subseteq seen \cup met
  /\ ~prefix_set => seen = {} /\ NoneRoot(dag_table)
  /\ prefix_set /\ Undisturbed => AllRoot(dag_table) /\ Holds(dag_table, seen)
  /\ RootKept /\ InstanceKept

----------------------------------------------------------------------------
(* A set of numbers has a least one: of the intervals up to its elements    *)
(* one is contained in all.                                                *)
LEMMA LeastExists ==
  ASSUME NEW S \in SUBSET Nat, S # {} PROVE Least(S) \in S
<1> DEFINE UpTo(x) == 0..x
           T == {UpTo(x) : x \in S}
<1>1. T \subseteq FiniteSubsetsOf(Nat) /\ T # {}
  <2>1. \A x \in S : UpTo(x) \subseteq Nat /\ IsFiniteSet(UpTo(x))
    BY FS_Interval
  <2> QED BY <2>1 DEF FiniteSubsetsOf
<1>2. PICK t \in T : \A u \in T : <<u, t>> \notin StrictSubsetOrdering(Nat)
  BY <1>1, FS_StrictSubsetOrderingWellFounded, WFMin
<1>3. PICK m \in S : t = UpTo(m)
  OBVIOUS
<1>4. ASSUME NEW e \in S PROVE m <= e
  <2>1. <<UpTo(e), UpTo(m)>> \notin StrictSubsetOrdering(Nat)
    BY <1>2, <1>3
  <2>2. ~(UpTo(e) \subseteq UpTo(m) /\ UpTo(e) # UpTo(m))
    BY <2>1 DEF StrictSubsetOrdering
  <2>3. CASE e < m
    <3>1. UpTo(e) \subseteq UpTo(m)
      BY <2>3
    <3>2. m \in UpTo(m) /\ m \notin UpTo(e)
      BY <2>3
    <3> QED BY <2>2, <3>1, <3>2
  <2> QED BY <2>3
<1> QED BY <1>4 DEF Least

LEMMA PlaceNat == Place \in SUBSET Nat /\ 0 \notin Place /\ IsFiniteSet(Place) /\ Cardinality(Place) = MaxDag
BY TableAssumption, FS_Interval DEF Place

(* A DAG of p is found if there is one. *)
LEMMA GetDag ==
  ASSUME NEW p
  PROVE  \/ get_dag(p) = 0 /\ \A d \in Place : dag_table[d].used => dag_table[d].dag_id # p
         \/ get_dag(p) \in Place /\ dag_table[get_dag(p)].used /\ dag_table[get_dag(p)].dag_id = p
BY PlaceNat DEF get_dag

LEMMA IncrementType ==
  ASSUME NEW v \in 0..255 PROVE RPL_LOLLIPOP_INCREMENT(v) \in 0..255
BY DEF RPL_LOLLIPOP_INCREMENT

LEMMA NewVersionType ==
  ASSUME TypeOK, NEW p PROVE NewVersion(p) \in 0..255
<1>1. CASE get_dag(p) = 0
  BY <1>1 DEF NewVersion, RPL_LOLLIPOP_INIT
<1>2. CASE get_dag(p) # 0
  <2>1. dag_table[get_dag(p)].version \in 0..255
    BY <1>2, GetDag DEF TypeOK, Dag
  <2> QED BY <1>2, <2>1, IncrementType DEF NewVersion
<1> QED BY <1>1, <1>2

LEMMA UnusedDag == Unused \in Dag /\ ~Unused.used /\ ~Unused.joined /\ ~Unused.root
BY DEF Unused, Dag

LEMMA MadeDag ==
  ASSUME NEW p \in Prefix, NEW v \in 0..255, NEW j \in BOOLEAN, NEW r \in BOOLEAN
  PROVE  /\ Made(p, v, j, r) \in Dag /\ Made(p, v, j, r).used /\ Made(p, v, j, r).dag_id = p
         /\ Made(p, v, j, r).version = v /\ Made(p, v, j, r).joined = j /\ Made(p, v, j, r).root = r
BY DEF Made, Dag

(* What an EXCEPT leaves of a DAG. *)
LEMMA JoinedDag ==
  ASSUME NEW r \in Dag, NEW b \in BOOLEAN, NEW s, s = [r EXCEPT !.joined = b]
  PROVE  /\ s \in Dag /\ s.joined = b /\ s.root = r.root
         /\ s.used = r.used /\ s.dag_id = r.dag_id /\ s.version = r.version
BY DEF Dag

LEMMA RepairedDag ==
  ASSUME NEW r \in Dag, NEW s, s = [r EXCEPT !.root = FALSE]
  PROVE  /\ s \in Dag /\ s.joined = r.joined /\ s.root = FALSE
         /\ s.used = r.used /\ s.dag_id = r.dag_id /\ s.version = r.version
BY DEF Dag

LEMMA VersionDag ==
  ASSUME NEW r \in Dag, NEW v \in 0..255, NEW s, s = [r EXCEPT !.version = v]
  PROVE  /\ s \in Dag /\ s.joined = r.joined /\ s.root = r.root
         /\ s.used = r.used /\ s.dag_id = r.dag_id /\ s.version = v
BY DEF Dag

LEMMA EmptyTable ==
  ASSUME NEW S PROVE Good(Empty, 0, S) /\ NoneRoot(Empty)
<1>1. \A d \in Place : Empty[d] = Unused
  BY DEF Empty
<1>2. Empty \in [Place -> Dag]
  BY UnusedDag DEF Empty
<1> QED BY <1>1, <1>2, UnusedDag, PlaceNat DEF Good, Distinct, Within, OneJoined, NoneRoot

(* Tables with the same DAGs, whichever are joined, and of whatever rank. *)
Same(t, u) == \A d \in Place :
  t[d].used = u[d].used /\ t[d].dag_id = u[d].dag_id /\ t[d].version = u[d].version

LEMMA RepairTable ==
  ASSUME NEW t, NEW c, NEW S, Good(t, c, S)
  PROVE  Good(LocalRepair(t), c, S) /\ NoneRoot(LocalRepair(t)) /\ Same(LocalRepair(t), t)
<1> DEFINE u == LocalRepair(t)
<1>1. ASSUME NEW d \in Place
      PROVE  /\ u[d] \in Dag /\ u[d].root = FALSE /\ u[d].joined = t[d].joined
             /\ u[d].used = t[d].used /\ u[d].dag_id = t[d].dag_id /\ u[d].version = t[d].version
  <2>1. t[d] \in Dag
    BY DEF Good
  <2>2. u[d] = [t[d] EXCEPT !.root = FALSE]
    BY DEF LocalRepair
  <2> HIDE DEF u
  <2> QED BY <2>1, <2>2, RepairedDag
<1>2. u = [d \in Place |-> u[d]]
  BY DEF LocalRepair
<1> HIDE DEF u
<1>3. u \in [Place -> Dag]
  BY <1>1, <1>2
<1>4. Good(u, c, S)
  BY <1>1, <1>3 DEF Good, Distinct, Within, OneJoined
<1>5. NoneRoot(u) /\ Same(u, t)
  BY <1>1 DEF NoneRoot, Same
<1> QED BY <1>4, <1>5 DEF u

(* The router moves from one DAG to another. *)
Moved(t, c, y) == [t EXCEPT ![c].joined = FALSE, ![y].joined = TRUE]

LEMMA MoveTable ==
  ASSUME NEW t, NEW c \in Place, NEW S, Good(t, c, S), NEW y \in Place, y # c, t[y].used
  PROVE  Good(Moved(t, c, y), y, S) /\ (NoneRoot(t) => NoneRoot(Moved(t, c, y))) /\ Same(Moved(t, c, y), t)
<1> DEFINE u == [t EXCEPT ![c].joined = FALSE, ![y].joined = TRUE]
           A == [t[c] EXCEPT !.joined = FALSE]
           B == [t[y] EXCEPT !.joined = TRUE]
<1>1. t \in [Place -> Dag]
  BY DEF Good
<1>2. ASSUME NEW d \in Place
      PROVE  /\ u[d] \in Dag /\ u[d].root = t[d].root
             /\ u[d].used = t[d].used /\ u[d].dag_id = t[d].dag_id /\ u[d].version = t[d].version
             /\ u[d].joined <=> d = y
  <2>1. t[d] \in Dag /\ (t[d].joined <=> d = c)
    BY DEF Good, OneJoined
  <2>2. CASE d = c
    <3>1. u[d] = [t[d] EXCEPT !.joined = FALSE]
      BY <1>1, <2>2
    <3> HIDE DEF u
    <3>2. u[d] \in Dag /\ u[d].joined = FALSE /\ u[d].root = t[d].root
          /\ u[d].used = t[d].used /\ u[d].dag_id = t[d].dag_id /\ u[d].version = t[d].version
      BY <2>1, <3>1, JoinedDag
    <3> QED BY <2>2, <3>2
  <2>3. CASE d = y
    <3>1. u[d] = [t[d] EXCEPT !.joined = TRUE]
      BY <1>1, <2>3
    <3> HIDE DEF u
    <3>2. u[d] \in Dag /\ u[d].joined = TRUE /\ u[d].root = t[d].root
          /\ u[d].used = t[d].used /\ u[d].dag_id = t[d].dag_id /\ u[d].version = t[d].version
      BY <2>1, <3>1, JoinedDag
    <3> QED BY <2>3, <3>2
  <2>4. CASE d # c /\ d # y
    <3>1. u[d] = t[d]
      BY <1>1, <2>4
    <3> QED BY <2>1, <2>4, <3>1
  <2> QED BY <2>2, <2>3, <2>4
<1>3. u = [[t EXCEPT ![c] = A] EXCEPT ![y] = B]
  BY <1>1
<1>4. A \in Dag /\ B \in Dag
  BY <1>1, JoinedDag
<1>5. u \in [Place -> Dag]
  <2> HIDE DEF A, B
  <2> QED BY <1>1, <1>3, <1>4
<1> HIDE DEF u, A, B
<1>6. OneJoined(u, y)
  BY <1>2, PlaceNat DEF OneJoined
<1>7. Distinct(u) /\ Within(u, S)
  BY <1>2 DEF Good, Distinct, Within
<1>8. (NoneRoot(t) => NoneRoot(u)) /\ Same(u, t)
  BY <1>2 DEF NoneRoot, Same
<1>9. Good(u, y, S)
  BY <1>5, <1>6, <1>7 DEF Good
<1> QED BY <1>8, <1>9 DEF Moved, u

LEMMA MoveRoutes ==
  ASSUME TypeOK, routes' \in RoutesAfterMove
  PROVE  routes' \in [Node -> RouteState] /\ Reach' \subseteq Reach
<1>1. CASE routes' = routes
  BY <1>1 DEF TypeOK, Reach
<1>2. ASSUME NEW N \in SUBSET Node, routes' = [n \in Node |-> IF n \in N THEN "none" ELSE routes[n]]
      PROVE  routes' \in [Node -> RouteState] /\ Reach' \subseteq Reach
  BY <1>2 DEF TypeOK, RouteState, Reach
<1> QED BY <1>1, <1>2 DEF RoutesAfterMove

LEMMA LostRoutes ==
  ASSUME routes' = NoRoutes PROVE routes' \in [Node -> RouteState] /\ Reach' = {}
BY DEF NoRoutes, RouteState, Reach

(* What the news of a parent leaves of a table, and where the router is.   *)
LEMMA ParentEventTable ==
  ASSUME TypeOK, NEW t, NEW S \in SUBSET Prefix, Good(t, current_dag, S), current_dag # 0,
         addresses \subseteq S, NEW x \in Place, ParentEvent(t, x)
  PROVE  /\ Good(dag_table', current_dag', S) /\ current_dag' \in Place /\ addresses' \subseteq S
         /\ (NoneRoot(t) => NoneRoot(dag_table')) /\ Same(dag_table', t)
         /\ routes' \in [Node -> RouteState] /\ Reach' \subseteq Reach
<1>1. current_dag \in Place
  BY TableAssumption DEF TypeOK, Place
<1>2. /\ Good(LocalRepair(t), current_dag, S) /\ NoneRoot(LocalRepair(t)) /\ Same(LocalRepair(t), t)
      /\ Same(t, t)
  BY RepairTable DEF Same
<1>3. CASE /\ dag_table' \in {t, LocalRepair(t)}
           /\ routes' \in RoutesAfterMove
           /\ UNCHANGED <<current_dag, addresses>>
  <2>1. routes' \in [Node -> RouteState] /\ Reach' \subseteq Reach
    BY <1>3, MoveRoutes
  <2>2. CASE dag_table' = t
    BY <1>1, <1>2, <1>3, <2>1, <2>2
  <2>3. CASE dag_table' = LocalRepair(t)
    BY <1>1, <1>2, <1>3, <2>1, <2>3
  <2> QED BY <1>3, <2>2, <2>3
<1>4. ASSUME NEW y \in Place \ {current_dag}, t[y].used,
             NEW r \in {t, LocalRepair(t)},
             dag_table' = Moved(r, current_dag, y),
             current_dag' = y,
             addresses' = WithAddress(addresses \ {t[current_dag].dag_id}, t[y].dag_id),
             routes' = NoRoutes
      PROVE  /\ Good(dag_table', current_dag', S) /\ current_dag' \in Place /\ addresses' \subseteq S
             /\ (NoneRoot(t) => NoneRoot(dag_table')) /\ Same(dag_table', t)
             /\ routes' \in [Node -> RouteState] /\ Reach' \subseteq Reach
  <2>1. Good(r, current_dag, S) /\ (NoneRoot(t) => NoneRoot(r)) /\ Same(r, t)
    BY <1>2, <1>4
  <2>2. r[y].used
    BY <1>4, <2>1 DEF Same
  <2>3. Good(dag_table', y, S) /\ (NoneRoot(r) => NoneRoot(dag_table')) /\ Same(dag_table', r)
    BY <1>1, <1>4, <2>1, <2>2, MoveTable
  <2>4. Same(dag_table', t)
    BY <2>1, <2>3 DEF Same
  <2>5. t[y].dag_id \in S
    BY <1>4 DEF Good, Within
  <2>6. addresses' \subseteq S
    BY <1>4, <2>5 DEF WithAddress
  <2>7. routes' \in [Node -> RouteState] /\ Reach' \subseteq Reach
    BY <1>4, LostRoutes
  <2> QED BY <1>4, <2>1, <2>3, <2>4, <2>6, <2>7
<1> QED BY <1>3, <1>4 DEF ParentEvent, Moved

----------------------------------------------------------------------------
(* What rpl_set_root does to the table: a place for the new DAG, the old    *)
(* one of its prefix gone, and the others as they were but for joined.     *)
Free(p) == {d \in Place : ~dag_table[d].used \/ d = get_dag(p)}

LEMMA NewRootTable ==
  ASSUME TypeOK, NEW S \in SUBSET Prefix, Good(dag_table, current_dag, S), addresses \subseteq S,
         NEW p \in Prefix, Free(p) # {}, NewRoot(p, Free(p))
  PROVE  /\ current_dag' \in Place
         /\ dag_table'[current_dag'] = Made(p, NewVersion(p), TRUE, TRUE)
         /\ \A d \in Place \ {current_dag'} :
              /\ dag_table'[d] \in Dag
              /\ ~dag_table'[d].joined
              /\ dag_table'[d].used <=> dag_table[d].used /\ dag_table[d].dag_id # p
              /\ dag_table'[d].used => /\ dag_table'[d].dag_id = dag_table[d].dag_id
                                        /\ dag_table'[d].version = dag_table[d].version
                                        /\ dag_table'[d].root = dag_table[d].root
         /\ ~dag_table[current_dag'].used \/ dag_table[current_dag'].dag_id = p
         /\ Good(dag_table', current_dag', S \cup {p})
         /\ addresses' \subseteq S \cup {p}
<1>1. Least(Free(p)) \in Free(p)
  BY LeastExists, PlaceNat DEF Free
<1> DEFINE c == current_dag'
           old == get_dag(p)
           m == Made(p, NewVersion(p), TRUE, TRUE)
<1>2. c \in Free(p) /\ c \in Place /\ c = Least(Free(p))
  BY <1>1 DEF NewRoot, Free
<1>3. dag_table' = [d \in Place |-> IF d = c THEN m ELSE IF d = old THEN Unused
                                    ELSE [dag_table[d] EXCEPT !.joined = FALSE]]
  BY <1>2 DEF NewRoot
<1>4. /\ m \in Dag /\ m.used /\ m.dag_id = p /\ m.version = NewVersion(p) /\ m.joined /\ m.root
  <2>1. NewVersion(p) \in 0..255
    BY NewVersionType
  <2> QED BY <2>1, MadeDag
<1>5. \A d \in Place : dag_table[d].used => (d = old <=> dag_table[d].dag_id = p)
  <2>1. \/ old = 0 /\ \A d \in Place : dag_table[d].used => dag_table[d].dag_id # p
        \/ old \in Place /\ dag_table[old].used /\ dag_table[old].dag_id = p
    BY GetDag
  <2> HIDE DEF old
  <2>2. 0 \notin Place
    BY PlaceNat
  <2> QED BY <2>1, <2>2 DEF Good, Distinct
<1>6. ~dag_table[c].used \/ dag_table[c].dag_id = p
  BY <1>2, <1>5 DEF Free
<1> HIDE DEF c, old, m
<1>7. dag_table'[c] = m
  BY <1>2, <1>3
<1>8. ASSUME NEW d \in Place \ {c}
      PROVE  /\ dag_table'[d] \in Dag
             /\ ~dag_table'[d].joined
             /\ dag_table'[d].used <=> dag_table[d].used /\ dag_table[d].dag_id # p
             /\ dag_table'[d].used => /\ dag_table'[d].dag_id = dag_table[d].dag_id
                                       /\ dag_table'[d].version = dag_table[d].version
                                       /\ dag_table'[d].root = dag_table[d].root
  <2>1. CASE d = old
    <3>1. dag_table'[d] = Unused
      BY <1>3, <2>1
    <3>2. ~dag_table[d].used \/ dag_table[d].dag_id = p
      BY <1>5, <2>1
    <3> QED BY <3>1, <3>2, UnusedDag
  <2>2. CASE d # old
    <3>1. dag_table'[d] = [dag_table[d] EXCEPT !.joined = FALSE]
      BY <1>3, <2>2
    <3>2. dag_table[d] \in Dag
      BY DEF TypeOK
    <3>3. /\ dag_table'[d] \in Dag /\ dag_table'[d].joined = FALSE
          /\ dag_table'[d].root = dag_table[d].root /\ dag_table'[d].used = dag_table[d].used
          /\ dag_table'[d].dag_id = dag_table[d].dag_id /\ dag_table'[d].version = dag_table[d].version
      BY <3>1, <3>2, JoinedDag
    <3>4. dag_table[d].used => dag_table[d].dag_id # p
      BY <1>5, <2>2
    <3> QED BY <3>3, <3>4
  <2> QED BY <2>1, <2>2
<1>9. dag_table' \in [Place -> Dag]
  <2>1. \A d \in Place : dag_table'[d] \in Dag
    BY <1>4, <1>7, <1>8
  <2> QED BY <1>3, <2>1
<1>10. OneJoined(dag_table', c)
  BY <1>2, <1>4, <1>7, <1>8, PlaceNat DEF OneJoined
<1>11. Distinct(dag_table') /\ Within(dag_table', S \cup {p})
  <2>1. Within(dag_table', S \cup {p})
    BY <1>4, <1>7, <1>8 DEF Good, Within
  <2>2. Distinct(dag_table')
    BY <1>2, <1>4, <1>7, <1>8 DEF Good, Distinct
  <2> QED BY <2>1, <2>2
<1>12. addresses' \subseteq S \cup {p}
  BY DEF NewRoot, WithAddress
<1> QED BY <1>2, <1>6, <1>7, <1>8, <1>9, <1>10, <1>11, <1>12 DEF Good, c, m

LEMMA NoRootTable ==
  ASSUME NEW S \in SUBSET Prefix, addresses \subseteq S, NEW p \in Prefix, NoRoot(p)
  PROVE  current_dag' = 0 /\ Good(dag_table', current_dag', S \cup {p}) /\ addresses' \subseteq S \cup {p}
BY EmptyTable DEF NoRoot, WithAddress

(* One prefix more, and one less. *)
LEMMA OneMore ==
  ASSUME NEW S, IsFiniteSet(S), NEW x
  PROVE  /\ IsFiniteSet(S \cup {x}) /\ IsFiniteSet(S \ {x})
         /\ Cardinality(S) \in Nat /\ Cardinality(S \cup {x}) \in Nat /\ Cardinality(S \ {x}) \in Nat
         /\ Cardinality(S \cup {x}) = Cardinality(S \ {x}) + 1
         /\ Cardinality(S) <= Cardinality(S \cup {x})
<1>1. IsFiniteSet(S \cup {x}) /\ Cardinality(S \cup {x}) = IF x \in S THEN Cardinality(S) ELSE Cardinality(S) + 1
  BY FS_AddElement
<1>2. IsFiniteSet(S \ {x}) /\ Cardinality(S \ {x}) = IF x \in S THEN Cardinality(S) - 1 ELSE Cardinality(S)
  BY FS_RemoveElement
<1>3. Cardinality(S) \in Nat
  BY FS_CardinalityType
<1>4. Cardinality(S \cup {x}) \in Nat /\ Cardinality(S \ {x}) \in Nat
  BY <1>1, <1>2, FS_CardinalityType
<1> QED BY <1>1, <1>2, <1>3, <1>4

(* With at most as many prefixes as places, the next has a place.          *)
LEMMA PlaceLeft ==
  ASSUME NEW S, IsFiniteSet(S), NEW p \in Prefix, Cardinality(S \cup {p}) <= MaxDag,
         Good(dag_table, current_dag, S \cup {p})
  PROVE  Free(p) # {}
<1> SUFFICES ASSUME Free(p) = {} PROVE FALSE
  OBVIOUS
<1>1. \A d \in Place : dag_table[d].used /\ dag_table[d].dag_id # p
  BY GetDag DEF Free
<1> DEFINE id == [d \in Place |-> dag_table[d].dag_id]
<1>2. /\ IsFiniteSet(S \ {p}) /\ Cardinality(S \ {p}) \in Nat
      /\ Cardinality(S \cup {p}) = Cardinality(S \ {p}) + 1
  BY OneMore
<1>3. id \in [Place -> S \ {p}]
  BY <1>1 DEF Good, Within
<1>4. IsFiniteSet(Place) /\ Cardinality(S \ {p}) < Cardinality(Place)
  BY <1>2, PlaceNat, TableAssumption
<1> HIDE DEF id
<1>5. PICK d, e \in Place : d # e /\ id[d] = id[e]
  BY <1>2, <1>3, <1>4, FS_PigeonHole
<1> USE DEF id
<1> QED BY <1>1, <1>5 DEF Good, Distinct

(* The address of a prefix is there after its answer.                      *)
LEMMA AddressLeft ==
  ASSUME NEW S, IsFiniteSet(S), NEW p \in Prefix, Cardinality(S \cup {p}) <= MaxDag,
         addresses \subseteq S \cup {p}, NEW free, NewRoot(p, free)
  PROVE  p \in addresses'
<1>1. /\ IsFiniteSet(S \ {p}) /\ Cardinality(S \ {p}) \in Nat
      /\ Cardinality(S \cup {p}) = Cardinality(S \ {p}) + 1
  BY OneMore
<1>2. ASSUME NEW A \in SUBSET (S \cup {p}) PROVE p \in WithAddress(A, p)
  <2>1. CASE p \in A
    BY <2>1 DEF WithAddress
  <2>2. CASE p \notin A
    <3>1. A \in SUBSET (S \ {p})
      BY <2>2
    <3>2. IsFiniteSet(A) /\ Cardinality(A) \in Nat /\ Cardinality(A) <= Cardinality(S \ {p})
      BY <1>1, <3>1, FS_Subset, FS_CardinalityType
    <3>3. Cardinality(A) < MaxAddr
      BY <1>1, <3>2, TableAssumption
    <3> QED BY <3>3 DEF WithAddress
  <2> QED BY <2>1, <2>2
<1> DEFINE A == WithAddress(addresses, p) \ (IF get_dag(p) = 0 THEN {} ELSE Given({get_dag(p)}))
<1>3. A \in SUBSET (S \cup {p})
  BY DEF WithAddress
<1>4. addresses' = WithAddress(A, p)
  BY DEF NewRoot
<1> QED BY <1>2, <1>3, <1>4

(* The versions that a table holds of the DAGs of q. *)
VersionOf(t, q) == {t[d].version : d \in {e \in Place : t[e].used /\ t[e].dag_id = q}}

LEMMA SameVersions ==
  ASSUME NEW t, NEW u, Same(t, u), NEW q PROVE VersionOf(t, q) = VersionOf(u, q)
BY DEF Same, VersionOf

LEMMA VersionIsVersionOf ==
  ASSUME NEW q PROVE Version(q) = VersionOf(dag_table, q) /\ Version(q)' = VersionOf(dag_table', q)
BY DEF Version, VersionOf

(* An answer gives its prefix the version that follows, and the others theirs. *)
LEMMA AnswerVersions ==
  ASSUME TypeOK, NEW S \in SUBSET Prefix, Good(dag_table, current_dag, S), addresses \subseteq S,
         NEW p \in Prefix, Free(p) # {}, NewRoot(p, Free(p))
  PROVE  /\ NewVersion(p) \in 0..255
         /\ Version(p)' = {NewVersion(p)}
         /\ \A w \in Version(p) : NewVersion(p) = RPL_LOLLIPOP_INCREMENT(w)
         /\ \A q \in Prefix \ {p} : Version(q)' = Version(q)
<1>1. NewVersion(p) \in 0..255
  BY NewVersionType
<1>2. /\ current_dag' \in Place
      /\ dag_table'[current_dag'] = Made(p, NewVersion(p), TRUE, TRUE)
      /\ \A d \in Place \ {current_dag'} :
           /\ dag_table'[d].used <=> dag_table[d].used /\ dag_table[d].dag_id # p
           /\ dag_table'[d].used => /\ dag_table'[d].dag_id = dag_table[d].dag_id
                                     /\ dag_table'[d].version = dag_table[d].version
      /\ ~dag_table[current_dag'].used \/ dag_table[current_dag'].dag_id = p
      /\ Good(dag_table', current_dag', S \cup {p})
  BY NewRootTable
<1>3. /\ dag_table'[current_dag'].used /\ dag_table'[current_dag'].dag_id = p
      /\ dag_table'[current_dag'].version = NewVersion(p)
  BY <1>2 DEF Made
<1>4. VersionOf(dag_table', p) = {NewVersion(p)}
  <2>1. \A d \in Place : dag_table'[d].used /\ dag_table'[d].dag_id = p <=> d = current_dag'
    BY <1>2, <1>3 DEF Good, Distinct
  <2>2. {e \in Place : dag_table'[e].used /\ dag_table'[e].dag_id = p} = {current_dag'}
    BY <1>2, <2>1
  <2> QED BY <1>3, <2>2 DEF VersionOf
<1>5. ASSUME NEW w \in Version(p) PROVE NewVersion(p) = RPL_LOLLIPOP_INCREMENT(w)
  <2>1. PICK e \in Place : dag_table[e].used /\ dag_table[e].dag_id = p /\ w = dag_table[e].version
    BY DEF Version
  <2>2. e = get_dag(p) /\ e # 0
    BY <2>1, GetDag, PlaceNat DEF Good, Distinct
  <2> QED BY <2>1, <2>2 DEF NewVersion
<1>6. ASSUME NEW q \in Prefix \ {p} PROVE VersionOf(dag_table', q) = VersionOf(dag_table, q)
  <2>1. \A d \in Place :
          /\ dag_table'[d].used /\ dag_table'[d].dag_id = q <=> dag_table[d].used /\ dag_table[d].dag_id = q
          /\ dag_table'[d].used /\ dag_table'[d].dag_id = q => dag_table'[d].version = dag_table[d].version
    BY <1>2, <1>3
  <2> QED BY <2>1 DEF VersionOf
<1> QED BY <1>1, <1>4, <1>5, <1>6, VersionIsVersionOf

(* What an answer leaves. *)
LEMMA RecvPrefixTable ==
  ASSUME Inv, RecvPrefix
  PROVE  /\ last' = Head(answers) /\ last' \in Prefix /\ prefix_set' /\ SetPrefix(last')
         /\ seen' = seen \cup {last'} /\ met' \subseteq met
         /\ seen' \cup met' = (seen \cup met) \cup {last'}
         /\ current_dag' \in 0..MaxDag
         /\ Good(dag_table', current_dag', seen' \cup met')
         /\ addresses' \subseteq seen' \cup met'
<1> DEFINE p == Head(answers)
           S == seen \cup met
<1>1. p \in Prefix /\ last' = p /\ SetPrefix(p) /\ prefix_set' /\ seen' = seen \cup {p}
  BY DEF RecvPrefix, Inv, TypeOK
<1>2. met' \subseteq met /\ seen' \cup met' = S \cup {p}
  BY <1>1 DEF RecvPrefix
<1>3. S \in SUBSET Prefix /\ Good(dag_table, current_dag, S) /\ addresses \subseteq S /\ TypeOK
  BY DEF Inv, TypeOK
<1> HIDE DEF p, S
<1>4. CASE Free(p) = {}
  <2>1. NoRoot(p)
    BY <1>1, <1>4 DEF SetPrefix, Free
  <2> QED BY <1>1, <1>2, <1>3, <2>1, NoRootTable, TableAssumption DEF p, S
<1>5. CASE Free(p) # {}
  <2>1. NewRoot(p, Free(p))
    BY <1>1, <1>5 DEF SetPrefix, Free
  <2>2. /\ current_dag' \in Place /\ Good(dag_table', current_dag', S \cup {p})
        /\ addresses' \subseteq S \cup {p}
    BY <1>1, <1>3, <1>5, <2>1, NewRootTable
  <2>3. current_dag' \in 0..MaxDag
    BY <2>2, TableAssumption DEF Place
  <2> QED BY <1>1, <1>2, <2>2, <2>3 DEF p, S
<1> QED BY <1>4, <1>5

(* Undisturbed, the answer makes the router a root, and of all DAGs it was. *)
LEMMA RecvPrefixRoot ==
  ASSUME Inv, RecvPrefix, Undisturbed'
  PROVE  /\ Free(last') # {} /\ NewRoot(last', Free(last'))
         /\ AllRoot(dag_table') /\ Holds(dag_table', seen') /\ RootKept'
<1> DEFINE p == last'
           S == seen \cup met
<1>1. /\ p \in Prefix /\ prefix_set' /\ SetPrefix(p) /\ seen' = seen \cup {p} /\ met' \subseteq met
      /\ seen' \cup met' = S \cup {p}
      /\ p = Head(answers)
  BY RecvPrefixTable
<1>2. met' = {} /\ Cardinality(seen' \cup met') <= MaxDag
  BY <1>1 DEF Undisturbed
<1>3. met \subseteq {p} /\ (prefix_set => met = {})
  BY <1>1, <1>2 DEF RecvPrefix
<1>4. /\ S \in SUBSET Prefix /\ Good(dag_table, current_dag, S) /\ addresses \subseteq S /\ TypeOK
      /\ IsFiniteSet(seen)
  BY DEF Inv, TypeOK
<1>5. S \cup {p} = seen \cup {p}
  BY <1>3
<1>6. Cardinality(seen \cup {p}) <= MaxDag
  BY <1>1, <1>2, <1>5
<1>7. prefix_set => Undisturbed
  <2>1. /\ Cardinality(seen) \in Nat /\ Cardinality(seen \cup {p}) \in Nat
        /\ Cardinality(seen) <= Cardinality(seen \cup {p})
    BY <1>4, OneMore
  <2>2. Cardinality(seen) <= MaxDag
    BY <1>6, <2>1, TableAssumption
  <2>3. prefix_set => seen \cup met = seen
    BY <1>3
  <2> QED BY <1>3, <2>2, <2>3 DEF Undisturbed
<1>8. prefix_set => AllRoot(dag_table) /\ Holds(dag_table, seen)
  BY <1>7 DEF Inv
<1>9. ~prefix_set => seen = {}
  BY DEF Inv
<1>10. Free(p) # {}
  <2>1. Good(dag_table, current_dag, seen \cup {p})
    BY <1>4, <1>5 DEF Good, Within
  <2> QED BY <1>1, <1>4, <1>6, <2>1, PlaceLeft
<1>11. NewRoot(p, Free(p))
  BY <1>1, <1>10 DEF SetPrefix, Free
<1>12. p \in addresses'
  <2>1. addresses \subseteq seen \cup {p}
    BY <1>4, <1>5
  <2> QED BY <1>1, <1>4, <1>6, <1>11, <2>1, AddressLeft
<1> HIDE DEF p, S
<1>13. /\ current_dag' \in Place
       /\ dag_table'[current_dag'] = Made(p, NewVersion(p), TRUE, TRUE)
       /\ \A d \in Place \ {current_dag'} :
            /\ dag_table'[d].used <=> dag_table[d].used /\ dag_table[d].dag_id # p
            /\ dag_table'[d].used => /\ dag_table'[d].dag_id = dag_table[d].dag_id
                                      /\ dag_table'[d].root = dag_table[d].root
       /\ ~dag_table[current_dag'].used \/ dag_table[current_dag'].dag_id = p
  BY <1>1, <1>4, <1>10, <1>11, NewRootTable
<1>14. /\ dag_table'[current_dag'].used /\ dag_table'[current_dag'].dag_id = p
       /\ dag_table'[current_dag'].joined /\ dag_table'[current_dag'].root
  BY <1>13 DEF Made
<1>15. \A d \in Place : dag_table[d].used /\ ~prefix_set => dag_table[d].dag_id = p
  BY <1>3, <1>4, <1>9 DEF Good, Within, S
<1>16. AllRoot(dag_table')
  BY <1>8, <1>13, <1>14, <1>15 DEF AllRoot
<1>17. Holds(dag_table', seen')
  <2> SUFFICES ASSUME NEW q \in seen' PROVE \E d \in Place : dag_table'[d].used /\ dag_table'[d].dag_id = q
    BY DEF Holds
  <2>1. CASE q = p
    BY <1>13, <1>14, <2>1
  <2>2. CASE q # p
    <3>1. q \in seen /\ prefix_set
      BY <1>1, <1>9, <2>2
    <3>2. PICK d \in Place : dag_table[d].used /\ dag_table[d].dag_id = q
      BY <1>8, <3>1 DEF Holds
    <3> QED BY <1>13, <2>2, <3>2
  <2> QED BY <2>1, <2>2
<1>18. RootKept'
  BY <1>1, <1>12, <1>13, <1>14, PlaceNat DEF RootKept, p
<1> QED BY <1>10, <1>11, <1>16, <1>17, <1>18 DEF p

----------------------------------------------------------------------------
(* What a DIO changes in the table: a version, or a DAG more.               *)
Renewed(t, d, w) == [t EXCEPT ![d].version = w]

Renews(t, u, d, w) == \A e \in Place :
  /\ u[e].used = t[e].used
  /\ u[e].dag_id = t[e].dag_id
  /\ u[e].joined = t[e].joined
  /\ u[e].root = t[e].root
  /\ u[e].version = IF e = d THEN w ELSE t[e].version

LEMMA RenewedTable ==
  ASSUME NEW t, NEW c, NEW S, Good(t, c, S), NEW d \in Place, NEW w \in 0..255,
         NEW u, u = Renewed(t, d, w)
  PROVE  /\ Good(u, c, S)
         /\ Renews(t, u, d, w)
<1> DEFINE A == [t[d] EXCEPT !.version = w]
<1>1. t \in [Place -> Dag] /\ t[d] \in Dag
  BY DEF Good
<1>2. /\ A \in Dag /\ A.joined = t[d].joined /\ A.root = t[d].root
      /\ A.used = t[d].used /\ A.dag_id = t[d].dag_id /\ A.version = w
  <2> DEFINE r == t[d]
  <2>1. r \in Dag /\ A = [r EXCEPT !.version = w]
    BY <1>1
  <2> HIDE DEF A, r
  <2>2. /\ A \in Dag /\ A.joined = r.joined /\ A.root = r.root
        /\ A.used = r.used /\ A.dag_id = r.dag_id /\ A.version = w
    BY <2>1, VersionDag
  <2> QED BY <2>2 DEF r
<1>3. u = [t EXCEPT ![d] = A]
  BY DEF Renewed
<1> HIDE DEF A
<1>4. u \in [Place -> Dag] /\ u[d] = A /\ \A e \in Place \ {d} : u[e] = t[e]
  BY <1>1, <1>2, <1>3
<1>5. ASSUME NEW e \in Place
      PROVE  /\ u[e].used = t[e].used /\ u[e].dag_id = t[e].dag_id /\ u[e].joined = t[e].joined
             /\ u[e].root = t[e].root /\ u[e].version = IF e = d THEN w ELSE t[e].version
  <2>1. CASE e = d
    BY <1>2, <1>4, <2>1
  <2>2. CASE e # d
    BY <1>4, <2>2
  <2> QED BY <2>1, <2>2
<1>6. Good(u, c, S)
  BY <1>4, <1>5 DEF Good, Distinct, Within, OneJoined
<1> QED BY <1>5, <1>6 DEF Renews

Added(t, d, p, v) == [t EXCEPT ![d] = Made(p, v, FALSE, FALSE)]

(* A table gets a DAG of p, of version v. *)
Gains(t, u, p, v) ==
  VersionOf(u, p) = {v} /\ \A q \in Prefix \ {p} : VersionOf(u, q) = VersionOf(t, q)

(* A place that is free for a DAG that is not there. *)
Vacant(t, d, p) == ~t[d].used /\ \A e \in Place : t[e].used => t[e].dag_id # p

LEMMA AddedTable ==
  ASSUME NEW t, NEW c, c # 0, NEW S, Good(t, c, S), NEW p \in Prefix, NEW v \in 0..255,
         NEW d \in Place, Vacant(t, d, p), NEW u, u = Added(t, d, p, v)
  PROVE  /\ Good(u, c, S \cup {p})
         /\ NoneRoot(t) => NoneRoot(u)
         /\ Gains(t, u, p, v)
<1> USE DEF Vacant
<1> DEFINE m == Made(p, v, FALSE, FALSE)
<1>1. t \in [Place -> Dag]
  BY DEF Good
<1>2. m \in Dag
  BY MadeDag
<1>3. m.used /\ m.dag_id = p /\ m.version = v /\ ~m.joined /\ ~m.root
  BY DEF Made
<1> HIDE DEF m
<1>4. u \in [Place -> Dag] /\ u[d] = m /\ \A e \in Place \ {d} : u[e] = t[e]
  BY <1>1, <1>2 DEF Added, m
<1>5. d # c
  BY DEF Good, OneJoined
<1>6. OneJoined(u, c)
  BY <1>3, <1>4, <1>5 DEF Good, OneJoined
<1>7. Within(u, S \cup {p})
  BY <1>3, <1>4 DEF Good, Within
<1>8. Distinct(u)
  BY <1>3, <1>4 DEF Good, Distinct
<1>9. NoneRoot(t) => NoneRoot(u)
  BY <1>3, <1>4 DEF NoneRoot
<1>10. VersionOf(u, p) = {v}
  <2>1. {e \in Place : u[e].used /\ u[e].dag_id = p} = {d}
    BY <1>3, <1>4
  <2> QED BY <1>3, <1>4, <2>1 DEF VersionOf
<1>11. ASSUME NEW q \in Prefix \ {p} PROVE VersionOf(u, q) = VersionOf(t, q)
  <2>1. \A e \in Place :
          /\ u[e].used /\ u[e].dag_id = q <=> t[e].used /\ t[e].dag_id = q
          /\ u[e].used /\ u[e].dag_id = q => u[e].version = t[e].version
    BY <1>3, <1>4
  <2> QED BY <2>1 DEF VersionOf
<1>12. Good(u, c, S \cup {p})
  BY <1>4, <1>6, <1>7, <1>8 DEF Good
<1> QED BY <1>9, <1>10, <1>11, <1>12 DEF Gains

Joined(p, v) == [Empty EXCEPT ![1] = Made(p, v, TRUE, FALSE)]

LEMMA JoinedTable ==
  ASSUME NEW p \in Prefix, NEW v \in 0..255
  PROVE  /\ 1 \in Place /\ Good(Joined(p, v), 1, {p}) /\ NoneRoot(Joined(p, v))
         /\ VersionOf(Joined(p, v), p) = {v} /\ \A q \in Prefix \ {p} : VersionOf(Joined(p, v), q) = {}
<1> DEFINE m == Made(p, v, TRUE, FALSE)
           u == [Empty EXCEPT ![1] = m]
<1>1. 1 \in Place
  BY TableAssumption DEF Place
<1>2. m \in Dag
  BY MadeDag
<1>3. m.used /\ m.dag_id = p /\ m.version = v /\ m.joined /\ ~m.root
  BY DEF Made
<1>4. Empty \in [Place -> Dag] /\ \A e \in Place : ~Empty[e].used /\ ~Empty[e].joined /\ ~Empty[e].root
  BY UnusedDag DEF Empty
<1> HIDE DEF m
<1>5. u \in [Place -> Dag] /\ u[1] = m /\ \A e \in Place \ {1} : u[e] = Empty[e]
  BY <1>1, <1>2, <1>4
<1> HIDE DEF u
<1>6. Good(u, 1, {p})
  BY <1>3, <1>4, <1>5, PlaceNat DEF Good, Distinct, Within, OneJoined
<1>7. NoneRoot(u)
  BY <1>3, <1>4, <1>5 DEF NoneRoot
<1>8. VersionOf(u, p) = {v}
  <2>1. {e \in Place : u[e].used /\ u[e].dag_id = p} = {1}
    <3>1. u[1].used /\ u[1].dag_id = p
      BY <1>3, <1>5
    <3>2. \A e \in Place \ {1} : ~u[e].used
      BY <1>4, <1>5
    <3> QED BY <1>1, <3>1, <3>2
  <2>2. u[1].version = v
    BY <1>3, <1>5
  <2>3. VersionOf(u, p) = {u[d].version : d \in {1}}
    BY <2>1 DEF VersionOf
  <2> QED BY <2>2, <2>3
<1>9. ASSUME NEW q \in Prefix \ {p} PROVE VersionOf(u, q) = {}
  <2>1. \A e \in Place : ~(u[e].used /\ u[e].dag_id = q)
    <3>1. u[1].dag_id # q
      BY <1>3, <1>5
    <3>2. \A e \in Place \ {1} : ~u[e].used
      BY <1>4, <1>5
    <3> QED BY <3>1, <3>2
  <2> QED BY <2>1 DEF VersionOf
<1> QED BY <1>1, <1>6, <1>7, <1>8, <1>9 DEF Joined, u, m

LEMMA GoodMore ==
  ASSUME NEW t, NEW c, NEW S, Good(t, c, S), NEW T, S \subseteq T PROVE Good(t, c, T)
BY DEF Good, Within

(* What a DIO leaves: as a node, of the versions it knows the router takes  *)
(* a newer one, if any, as long as the table has room.                     *)
Newer(p) ==
  /\ \A q \in Prefix \ {p} : Version(q)' = Version(q)
  /\ \/ Version(p)' = Version(p)
     \/ \E v \in 0..255 : Version(p)' = {v} /\ \A w \in Version(p) : lollipop_greater_than(v, w)

DioLeaves(p, S) ==
  /\ current_dag' \in 0..MaxDag
  /\ Good(dag_table', current_dag', S)
  /\ addresses' \subseteq S
  /\ routes' \in [Node -> RouteState] /\ Reach' \subseteq Reach
  /\ NoneRoot(dag_table) => NoneRoot(dag_table')
  /\ current_dag # 0 /\ Cardinality(S) <= MaxDag => current_dag' # 0

LEMMA SameNewer ==
  ASSUME Same(dag_table', dag_table), NEW p PROVE Newer(p)
<1>1. \A q : VersionOf(dag_table', q) = VersionOf(dag_table, q)
  BY SameVersions
<1> QED BY <1>1, VersionIsVersionOf DEF Newer

LEMMA JoinInstanceLeaves ==
  ASSUME Inv, NEW S \in SUBSET Prefix, Good(dag_table, current_dag, S), addresses \subseteq S,
         NEW p \in Prefix, NEW v \in 0..255, current_dag = 0, JoinInstance(p, v)
  PROVE  DioLeaves(p, S \cup {p}) /\ Newer(p)
<1>1. CASE UNCHANGED <<dag_table, current_dag, addresses, routes>>
  <2>1. Good(dag_table', current_dag', S \cup {p}) /\ Same(dag_table', dag_table)
    BY <1>1, GoodMore DEF Same
  <2>2. routes' \in [Node -> RouteState] /\ Reach' \subseteq Reach
    BY <1>1 DEF Inv, TypeOK, Reach
  <2> QED BY <1>1, <2>1, <2>2, SameNewer DEF DioLeaves, Inv, TypeOK
<1>2. CASE /\ dag_table' = Joined(p, v)
           /\ current_dag' = 1
           /\ addresses' = WithAddress(addresses, p)
           /\ UNCHANGED routes
  <2>1. /\ 1 \in Place /\ Good(dag_table', 1, {p}) /\ NoneRoot(dag_table')
        /\ VersionOf(dag_table', p) = {v} /\ \A q \in Prefix \ {p} : VersionOf(dag_table', q) = {}
    BY <1>2, JoinedTable
  <2>2. Good(dag_table', current_dag', S \cup {p})
    BY <1>2, <2>1, GoodMore
  <2>3. current_dag' \in 0..MaxDag
    BY <1>2, <2>1, TableAssumption DEF Place
  <2>4. addresses' \subseteq S \cup {p}
    BY <1>2 DEF WithAddress
  <2>5. routes' \in [Node -> RouteState] /\ Reach' \subseteq Reach
    BY <1>2 DEF Inv, TypeOK, Reach
  <2>6. \A q : VersionOf(dag_table, q) = {}
    <3>1. \A d \in Place : ~dag_table[d].used
      BY DEF Good, OneJoined
    <3> QED BY <3>1 DEF VersionOf
  <2>7. Newer(p)
    BY <2>1, <2>6, VersionIsVersionOf DEF Newer
  <2> QED BY <2>1, <2>2, <2>3, <2>4, <2>5, <2>7 DEF DioLeaves
<1> QED BY <1>1, <1>2 DEF JoinInstance, Joined

LEMMA AddDagLeaves ==
  ASSUME Inv, NEW S \in SUBSET Prefix, IsFiniteSet(S), Good(dag_table, current_dag, S),
         addresses \subseteq S, NEW p \in Prefix, NEW v \in 0..255,
         current_dag # 0, get_dag(p) = 0, AddDag(p, v)
  PROVE  /\ DioLeaves(p, S \cup {p})
         /\ Cardinality(S \cup {p}) <= MaxDag => Newer(p)
<1> DEFINE free == {d \in Place : ~dag_table[d].used}
<1>1. TypeOK /\ Good(dag_table, current_dag, S \cup {p}) /\ addresses \subseteq S \cup {p}
      /\ S \cup {p} \in SUBSET Prefix
  BY GoodMore DEF Inv
<1>2. CASE /\ free = {}
           /\ dag_table' = Empty
           /\ current_dag' = 0
           /\ addresses' = addresses \ Given(Place)
           /\ routes' = NoRoutes
  <2>1. Good(dag_table', current_dag', S \cup {p}) /\ NoneRoot(dag_table')
    BY <1>2, EmptyTable
  <2>2. routes' \in [Node -> RouteState] /\ Reach' \subseteq Reach
    BY <1>2, LostRoutes
  <2>3. ~(Cardinality(S \cup {p}) <= MaxDag)
    <3>1. Free(p) = {}
      BY <1>2, PlaceNat DEF Free
    <3> QED BY <1>1, <3>1, PlaceLeft
  <2> QED BY <1>1, <1>2, <2>1, <2>2, <2>3, TableAssumption DEF DioLeaves
<1>3. CASE routes' \in RoutesAfterMove /\ UNCHANGED <<dag_table, current_dag, addresses>>
  <2>1. routes' \in [Node -> RouteState] /\ Reach' \subseteq Reach
    BY <1>1, <1>3, MoveRoutes
  <2>2. Same(dag_table', dag_table)
    BY <1>3 DEF Same
  <2> QED BY <1>1, <1>3, <2>1, <2>2, SameNewer DEF DioLeaves, TypeOK
<1>4. CASE /\ free # {}
           /\ ParentEvent([dag_table EXCEPT ![Least(free)] = Made(p, v, FALSE, FALSE)], Least(free))
  <2> DEFINE d == Least(free)
             t == Added(dag_table, d, p, v)
  <2>1. d \in Place /\ ~dag_table[d].used
    BY <1>4, LeastExists, PlaceNat
  <2>2. \A e \in Place : dag_table[e].used => dag_table[e].dag_id # p
    BY GetDag, PlaceNat
  <2>3. ParentEvent(t, d)
    BY <1>4 DEF Added
  <2> HIDE DEF free, d, t
  <2>4. /\ Good(t, current_dag, S \cup {p})
        /\ NoneRoot(dag_table) => NoneRoot(t)
        /\ Gains(dag_table, t, p, v)
    <3>1. t = Added(dag_table, d, p, v)
      BY DEF t
    <3>2. Vacant(dag_table, d, p) /\ d \in Place
      BY <2>1, <2>2 DEF Vacant
    <3> QED BY <3>1, <3>2, AddedTable, ZenonT(60)
  <2>5. /\ Good(dag_table', current_dag', S \cup {p}) /\ current_dag' \in Place
        /\ addresses' \subseteq S \cup {p}
        /\ (NoneRoot(t) => NoneRoot(dag_table')) /\ Same(dag_table', t)
        /\ routes' \in [Node -> RouteState] /\ Reach' \subseteq Reach
    BY <1>1, <2>1, <2>3, <2>4, ParentEventTable
  <2>6. \A q : VersionOf(dag_table', q) = VersionOf(t, q)
    BY <2>5, SameVersions
  <2>7. VersionOf(dag_table, p) = {}
    BY <2>2 DEF VersionOf
  <2>8. Newer(p)
    BY <2>4, <2>6, <2>7, VersionIsVersionOf DEF Newer, Gains
  <2>9. current_dag' \in 0..MaxDag /\ current_dag' # 0
    BY <2>5, TableAssumption, PlaceNat DEF Place
  <2> QED BY <2>4, <2>5, <2>8, <2>9 DEF DioLeaves
<1> QED BY <1>2, <1>3, <1>4 DEF AddDag

(* A version changes in the table, and no other. *)
LEMMA RenewedVersions ==
  ASSUME NEW t, Distinct(t), NEW d \in Place, t[d].used, NEW p, t[d].dag_id = p, NEW w, NEW u,
         Renews(t, u, d, w)
  PROVE  Gains(t, u, p, w) /\ VersionOf(t, p) = {t[d].version}
<1> USE DEF Renews
<1>1. {e \in Place : t[e].used /\ t[e].dag_id = p} = {d}
  BY DEF Distinct
<1>2. {e \in Place : u[e].used /\ u[e].dag_id = p} = {d}
  BY <1>1
<1>3. u[d].version = w
  OBVIOUS
<1>4. VersionOf(u, p) = {w}
  BY <1>2, <1>3 DEF VersionOf
<1>5. VersionOf(t, p) = {t[d].version}
  BY <1>1 DEF VersionOf
<1>6. ASSUME NEW q \in Prefix \ {p} PROVE VersionOf(u, q) = VersionOf(t, q)
  <2>1. \A e \in Place : e # d => u[e].version = t[e].version
    OBVIOUS
  <2>2. \A e \in Place : t[e].used /\ t[e].dag_id = q => e # d
    BY <1>6
  <2> QED BY <2>1, <2>2 DEF VersionOf
<1> QED BY <1>4, <1>5, <1>6 DEF Gains

LEMMA KnownDagLeaves ==
  ASSUME Inv, NEW S \in SUBSET Prefix, Good(dag_table, current_dag, S), addresses \subseteq S,
         NEW p \in Prefix, NEW v \in 0..255, current_dag # 0, get_dag(p) # 0, KnownDag(p, v)
  PROVE  /\ DioLeaves(p, S)
         /\ NoneRoot(dag_table) => Newer(p)
<1> DEFINE d == get_dag(p)
<1>1. d \in Place /\ dag_table[d].used /\ dag_table[d].dag_id = p /\ TypeOK
  BY GetDag DEF Inv
<1>2. CASE /\ lollipop_greater_than(v, dag_table[d].version)
           /\ dag_table[d].root
           /\ dag_table' = Renewed(dag_table, d, RPL_LOLLIPOP_INCREMENT(v))
           /\ UNCHANGED <<current_dag, addresses, routes>>
  <2>1. RPL_LOLLIPOP_INCREMENT(v) \in 0..255
    BY IncrementType
  <2>2. Good(dag_table', current_dag', S)
    BY <1>1, <1>2, <2>1, RenewedTable
  <2>3. ~NoneRoot(dag_table)
    BY <1>1, <1>2 DEF NoneRoot
  <2>4. routes' \in [Node -> RouteState] /\ Reach' \subseteq Reach
    BY <1>1, <1>2 DEF TypeOK, Reach
  <2> QED BY <1>1, <1>2, <2>2, <2>3, <2>4 DEF DioLeaves, TypeOK
<1>3. ASSUME NEW t, Good(t, current_dag, S), NoneRoot(dag_table) => NoneRoot(t), ParentEvent(t, d)
      PROVE  DioLeaves(p, S) /\ Same(dag_table', t)
  <2>1. /\ Good(dag_table', current_dag', S) /\ current_dag' \in Place
        /\ addresses' \subseteq S
        /\ (NoneRoot(t) => NoneRoot(dag_table')) /\ Same(dag_table', t)
        /\ routes' \in [Node -> RouteState] /\ Reach' \subseteq Reach
    BY <1>1, <1>3, ParentEventTable
  <2>2. current_dag' \in 0..MaxDag /\ current_dag' # 0
    BY <2>1, TableAssumption, PlaceNat DEF Place
  <2> QED BY <1>3, <2>1, <2>2 DEF DioLeaves
<1>4. CASE /\ lollipop_greater_than(v, dag_table[d].version)
           /\ ParentEvent([dag_table EXCEPT ![d].version = v], d)
  <2> DEFINE t == Renewed(dag_table, d, v)
  <2>1. ParentEvent(t, d)
    BY <1>4 DEF Renewed
  <2>2. /\ Good(t, current_dag, S)
        /\ Renews(dag_table, t, d, v)
    <3> HIDE DEF d
    <3>1. t = Renewed(dag_table, d, v)
      OBVIOUS
    <3> HIDE DEF t
    <3> QED BY <1>1, <3>1, RenewedTable
  <2> HIDE DEF t, d
  <2>3. NoneRoot(dag_table) => NoneRoot(t)
    BY <2>2 DEF NoneRoot, Renews
  <2>4. DioLeaves(p, S) /\ Same(dag_table', t)
    BY <1>3, <2>1, <2>2, <2>3
  <2>5. Gains(dag_table, t, p, v) /\ VersionOf(dag_table, p) = {dag_table[d].version}
    <3>1. Distinct(dag_table)
      BY DEF Good
    <3> QED BY <1>1, <2>2, <3>1, RenewedVersions
  <2>6. \A q : VersionOf(dag_table', q) = VersionOf(t, q)
    BY <2>4, SameVersions
  <2>7. Newer(p)
    <3>1. Version(p)' = {v} /\ Version(p) = {dag_table[d].version}
      BY <2>5, <2>6, VersionIsVersionOf DEF Gains
    <3>2. \A q \in Prefix \ {p} : Version(q)' = Version(q)
      BY <2>5, <2>6, VersionIsVersionOf DEF Gains
    <3>3. lollipop_greater_than(v, dag_table[d].version)
      BY <1>4 DEF d
    <3>4. \A w \in Version(p) : lollipop_greater_than(v, w)
      BY <3>1, <3>3
    <3> QED BY <3>1, <3>2, <3>4 DEF Newer
  <2> QED BY <2>4, <2>7
<1>5. CASE ParentEvent(dag_table, d)
  <2>1. DioLeaves(p, S) /\ Same(dag_table', dag_table)
    BY <1>3, <1>5
  <2> QED BY <2>1, SameNewer
<1> QED BY <1>2, <1>4, <1>5 DEF KnownDag, Renewed

LEMMA RecvDioLeaves ==
  ASSUME Inv, NEW p \in Prefix, NEW v \in Heard, RecvDio(p, v)
  PROVE  /\ seen' = seen /\ met' \in {met, met \cup {p}} /\ seen' \cup met' = (seen \cup met) \cup {p}
         /\ DioLeaves(p, seen' \cup met')
         /\ NoneRoot(dag_table) /\ Cardinality(seen' \cup met') <= MaxDag => Newer(p)
<1> DEFINE S == seen \cup met
<1>1. v \in 0..255
  BY HeardAssumption
<1>2. seen' = seen /\ met' \in {met, met \cup {p}} /\ seen' \cup met' = S \cup {p}
  BY DEF RecvDio
<1>3. S \in SUBSET Prefix /\ IsFiniteSet(S) /\ Good(dag_table, current_dag, S) /\ addresses \subseteq S
  BY FS_Union DEF Inv, TypeOK
<1> HIDE DEF S
<1>4. CASE current_dag = 0 /\ JoinInstance(p, v)
  <2>1. DioLeaves(p, S \cup {p}) /\ Newer(p)
    BY <1>1, <1>3, <1>4, JoinInstanceLeaves
  <2> QED BY <1>2, <2>1 DEF S
<1>5. CASE current_dag # 0 /\ get_dag(p) = 0 /\ AddDag(p, v)
  <2>1. DioLeaves(p, S \cup {p}) /\ (Cardinality(S \cup {p}) <= MaxDag => Newer(p))
    BY <1>1, <1>3, <1>5, AddDagLeaves
  <2> QED BY <1>2, <2>1 DEF S
<1>6. CASE current_dag # 0 /\ get_dag(p) # 0 /\ KnownDag(p, v)
  <2>1. Good(dag_table, current_dag, S \cup {p}) /\ addresses \subseteq S \cup {p}
        /\ S \cup {p} \in SUBSET Prefix
    BY <1>3, GoodMore
  <2>2. DioLeaves(p, S \cup {p}) /\ (NoneRoot(dag_table) => Newer(p))
    BY <1>1, <1>6, <2>1, KnownDagLeaves
  <2> QED BY <1>2, <2>2 DEF S
<1> QED BY <1>4, <1>5, <1>6 DEF RecvDio

(* To an undisturbed root a DIO can but tell of a newer version. *)
LEMMA RootDio ==
  ASSUME Inv, NEW p \in Prefix, NEW v \in Heard, RecvDio(p, v), prefix_set, Undisturbed'
  PROVE  /\ Undisturbed /\ UNCHANGED <<prefix_set, seen, last, met, current_dag, addresses, routes>>
         /\ \E d \in Place :
              /\ dag_table[d].used /\ dag_table[d].dag_id = p
              /\ lollipop_greater_than(v, dag_table[d].version)
              /\ Renews(dag_table, dag_table', d, RPL_LOLLIPOP_INCREMENT(v))
<1>1. met' = {} /\ UNCHANGED <<prefix_set, seen, last>>
  BY DEF RecvDio, Undisturbed
<1>2. p \in seen /\ met' = met
  BY <1>1 DEF RecvDio
<1>3. Undisturbed
  BY <1>1, <1>2 DEF Undisturbed
<1>4. AllRoot(dag_table) /\ Holds(dag_table, seen) /\ RootKept
  BY <1>3 DEF Inv
<1>5. current_dag # 0
  BY <1>3, <1>4 DEF RootKept
<1> DEFINE d == get_dag(p)
<1>6. d # 0 /\ d \in Place /\ dag_table[d].used /\ dag_table[d].dag_id = p
  BY <1>2, <1>4, GetDag, PlaceNat DEF Holds
<1>7. dag_table[d].root
  BY <1>4, <1>6 DEF AllRoot
<1>8. KnownDag(p, v)
  BY <1>5, <1>6 DEF RecvDio
<1>9. /\ lollipop_greater_than(v, dag_table[d].version)
      /\ dag_table' = Renewed(dag_table, d, RPL_LOLLIPOP_INCREMENT(v))
      /\ UNCHANGED <<current_dag, addresses, routes>>
  BY <1>7, <1>8 DEF KnownDag, Renewed
<1>10. RPL_LOLLIPOP_INCREMENT(v) \in 0..255
  BY HeardAssumption, IncrementType
<1>11. Good(dag_table, current_dag, seen \cup met)
  BY DEF Inv
<1> HIDE DEF d
<1>12. Renews(dag_table, dag_table', d, RPL_LOLLIPOP_INCREMENT(v))
  BY <1>6, <1>9, <1>10, <1>11, RenewedTable
<1> QED BY <1>1, <1>2, <1>3, <1>6, <1>9, <1>12

(* The invariant but for the types. *)
Kept ==
  /\ IsFiniteSet(seen) /\ IsFiniteSet(met)
  /\ Good(dag_table, current_dag, seen \cup met)
  /\ addresses \subseteq seen \cup met
  /\ ~prefix_set => seen = {} /\ NoneRoot(dag_table)
  /\ prefix_set /\ Undisturbed => AllRoot(dag_table) /\ Holds(dag_table, seen)
  /\ RootKept /\ InstanceKept

LEMMA InvParts == Inv <=> TypeOK /\ Kept
BY DEF Inv, Kept

LEMMA InitInv == Init => Inv
<1> SUFFICES ASSUME Init PROVE Inv
  OBVIOUS
<1>1. Good(dag_table, current_dag, seen \cup met) /\ NoneRoot(dag_table)
  BY EmptyTable DEF Init
<1>2. TypeOK
  <2>1. MaxDag \in Nat /\ MaxAsked \in Nat
    BY TableAssumption, BoundAssumption
  <2>2. dag_table \in [Place -> Dag] /\ routes \in [Node -> RouteState]
    BY <1>1 DEF Init, Good, NoRoutes, RouteState
  <2>3. questions \in 0..MaxAsked /\ current_dag \in 0..MaxDag
    BY <2>1 DEF Init
  <2>4. answers \in Seq(Prefix)
    BY DEF Init
  <2> QED BY <2>2, <2>3, <2>4 DEF Init, TypeOK
<1>3. Kept
  BY <1>1, FS_EmptySet DEF Init, Kept, RootKept, InstanceKept
<1> QED BY <1>2, <1>3, InvParts

(* A step that leaves the router and its DAGs alone. *)
LEMMA KeptStands ==
  ASSUME Inv, UNCHANGED <<prefix_set, dag_table, current_dag, addresses, seen, last, met>>
  PROVE  Kept'
BY DEF Inv, Kept, RootKept, InstanceKept, Undisturbed

(* What an answer or a DIO brings, the table had room for before.          *)
LEMMA FewBefore ==
  ASSUME Inv, NEW p, seen' \cup met' = (seen \cup met) \cup {p},
         Cardinality(seen' \cup met') <= MaxDag
  PROVE  Cardinality(seen \cup met) <= MaxDag
<1> DEFINE S == seen \cup met
<1>1. IsFiniteSet(S)
  BY FS_Union DEF Inv
<1> HIDE DEF S
<1>2. /\ Cardinality(S) \in Nat /\ Cardinality(S \cup {p}) \in Nat
      /\ Cardinality(S) <= Cardinality(S \cup {p})
  BY <1>1, OneMore
<1>3. Cardinality(S \cup {p}) <= MaxDag
  BY DEF S
<1>4. Cardinality(S) <= MaxDag
  BY <1>2, <1>3, TableAssumption
<1> QED BY <1>4 DEF S

LEMMA RecvPrefixDag ==
  ASSUME Inv, RecvPrefix, Cardinality(seen' \cup met') <= MaxDag PROVE current_dag' # 0
<1> DEFINE p == Head(answers)
           S == seen \cup met
<1>1. p \in Prefix /\ SetPrefix(p) /\ seen' \cup met' = S \cup {p}
  BY RecvPrefixTable
<1>2. /\ S \in SUBSET Prefix /\ IsFiniteSet(S) /\ Good(dag_table, current_dag, S)
      /\ addresses \subseteq S /\ TypeOK
  BY FS_Union DEF Inv, TypeOK
<1>3. Cardinality(S \cup {p}) <= MaxDag
  BY <1>1
<1> HIDE DEF p, S
<1>4. Good(dag_table, current_dag, S \cup {p})
  BY <1>2, GoodMore
<1>5. Free(p) # {}
  BY <1>1, <1>2, <1>3, <1>4, PlaceLeft
<1>6. NewRoot(p, Free(p))
  BY <1>1, <1>5 DEF SetPrefix, Free
<1>7. current_dag' \in Place
  BY <1>1, <1>2, <1>5, <1>6, NewRootTable
<1> QED BY <1>7, PlaceNat

LEMMA KeptRecvPrefix ==
  ASSUME Inv, RecvPrefix PROVE Kept'
<1>1. /\ prefix_set' /\ seen' = seen \cup {last'} /\ met' \subseteq met
      /\ Good(dag_table', current_dag', seen' \cup met')
      /\ addresses' \subseteq seen' \cup met'
  BY RecvPrefixTable
<1>2. IsFiniteSet(seen') /\ IsFiniteSet(met')
  BY <1>1, FS_AddElement, FS_Subset DEF Inv
<1>3. Undisturbed' => AllRoot(dag_table') /\ Holds(dag_table', seen') /\ RootKept'
  BY RecvPrefixRoot
<1>4. RootKept'
  BY <1>3 DEF RootKept
<1>5. InstanceKept'
  BY RecvPrefixDag DEF InstanceKept
<1> QED BY <1>1, <1>2, <1>3, <1>4, <1>5 DEF Kept

LEMMA KeptRecvDio ==
  ASSUME Inv, NEW p \in Prefix, NEW v \in Heard, RecvDio(p, v) PROVE Kept'
<1>1. /\ seen' = seen /\ met' \in {met, met \cup {p}}
      /\ DioLeaves(p, seen' \cup met')
  BY RecvDioLeaves
<1>2. IsFiniteSet(seen') /\ IsFiniteSet(met')
  BY <1>1, FS_AddElement DEF Inv
<1>3. UNCHANGED prefix_set
  BY DEF RecvDio
<1>4. /\ Good(dag_table', current_dag', seen' \cup met') /\ addresses' \subseteq seen' \cup met'
      /\ ~prefix_set' => seen' = {} /\ NoneRoot(dag_table')
  BY <1>1, <1>3 DEF DioLeaves, Inv
<1>7. InstanceKept'
  <2>1. Cardinality(seen' \cup met') <= MaxDag => Cardinality(seen \cup met) <= MaxDag
    BY RecvDioLeaves, FewBefore
  <2> QED BY <1>1, <1>3, <2>1 DEF InstanceKept, DioLeaves, Inv
<1>5. CASE prefix_set /\ Undisturbed'
  <2>1. /\ Undisturbed /\ UNCHANGED <<prefix_set, seen, last, met, current_dag, addresses, routes>>
        /\ \E d \in Place : Renews(dag_table, dag_table', d, RPL_LOLLIPOP_INCREMENT(v))
    BY <1>5, RootDio
  <2>2. \A e \in Place :
          /\ dag_table'[e].used = dag_table[e].used /\ dag_table'[e].dag_id = dag_table[e].dag_id
          /\ dag_table'[e].joined = dag_table[e].joined /\ dag_table'[e].root = dag_table[e].root
    BY <2>1 DEF Renews
  <2>3. AllRoot(dag_table) /\ Holds(dag_table, seen) /\ RootKept
    BY <1>5, <2>1 DEF Inv
  <2>4. AllRoot(dag_table') /\ Holds(dag_table', seen')
    BY <2>1, <2>2, <2>3 DEF AllRoot, Holds
  <2>5. current_dag \in Place
    BY <1>5, <2>1, <2>3, TableAssumption DEF RootKept, Inv, TypeOK, Place
  <2>6. RootKept'
    BY <1>5, <2>1, <2>2, <2>3, <2>5 DEF RootKept
  <2> QED BY <1>2, <1>4, <1>7, <2>4, <2>6 DEF Kept
<1>6. CASE ~(prefix_set /\ Undisturbed')
  <2>1. RootKept'
    BY <1>3, <1>6 DEF RootKept
  <2> QED BY <1>2, <1>3, <1>4, <1>6, <1>7, <2>1 DEF Kept
<1> QED BY <1>5, <1>6

LEMMA RanksLeave ==
  ASSUME Inv, NEW x \in Place, RecalculateRanks(x)
  PROVE  /\ UNCHANGED <<prefix_set, seen, last, met>>
         /\ ~(prefix_set /\ Undisturbed)
         /\ Good(dag_table', current_dag', seen \cup met) /\ current_dag' \in Place
         /\ addresses' \subseteq seen \cup met
         /\ (NoneRoot(dag_table) => NoneRoot(dag_table')) /\ Same(dag_table', dag_table)
         /\ routes' \in [Node -> RouteState] /\ Reach' \subseteq Reach
<1>1. current_dag # 0 /\ ParentEvent(dag_table, x) /\ UNCHANGED <<prefix_set, seen, last, met>>
  BY DEF RecalculateRanks
<1>2. ~(prefix_set /\ Undisturbed)
  BY DEF RecalculateRanks, Inv, AllRoot
<1>3. TypeOK /\ seen \cup met \in SUBSET Prefix /\ Good(dag_table, current_dag, seen \cup met)
      /\ addresses \subseteq seen \cup met
  BY DEF Inv, TypeOK
<1>4. /\ Good(dag_table', current_dag', seen \cup met) /\ current_dag' \in Place
      /\ addresses' \subseteq seen \cup met
      /\ (NoneRoot(dag_table) => NoneRoot(dag_table')) /\ Same(dag_table', dag_table)
      /\ routes' \in [Node -> RouteState] /\ Reach' \subseteq Reach
  BY <1>1, <1>3, ParentEventTable
<1> QED BY <1>1, <1>2, <1>4

LEMMA KeptRanks ==
  ASSUME Inv, NEW x \in Place, RecalculateRanks(x) PROVE Kept'
<1>1. /\ UNCHANGED <<prefix_set, seen, last, met>>
      /\ ~(prefix_set /\ Undisturbed)
      /\ Good(dag_table', current_dag', seen \cup met)
      /\ addresses' \subseteq seen \cup met
      /\ (NoneRoot(dag_table) => NoneRoot(dag_table'))
  BY RanksLeave
<1>2. ~(prefix_set' /\ Undisturbed')
  BY <1>1 DEF Undisturbed
<1>3. RootKept'
  BY <1>2 DEF RootKept
<1>4. InstanceKept'
  BY RanksLeave, PlaceNat DEF InstanceKept
<1> QED BY <1>1, <1>2, <1>3, <1>4 DEF Kept, Inv

LEMMA KeptBooted ==
  ASSUME Booted PROVE Kept'
<1>1. Good(dag_table', current_dag', seen' \cup met') /\ NoneRoot(dag_table')
  BY EmptyTable DEF Booted
<1> QED BY <1>1, FS_EmptySet DEF Booted, Kept, RootKept, InstanceKept

LEMMA RouteToStands ==
  ASSUME NEW n, NEW x, RouteTo(n, x)
  PROVE  UNCHANGED <<prefix_set, dag_table, current_dag, addresses, seen, last, met>>
BY DEF RouteTo

LEMMA RouteToType ==
  ASSUME TypeOK, NEW n \in Node, NEW x \in RouteState, RouteTo(n, x) PROVE TypeOK'
<1>1. routes' \in [Node -> RouteState]
  BY DEF RouteTo, TypeOK
<1> QED BY <1>1 DEF RouteTo, TypeOK

(* What DAOs and routes that run out come to. *)
LEMMA RouteSteps ==
  ASSUME NEW n \in Node, NEW p \in Prefix, Dao(n, p) \/ NoPathDao(n, p) \/ PurgeRoute(n)
  PROVE  \E x \in RouteState : RouteTo(n, x)
BY DEF Dao, NoPathDao, PurgeRoute, RouteState

LEMMA TypeStep ==
  ASSUME Inv, [Next]_vars PROVE TypeOK'
<1>0. TypeOK
  BY InvParts
<1>1. CASE RequestPrefix
  BY <1>0, <1>1, BoundAssumption DEF RequestPrefix, router, TypeOK
<1>2. CASE RecvPrefix
  <2>1. answers' \in Seq(Prefix) /\ UNCHANGED <<questions, host, restarts, reboots>>
    BY <1>0, <1>2 DEF RecvPrefix, TypeOK
  <2>2. /\ last' \in Prefix /\ prefix_set' /\ seen' = seen \cup {last'} /\ met' \subseteq met
        /\ current_dag' \in 0..MaxDag
        /\ Good(dag_table', current_dag', seen' \cup met')
        /\ addresses' \subseteq seen' \cup met'
    BY <1>2, RecvPrefixTable
  <2>3. prefix_set' = TRUE /\ routes' \in [Node -> RouteState]
    BY <1>2, LostRoutes DEF RecvPrefix
  <2>4. seen' \subseteq Prefix /\ met' \subseteq Prefix
    BY <1>0, <2>2 DEF TypeOK
  <2> QED BY <1>0, <2>1, <2>2, <2>3, <2>4 DEF TypeOK, Good
<1>3. CASE Reboot
  <2>1. dag_table' \in [Place -> Dag] /\ 0 \in 0..MaxDag
    BY <1>3, EmptyTable, TableAssumption DEF Reboot, Booted, Good
  <2>2. routes' \in [Node -> RouteState]
    BY <1>3, LostRoutes DEF Reboot, Booted
  <2>3. prefix_set' = FALSE /\ current_dag' = 0 /\ addresses' = {}
        /\ seen' = {} /\ met' = {} /\ last' = NoPrefix /\ reboots' = reboots + 1
        /\ UNCHANGED <<questions, answers, host, restarts>>
    BY <1>3 DEF Reboot, Booted
  <2>4. reboots' \in Nat
    BY <1>0, <2>3 DEF TypeOK
  <2>5. prefix_set' \in BOOLEAN
    BY <2>3
  <2>6. /\ addresses' \subseteq Prefix /\ seen' \subseteq Prefix /\ met' \subseteq Prefix
        /\ last' \in Prefix \cup {NoPrefix} /\ current_dag' \in 0..MaxDag
    BY <2>1, <2>3
  <2> QED BY <1>0, <2>1, <2>2, <2>3, <2>4, <2>5, <2>6 DEF TypeOK
<1>4. ASSUME NEW p \in Prefix, NEW v \in Heard, RecvDio(p, v) PROVE TypeOK'
  <2>1. /\ seen' = seen /\ met' \in {met, met \cup {p}} /\ DioLeaves(p, seen' \cup met')
    BY <1>4, RecvDioLeaves
  <2>2. UNCHANGED <<prefix_set, last, questions, answers, host, restarts, reboots>>
    BY <1>4 DEF RecvDio
  <2>3. seen' \subseteq Prefix /\ met' \subseteq Prefix
    BY <1>0, <2>1 DEF TypeOK
  <2> QED BY <1>0, <2>1, <2>2, <2>3 DEF TypeOK, DioLeaves, Good
<1>5. ASSUME NEW x \in Place, RecalculateRanks(x) PROVE TypeOK'
  <2>1. /\ UNCHANGED <<prefix_set, seen, last, met>>
        /\ Good(dag_table', current_dag', seen \cup met) /\ current_dag' \in Place
        /\ addresses' \subseteq seen \cup met
        /\ routes' \in [Node -> RouteState]
    BY <1>5, RanksLeave
  <2>2. UNCHANGED <<questions, answers, host, restarts, reboots>>
    BY <1>5 DEF RecalculateRanks
  <2>3. current_dag' \in 0..MaxDag /\ addresses' \subseteq Prefix
    BY <1>0, <2>1, TableAssumption DEF Place, TypeOK
  <2> QED BY <1>0, <2>1, <2>2, <2>3 DEF TypeOK, Good
<1>6. ASSUME NEW n \in Node, NEW x \in RouteState, RouteTo(n, x) PROVE TypeOK'
  BY <1>0, <1>6, RouteToType
<1>7. CASE AnswerPrefix
  <2>1. host \in Prefix
    BY <1>0, OfferedAssumption DEF TypeOK
  <2>2. answers' \in Seq(Prefix)
    BY <1>0, <1>7, <2>1 DEF AnswerPrefix, TypeOK
  <2>3. questions' \in 0..MaxAsked
    BY <1>0, <1>7, BoundAssumption DEF AnswerPrefix, TypeOK
  <2> QED BY <1>0, <1>7, <2>2, <2>3 DEF AnswerPrefix, router, TypeOK
<1>8. CASE Lose
  <2>1. CASE questions > 0 /\ questions' = questions - 1 /\ UNCHANGED answers
    BY <1>0, <1>8, <2>1, BoundAssumption DEF Lose, router, TypeOK
  <2>2. CASE answers # <<>> /\ answers' = Tail(answers) /\ UNCHANGED questions
    <3>1. answers' \in Seq(Prefix)
      BY <1>0, <2>2 DEF TypeOK
    <3> QED BY <1>0, <1>8, <2>2, <3>1 DEF Lose, router, TypeOK
  <2> QED BY <1>8, <2>1, <2>2 DEF Lose
<1>9. CASE RestartHost
  BY <1>0, <1>9 DEF RestartHost, router, TypeOK
<1>10. CASE UNCHANGED vars
  BY <1>0, <1>10 DEF vars, TypeOK
<1>11. ASSUME NEW n \in Node, PurgeRoute(n) PROVE TypeOK'
  BY <1>6, <1>11 DEF PurgeRoute, RouteState
<1> QED BY <1>1, <1>2, <1>3, <1>4, <1>5, <1>6, <1>7, <1>8, <1>9, <1>10, <1>11, RouteSteps DEF Next

LEMMA InvStep ==
  ASSUME Inv, [Next]_vars PROVE Inv'
<1>1. TypeOK'
  BY TypeStep
<1>2. ASSUME RecvPrefix PROVE Kept'
  BY <1>2, KeptRecvPrefix
<1>3. ASSUME Reboot PROVE Kept'
  BY <1>3, KeptBooted DEF Reboot
<1>4. ASSUME NEW p \in Prefix, NEW v \in Heard, RecvDio(p, v) PROVE Kept'
  BY <1>4, KeptRecvDio
<1>5. ASSUME NEW x \in Place, RecalculateRanks(x) PROVE Kept'
  BY <1>5, KeptRanks
<1>6. ASSUME UNCHANGED <<prefix_set, dag_table, current_dag, addresses, seen, last, met>> PROVE Kept'
  BY <1>6, KeptStands
<1>7. ASSUME NEW n \in Node, NEW p \in Prefix, Dao(n, p) \/ NoPathDao(n, p)
      PROVE  UNCHANGED <<prefix_set, dag_table, current_dag, addresses, seen, last, met>>
  BY <1>7, RouteSteps, RouteToStands
<1>8. ASSUME NEW n \in Node, PurgeRoute(n)
      PROVE  UNCHANGED <<prefix_set, dag_table, current_dag, addresses, seen, last, met>>
  BY <1>8, RouteToStands DEF PurgeRoute
<1>9. ASSUME RequestPrefix \/ AnswerPrefix \/ Lose \/ RestartHost \/ UNCHANGED vars PROVE Kept'
  BY <1>6, <1>9 DEF vars, router, RequestPrefix, AnswerPrefix, Lose, RestartHost
<1>10. Kept'
  BY <1>2, <1>3, <1>4, <1>5, <1>6, <1>7, <1>8, <1>9 DEF Next
<1>11. Inv' <=> TypeOK' /\ Kept'
  BY DEF Inv, Kept
<1> QED BY <1>1, <1>10, <1>11

----------------------------------------------------------------------------
(* The state of router, host and line has its types, for any sizes: the    *)
(* current DAG is a place of the table or none (rpl-dag.c).                *)
THEOREM TypeCorrect == Spec => []TypeOK
<1>1. Inv => TypeOK
  BY DEF Inv
<1> QED BY InitInv, InvStep, <1>1, PTL DEF Spec

(* A router with a prefix stays root of a DAG of the last prefix it was    *)
(* told, with an address of it, whatever answers are late, lost or         *)
(* repeated, and whatever versions of its own DAGs it hears, until it hears *)
(* of more DAGs than its table holds or, having a prefix, of another's     *)
(* (set_prefix_64, rpl_set_root, rpl_process_dio).                         *)
THEOREM RootIsKept == Spec => []RootKept
<1>1. Inv => RootKept
  BY DEF Inv
<1> QED BY InitInv, InvStep, <1>1, PTL DEF Spec

(* A router with a prefix keeps its instance, and with it a DAG, while it   *)
(* has heard of and been told no more prefixes than its table holds: what   *)
(* rpl_alloc_dag is asked for then has a place (rpl-dag.c:403-433).         *)
THEOREM InstanceIsKept == Spec => []InstanceKept
<1>1. Inv => InstanceKept
  BY DEF Inv
<1> QED BY InitInv, InvStep, <1>1, PTL DEF Spec

(* An answer whose prefix is in the table, as a DAG of the router's own or  *)
(* one it heard of, joined or left, at whatever version, makes that DAG     *)
(* anew under the next version and keeps no other (rpl_set_root).          *)
THEOREM NewDagsHaveNewVersions == Spec => NewDagNewVersion
<1>1. ASSUME Inv, [Next]_vars, NEW p \in Prefix, RecvPrefix, p = Head(answers), NEW v \in Version(p)
      PROVE  Version(p)' = {RPL_LOLLIPOP_INCREMENT(v)}
  <2>1. SetPrefix(p)
    BY <1>1, RecvPrefixTable
  <2>2. get_dag(p) \in Place
    BY <1>1, GetDag DEF Version
  <2>3. Free(p) # {}
    BY <2>2 DEF Free
  <2>4. NewRoot(p, Free(p))
    BY <2>1, <2>3 DEF SetPrefix, Free
  <2>5. TypeOK /\ seen \cup met \in SUBSET Prefix /\ Good(dag_table, current_dag, seen \cup met)
        /\ addresses \subseteq seen \cup met
    BY <1>1 DEF Inv, TypeOK
  <2>6. /\ Version(p)' = {NewVersion(p)}
        /\ \A w \in Version(p) : NewVersion(p) = RPL_LOLLIPOP_INCREMENT(w)
    BY <1>1, <2>3, <2>4, <2>5, AnswerVersions
  <2> QED BY <1>1, <2>6
<1>2. Inv /\ [Next]_vars => [\A p \in Prefix : RecvPrefix /\ p = Head(answers) =>
        \A v \in Version(p) : Version(p)' = {RPL_LOLLIPOP_INCREMENT(v)}]_vars
  BY <1>1
<1> QED BY InitInv, InvStep, <1>2, PTL DEF Spec, NewDagNewVersion

(* The next version is newer than the one before it, for all of the byte,   *)
(* the wrap from 255 to 0 included, and never the other way round          *)
(* (RPL_LOLLIPOP_INCREMENT, lollipop_greater_than).                        *)
THEOREM NextIsNewer ==
  ASSUME NEW v \in 0..255
  PROVE  /\ lollipop_greater_than(RPL_LOLLIPOP_INCREMENT(v), v)
         /\ ~lollipop_greater_than(v, RPL_LOLLIPOP_INCREMENT(v))
<1> USE DEF lollipop_greater_than, RPL_LOLLIPOP_CIRCULAR_REGION, RPL_LOLLIPOP_SEQUENCE_WINDOWS
<1>1. CASE v = 255
  <2>1. RPL_LOLLIPOP_INCREMENT(v) = 0
    BY <1>1 DEF RPL_LOLLIPOP_INCREMENT
  <2> QED BY <1>1, <2>1
<1>2. CASE v < 255
  <2>1. RPL_LOLLIPOP_INCREMENT(v) = v + 1
    BY <1>2 DEF RPL_LOLLIPOP_INCREMENT
  <2> QED BY <1>2, <2>1
<1> QED BY <1>1, <1>2

----------------------------------------------------------------------------
(* The router as a root with a memory. *)
LEMMA RootLollipop ==
  /\ \A v : Root!RPL_LOLLIPOP_INCREMENT(v) = RPL_LOLLIPOP_INCREMENT(v)
  /\ \A v, w : Root!lollipop_greater_than(v, w) <=> lollipop_greater_than(v, w)
BY DEF RPL_LOLLIPOP_INCREMENT, Root!RPL_LOLLIPOP_INCREMENT, lollipop_greater_than,
       Root!lollipop_greater_than, RPL_LOLLIPOP_CIRCULAR_REGION, Root!RPL_LOLLIPOP_CIRCULAR_REGION,
       RPL_LOLLIPOP_SEQUENCE_WINDOWS, Root!RPL_LOLLIPOP_SEQUENCE_WINDOWS

LEMMA RootRecvPrefix ==
  ASSUME Inv, RecvPrefix, Undisturbed' PROVE Root!Next
<1> DEFINE r == IF current_dag # 0 /\ dag_table[current_dag].root
                THEN dag_table[current_dag].dag_id ELSE NoPrefix
           a == [p \in Prefix |-> Version(p)]
<1>1. PICK p \in Prefix : p = last' /\ prefix_set'
  BY RecvPrefixTable
<1>2. Free(p) # {} /\ NewRoot(p, Free(p)) /\ RootKept'
  BY <1>1, RecvPrefixRoot
<1>3. r' = p
  BY <1>1, <1>2 DEF RootKept
<1>4. TypeOK /\ seen \cup met \in SUBSET Prefix /\ Good(dag_table, current_dag, seen \cup met)
      /\ addresses \subseteq seen \cup met
  BY DEF Inv, TypeOK
<1>5. PICK v \in 0..255 :
        /\ Version(p)' = {v}
        /\ \A w \in Version(p) : v = RPL_LOLLIPOP_INCREMENT(w)
        /\ \A q \in Prefix \ {p} : Version(q)' = Version(q)
  BY <1>2, <1>4, AnswerVersions
<1> HIDE DEF r
<1>6. a' = [a EXCEPT ![p] = {v}]
  <2>1. \A q \in Prefix : a'[q] = [a EXCEPT ![p] = {v}][q]
    BY <1>5
  <2> QED BY <2>1
<1>7. Reach' = {}
  BY LostRoutes DEF RecvPrefix
<1>8. \A w \in a[p] : v = RPL_LOLLIPOP_INCREMENT(w)
  BY <1>5
<1>9. v \in a'[p]
  BY <1>5
<1>10. Root!Lead(p)
  <2>1. v \in Root!Version \cap a'[p]
    BY <1>9 DEF Root!Version
  <2>2. \E x \in Root!Version \cap a'[p] :
          (\A w \in a[p] : x = RPL_LOLLIPOP_INCREMENT(w)) /\ a' = [a EXCEPT ![p] = {x}]
    BY <1>6, <1>8, <2>1
  <2> HIDE DEF a
  <2> QED BY <1>3, <1>7, <2>2, RootLollipop DEF Root!Lead, r, a
<1> QED BY <1>10 DEF Root!Next

LEMMA RootRecvDio ==
  ASSUME Inv, NEW p \in Prefix, NEW v \in Heard, RecvDio(p, v), prefix_set, Undisturbed'
  PROVE  Root!Next
<1> DEFINE r == IF current_dag # 0 /\ dag_table[current_dag].root
                THEN dag_table[current_dag].dag_id ELSE NoPrefix
           a == [q \in Prefix |-> Version(q)]
<1>1. /\ Undisturbed /\ UNCHANGED <<current_dag, routes>>
      /\ \E d \in Place :
           /\ dag_table[d].used /\ dag_table[d].dag_id = p
           /\ lollipop_greater_than(v, dag_table[d].version)
           /\ Renews(dag_table, dag_table', d, RPL_LOLLIPOP_INCREMENT(v))
  BY RootDio
<1>2. PICK d \in Place :
        /\ dag_table[d].used /\ dag_table[d].dag_id = p
        /\ lollipop_greater_than(v, dag_table[d].version)
        /\ Renews(dag_table, dag_table', d, RPL_LOLLIPOP_INCREMENT(v))
  BY <1>1
<1>3. v \in 0..255
  BY HeardAssumption
<1>4. Gains(dag_table, dag_table', p, RPL_LOLLIPOP_INCREMENT(v)) /\ VersionOf(dag_table, p) = {dag_table[d].version}
  <2>1. Distinct(dag_table)
    BY DEF Inv, Good
  <2> QED BY <1>2, <2>1, RenewedVersions
<1>5. /\ Version(p)' = {RPL_LOLLIPOP_INCREMENT(v)} /\ Version(p) = {dag_table[d].version}
      /\ \A q \in Prefix \ {p} : Version(q)' = Version(q)
  BY <1>4, VersionIsVersionOf DEF Gains
<1>6. dag_table[d].version # RPL_LOLLIPOP_INCREMENT(v)
  BY <1>2, <1>3, NextIsNewer
<1>7. RootKept /\ current_dag \in Place
  BY <1>1, TableAssumption DEF Inv, RootKept, TypeOK, Place
<1>8. dag_table[current_dag].root /\ dag_table[current_dag].dag_id \in Prefix /\ current_dag # 0
  <2>1. dag_table[current_dag].root /\ dag_table[current_dag].joined /\ current_dag # 0
    BY <1>1, <1>7 DEF RootKept
  <2> QED BY <1>7, <2>1 DEF Inv, Good, OneJoined, Within, TypeOK
<1>9. r \in Prefix /\ r # NoPrefix
  BY <1>8, NoPrefixAssumption
<1>10. r' = r
  BY <1>1, <1>2, <1>7 DEF Renews
<1> HIDE DEF r
<1>11. a' = [a EXCEPT ![p] = {RPL_LOLLIPOP_INCREMENT(v)}]
  BY <1>5
<1>12. a[p] # {} /\ a'[p] # a[p]
  BY <1>5, <1>6
<1>13. \A w \in a[p] : lollipop_greater_than(v, w)
  BY <1>2, <1>5
<1>14. Reach' = Reach
  BY <1>1 DEF Reach
<1>15. Root!Outbid(p)
  <2>1. \E x \in 0..255 :
          (\A w \in a[p] : lollipop_greater_than(x, w)) /\ a' = [a EXCEPT ![p] = {RPL_LOLLIPOP_INCREMENT(x)}]
    BY <1>3, <1>11, <1>13
  <2> HIDE DEF a
  <2> QED BY <1>9, <1>10, <1>12, <1>14, <2>1, RootLollipop DEF Root!Outbid, Root!Version, r, a
<1> QED BY <1>15 DEF Root!Next

(* Before its prefix is set the router is a node like others. *)
LEMMA NodeStep ==
  ASSUME Inv, ~prefix_set, UNCHANGED prefix_set, Undisturbed',
         \/ \E p \in Prefix, v \in Heard : RecvDio(p, v)
         \/ \E x \in Place : RecalculateRanks(x)
  PROVE  Root!Next
<1> DEFINE r == IF current_dag # 0 /\ dag_table[current_dag].root
                THEN dag_table[current_dag].dag_id ELSE NoPrefix
           a == [q \in Prefix |-> Version(q)]
<1>1. NoneRoot(dag_table) /\ (current_dag # 0 => current_dag \in Place)
  BY TableAssumption DEF Inv, TypeOK, Place
<1>2. r = NoPrefix
  BY <1>1 DEF NoneRoot
<1>3. ASSUME NEW p \in Prefix, NEW v \in Heard, RecvDio(p, v) PROVE Root!Next
  <2>1. DioLeaves(p, seen' \cup met') /\ Newer(p)
    BY <1>1, <1>3, RecvDioLeaves DEF Undisturbed
  <2>2. NoneRoot(dag_table') /\ (current_dag' # 0 => current_dag' \in Place) /\ Reach' \subseteq Reach
    BY <1>1, <2>1, TableAssumption DEF DioLeaves, Place
  <2>3. r' = NoPrefix
    BY <2>2 DEF NoneRoot
  <2> HIDE DEF r
  <2>4. CASE Version(p)' = Version(p)
    <3>1. a' = a
      <4>1. \A q \in Prefix : Version(q)' = Version(q)
        BY <2>1, <2>4 DEF Newer
      <4> QED BY <4>1
    <3>2. Root!Move
      BY <1>2, <2>2, <2>3, <3>1 DEF Root!Move, r
    <3> QED BY <3>2 DEF Root!Next
  <2>5. ASSUME NEW w \in 0..255, Version(p)' = {w}, \A u \in Version(p) : lollipop_greater_than(w, u)
        PROVE  Root!Next
    <3>1. a' = [a EXCEPT ![p] = {w}]
      <4>1. \A q \in Prefix : a'[q] = [a EXCEPT ![p] = {w}][q]
        BY <2>1, <2>5 DEF Newer
      <4> QED BY <4>1
    <3>2. w \in Root!Version \cap a'[p]
      BY <2>5 DEF Root!Version
    <3>3. \E x \in Root!Version \cap a'[p] :
            (\A u \in a[p] : lollipop_greater_than(x, u)) /\ a' = [a EXCEPT ![p] = {x}]
      BY <2>5, <3>1, <3>2
    <3> HIDE DEF a
    <3>4. Root!Hear(p)
      BY <1>2, <2>2, <2>3, <3>3, RootLollipop DEF Root!Hear, r, a
    <3> QED BY <3>4 DEF Root!Next
  <2> QED BY <2>1, <2>4, <2>5 DEF Newer
<1>4. ASSUME NEW x \in Place, RecalculateRanks(x) PROVE Root!Next
  <2>1. /\ current_dag' \in Place /\ NoneRoot(dag_table') /\ Same(dag_table', dag_table)
        /\ Reach' \subseteq Reach
    BY <1>1, <1>4, RanksLeave
  <2>2. r' = NoPrefix
    BY <2>1 DEF NoneRoot
  <2> HIDE DEF r
  <2>3. a' = a
    <3>1. \A q \in Prefix : Version(q)' = Version(q)
      BY <2>1, SameNewer DEF Newer
    <3> QED BY <3>1
  <2>4. Root!Move
    BY <1>2, <2>1, <2>2, <2>3 DEF Root!Move, r
  <2> QED BY <2>4 DEF Root!Next
<1> QED BY <1>3, <1>4

(* DAOs, and routes that run out. *)
LEMMA RouteStep ==
  ASSUME NEW n \in Node, NEW x, RouteTo(n, x), x = "none" \/ x \in RouteState, TypeOK
  PROVE  Root!Route
<1> DEFINE r == IF current_dag # 0 /\ dag_table[current_dag].root
                THEN dag_table[current_dag].dag_id ELSE NoPrefix
           a == [q \in Prefix |-> Version(q)]
<1>1. r' = r /\ a' = a
  BY DEF RouteTo, Version
<1>2. routes' = [routes EXCEPT ![n] = x] /\ routes \in [Node -> RouteState]
  BY DEF RouteTo, TypeOK
<1>3. Reach' = IF x = "none" THEN Reach \ {n} ELSE Reach \cup {n}
  BY <1>2 DEF Reach
<1> QED BY <1>1, <1>3 DEF Root!Route

LEMMA RootStep ==
  ASSUME Inv, [Next]_vars, Undisturbed'
  PROVE  Root!Next \/ UNCHANGED Root!vars
<1> DEFINE r == IF current_dag # 0 /\ dag_table[current_dag].root
                THEN dag_table[current_dag].dag_id ELSE NoPrefix
           a == [p \in Prefix |-> Version(p)]
<1>1. CASE RecvPrefix
  BY <1>1, RootRecvPrefix
<1>2. CASE Reboot
  <2>1. current_dag' = 0 /\ routes' = NoRoutes /\ dag_table' = Empty
    BY <1>2 DEF Reboot, Booted
  <2>2. Reach' = {}
    BY <2>1, LostRoutes
  <2>3. \A p \in Prefix : Version(p)' = {}
    BY <2>1 DEF Version, Empty, Unused
  <2>4. a' = [p \in Prefix |-> {}] /\ r' = NoPrefix
    BY <2>1, <2>3
  <2>5. Root!Reboot
    BY <2>2, <2>4 DEF Root!Reboot, Root!None
  <2> QED BY <2>5 DEF Root!Next
<1>3. ASSUME NEW p \in Prefix, NEW v \in Heard, RecvDio(p, v) PROVE Root!Next
  <2>1. UNCHANGED prefix_set
    BY <1>3 DEF RecvDio
  <2>2. CASE prefix_set
    BY <1>3, <2>2, RootRecvDio
  <2>3. CASE ~prefix_set
    BY <1>3, <2>1, <2>3, NodeStep
  <2> QED BY <2>2, <2>3
<1>4. ASSUME NEW x \in Place, RecalculateRanks(x) PROVE Root!Next
  <2>1. UNCHANGED <<prefix_set, seen, last, met>> /\ ~(prefix_set /\ Undisturbed)
    BY <1>4, RanksLeave
  <2>2. Undisturbed
    BY <2>1 DEF Undisturbed
  <2> QED BY <1>4, <2>1, <2>2, NodeStep
<1>5. ASSUME NEW n \in Node, NEW p \in Prefix, Dao(n, p) \/ NoPathDao(n, p) PROVE Root!Next
  <2>1. Root!Route
    BY <1>5, RouteSteps, RouteStep DEF Inv
  <2> QED BY <2>1 DEF Root!Next
<1>6. ASSUME NEW n \in Node, PurgeRoute(n) PROVE Root!Next
  <2>1. RouteTo(n, "none")
    BY <1>6 DEF PurgeRoute
  <2>2. Root!Route
    BY <2>1, RouteStep DEF Inv
  <2> QED BY <2>2 DEF Root!Next
<1>7. ASSUME UNCHANGED <<dag_table, current_dag, routes>> PROVE UNCHANGED Root!vars
  <2>1. r' = r /\ a' = a /\ Reach' = Reach
    BY <1>7 DEF Version, Reach
  <2> QED BY <2>1 DEF Root!vars
<1>8. ASSUME RequestPrefix \/ AnswerPrefix \/ Lose \/ RestartHost \/ UNCHANGED vars
      PROVE  UNCHANGED Root!vars
  BY <1>7, <1>8 DEF vars, router, RequestPrefix, AnswerPrefix, Lose, RestartHost
<1> QED BY <1>1, <1>2, <1>3, <1>4, <1>5, <1>6, <1>8 DEF Next

(* With any number of prefixes, places and failures, and whatever DIOs and  *)
(* DAOs it hears, the router is first a node and then a root that remembers *)
(* each network it knows and outbids it, until it hears of more DAGs than   *)
(* its table holds or, having a prefix, of another's (set_prefix_64,       *)
(* rpl_set_root, rpl_alloc_dag, rpl_process_dio, dao_input).               *)
THEOREM RouterIsRoot == Spec => RootWhileUndisturbed
<1>1. Init => Root!Init
  <2> SUFFICES ASSUME Init PROVE Root!Init
    OBVIOUS
  <2>1. current_dag = 0 /\ routes = NoRoutes /\ dag_table = Empty
    BY DEF Init
  <2>2. \A p \in Prefix : Version(p) = {}
    BY <2>1 DEF Version, Empty, Unused
  <2>3. Reach = {}
    BY <2>1 DEF Reach, NoRoutes
  <2> QED BY <2>1, <2>2, <2>3 DEF Root!Init, Root!None
<1>2. Inv /\ [Next]_vars => [Undisturbed' => Root!Next \/ UNCHANGED Root!vars]_vars
  BY RootStep
<1> QED BY InitInv, InvStep, <1>1, <1>2, PTL DEF Spec, RootWhileUndisturbed
=============================================================================
