-------------------------- MODULE RouteTableProofs --------------------------
(***************************************************************************)
(* Proofs about RouteTable, for any interfaces, patterns, metrics and      *)
(* number of routes.  What get_ifname returns is left open for the types   *)
(* and for the order of the vector; that a route leads to its interface,   *)
(* and that the map and the vector implement Routing, is proved for an     *)
(* avif that returns the same name at every call.                          *)
(***************************************************************************)
EXTENDS RouteTable, FiniteSetTheorems, SequenceTheorems, TLAPS

\* The vector is sorted by metric.
Sorted == \A j, k \in 1..Len(mRoutes) : j < k => mRoutes[j].metric <= mRoutes[k].metric

\* An interface is in the map under its own name from login to its end, and as
\* long as it is there one route at least has its name.
EntriesNamed == \A e \in mAvifs : e.name = e.ifc /\ login[e.ifc] = "yes"
LoggedIn == \A i \in Interfaces : login[i] = "yes" =>
                /\ [name |-> i, ifc |-> i] \in mAvifs
                /\ \E k \in 1..Len(mRoutes) : mRoutes[k].ifname = i

\* Every route has the name of an interface in the map.
RoutesNamed == \A k \in 1..Len(mRoutes) : InMap(mRoutes[k].ifname, mAvifs)

NamesInv == ~ FreshNames => EntriesNamed /\ LoggedIn /\ RoutesNamed

IInv == TypeOK /\ Sorted /\ NamesInv

-----------------------------------------------------------------------------
(***************************************************************************)
(* The vector.                                                             *)
(***************************************************************************)

\* An injection of a finite set into one of its size misses nothing.
LEMMA OntoItself ==
    ASSUME NEW n \in Nat, NEW S, IsFiniteSet(S), Cardinality(S) = n, NEW p \in [1..n -> S],
           \A j, k \in 1..n : p[j] = p[k] => j = k
    PROVE  \A x \in S : \E k \in 1..n : p[k] = x
<1>1. p \in Injection(1..n, S)
  BY DEF Injection, IsInjective
<1>2. Cardinality(1..n) = n
  <2>1. Cardinality(1..n) = IF 1 > n THEN 0 ELSE n - 1 + 1
    BY FS_Interval
  <2> QED
    BY <2>1
<1>3. p \in Surjection(1..n, S)
  BY <1>1, <1>2, FS_Injection
<1> QED
  BY <1>3 DEF Surjection

\* push_back and sort: the vector has the new route, the old ones and no other,
\* and is sorted.
LEMMA Pushed ==
    ASSUME mRoutes \in Seq(RouteItem), NEW r \in RouteItem, PushRoute(r)
    PROVE  /\ mRoutes' \in Seq(RouteItem)
           /\ Sorted'
           /\ \A k \in 1..Len(mRoutes) : \E j \in 1..Len(mRoutes') : mRoutes'[j] = mRoutes[k]
           /\ \E j \in 1..Len(mRoutes') : mRoutes'[j] = r
           /\ \A j \in 1..Len(mRoutes') :
                 mRoutes'[j] = r \/ \E k \in 1..Len(mRoutes) : mRoutes'[j] = mRoutes[k]
<1> DEFINE s == Append(mRoutes, r)
           n == Len(s)
<1>1. /\ s \in Seq(RouteItem) /\ n \in Nat /\ n = Len(mRoutes) + 1 /\ s[n] = r
      /\ \A k \in 1..Len(mRoutes) : s[k] = mRoutes[k]
  BY AppendProperties
<1> HIDE DEF s
<1>2. PICK p \in Orders(s) :
        /\ mRoutes' = [k \in 1..n |-> s[p[k]]]
        /\ \A j, k \in 1..n : j < k => mRoutes'[j].metric <= mRoutes'[k].metric
  BY DEF PushRoute, SortedBy, s
<1>3. p \in [1..n -> 1..n] /\ \A j, k \in 1..n : p[j] = p[k] => j = k
  BY <1>2 DEF Orders
<1> HIDE DEF n
<1>4. \A x \in 1..n : \E k \in 1..n : p[k] = x
  <2>1. IsFiniteSet(1..n) /\ Cardinality(1..n) = n
    <3>1. IsFiniteSet(1..n) /\ Cardinality(1..n) = IF 1 > n THEN 0 ELSE n - 1 + 1
      BY <1>1, FS_Interval
    <3> QED
      BY <1>1, <3>1
  <2> DEFINE S == 1..n
  <2> HIDE DEF S
  <2>2. IsFiniteSet(S) /\ Cardinality(S) = n /\ p \in [1..n -> S]
    BY <1>3, <2>1 DEF S
  <2>3. n \in Nat /\ \A j, k \in 1..n : p[j] = p[k] => j = k
    BY <1>1, <1>3
  <2>4. \A x \in S : \E k \in 1..n : p[k] = x
    BY <2>2, <2>3, OntoItself
  <2> QED
    BY <2>4 DEF S
<1>5. \A k \in 1..n : s[k] \in RouteItem
  BY <1>1, ElementOfSeq DEF n
<1>6. mRoutes' \in Seq(RouteItem) /\ Len(mRoutes') = n /\ \A k \in 1..n : mRoutes'[k] = s[p[k]]
  <2>1. [k \in 1..n |-> s[p[k]]] \in [1..n -> RouteItem]
    BY <1>3, <1>5
  <2> QED
    BY <1>1, <1>2, <2>1, SeqDef
<1>7. Sorted'
  BY <1>2, <1>6 DEF Sorted
<1>8. \A x \in 1..n : \E j \in 1..n : mRoutes'[j] = s[x]
  BY <1>4, <1>6
<1>9. n \in 1..n /\ \A k \in 1..Len(mRoutes) : k \in 1..n
  BY <1>1
<1>10. ASSUME NEW j \in 1..n
       PROVE  mRoutes'[j] = r \/ \E k \in 1..Len(mRoutes) : mRoutes'[j] = mRoutes[k]
  <2>1. p[j] \in 1..n /\ mRoutes'[j] = s[p[j]]
    BY <1>3, <1>6
  <2>2. p[j] = n \/ p[j] \in 1..Len(mRoutes)
    BY <1>1, <2>1
  <2> QED
    BY <1>1, <2>1, <2>2
<1> QED
  BY <1>1, <1>6, <1>7, <1>8, <1>9, <1>10

\* The loop of remove_interface: what is left are the routes of other names, all
\* of them, and they are still sorted.
LEMMA Erased ==
    ASSUME mRoutes \in Seq(RouteItem), Sorted, NEW name, EraseRoutes(name)
    PROVE  /\ mRoutes' \in Seq(RouteItem)
           /\ Sorted'
           /\ \A k \in 1..Len(mRoutes) : mRoutes[k].ifname # name =>
                 \E j \in 1..Len(mRoutes') : mRoutes'[j] = mRoutes[k]
           /\ \A j \in 1..Len(mRoutes') :
                 /\ mRoutes'[j].ifname # name
                 /\ \E k \in 1..Len(mRoutes) : mRoutes'[j] = mRoutes[k]
<1> DEFINE m == Len(mRoutes)
           S == Others(name)
           n == Cardinality(S)
<1>1. m \in Nat /\ \A k \in 1..m : mRoutes[k] \in RouteItem
  BY ElementOfSeq
<1>2. PICK p \in InOrder(n, S) : mRoutes' = [k \in 1..n |-> mRoutes[p[k]]]
  BY DEF EraseRoutes
<1>3. p \in [1..n -> S] /\ \A j, k \in 1..n : j < k => p[j] < p[k]
  BY <1>2 DEF InOrder
<1>4. \A k : k \in S <=> k \in 1..m /\ mRoutes[k].ifname # name
  BY DEF Others
<1> HIDE DEF S
<1>5. IsFiniteSet(S) /\ n \in Nat
  <2>1. IsFiniteSet(1..m)
    BY <1>1, FS_Interval
  <2>2. S \subseteq 1..m
    BY <1>4
  <2> QED
    BY <2>1, <2>2, FS_Subset, FS_CardinalityType
<1> HIDE DEF n, m
<1>6. \A k \in 1..n : p[k] \in 1..m /\ mRoutes[p[k]].ifname # name
  BY <1>3, <1>4
<1>7. \A j, k \in 1..n : p[j] = p[k] => j = k
  <2> SUFFICES ASSUME NEW j \in 1..n, NEW k \in 1..n, p[j] = p[k] PROVE j = k
    OBVIOUS
  <2>1. ~ (j < k) /\ ~ (k < j)
    BY <1>3, <1>6
  <2> QED
    BY <1>5, <2>1
<1>8. \A x \in S : \E k \in 1..n : p[k] = x
  BY <1>3, <1>5, <1>7, OntoItself DEF n
<1>9. mRoutes' \in Seq(RouteItem) /\ Len(mRoutes') = n /\ \A k \in 1..n : mRoutes'[k] = mRoutes[p[k]]
  <2>1. [k \in 1..n |-> mRoutes[p[k]]] \in [1..n -> RouteItem]
    BY <1>1, <1>6
  <2> QED
    BY <1>2, <1>5, <2>1, SeqDef
<1>10. Sorted'
  <2> SUFFICES ASSUME NEW j \in 1..n, NEW k \in 1..n, j < k
               PROVE  mRoutes'[j].metric <= mRoutes'[k].metric
    BY <1>9 DEF Sorted
  <2>1. p[j] < p[k] /\ p[j] \in 1..m /\ p[k] \in 1..m
    BY <1>3, <1>6
  <2> QED
    BY <1>9, <2>1 DEF Sorted, m
<1>11. ASSUME NEW k \in 1..m, mRoutes[k].ifname # name
       PROVE  \E j \in 1..n : mRoutes'[j] = mRoutes[k]
  <2>1. PICK j \in 1..n : p[j] = k
    BY <1>4, <1>8, <1>11
  <2> QED
    BY <1>9, <2>1
<1> QED
  BY <1>6, <1>9, <1>10, <1>11 DEF m

-----------------------------------------------------------------------------
(***************************************************************************)
(* The invariant.                                                          *)
(***************************************************************************)
LEMMA InitInv == Init => IInv
<1> SUFFICES ASSUME Init PROVE IInv
  OBVIOUS
<1>1. mRoutes = <<>> /\ Len(mRoutes) = 0
  BY DEF Init
<1>2. TypeOK
  BY DEF Init, TypeOK
<1>3. Sorted
  BY <1>1 DEF Sorted
<1>4. NamesInv
  BY <1>1 DEF Init, NamesInv, EntriesNamed, LoggedIn, RoutesNamed
<1> QED
  BY <1>2, <1>3, <1>4 DEF IInv

\* A name that get_ifname returns is a number.
LEMMA NameType ==
    ASSUME TypeOK, NEW i \in Interfaces, NEW k \in Nat
    PROVE  GetIfname(i, k) \in Nat /\ (~ FreshNames => GetIfname(i, k) = i)
BY TableAssumption DEF TypeOK, GetIfname

\* add_interface and add_route of an interface that logs in.
LEMMA LoginInv ==
    ASSUME IInv, NEW i \in Interfaces, NEW pattern \in Patterns, NEW metric \in Metrics,
           Login(i, pattern, metric)
    PROVE  IInv'
<1> DEFINE r == [pattern |-> pattern, ifname |-> GetIfname(i, 3), metric |-> metric]
           e == [name |-> GetIfname(i, 1), ifc |-> i]
           pushes == InMap(GetIfname(i, 2), mAvifs')
<1>1. TypeOK /\ Sorted /\ NamesInv /\ mRoutes \in Seq(RouteItem) /\ t \in Nat
  BY DEF IInv, TypeOK
<1>2. \A k \in {1, 2, 3} : GetIfname(i, k) \in Nat /\ (~ FreshNames => GetIfname(i, k) = i)
  BY <1>1, NameType
<1>3. r \in RouteItem /\ r.ifname = GetIfname(i, 3)
  BY <1>2 DEF RouteItem
<1>4. e \in [name : Nat, ifc : Interfaces] /\ e.name = GetIfname(i, 1) /\ e.ifc = i
  BY <1>2
<1>5. mAvifs' = IF InMap(GetIfname(i, 1), mAvifs) THEN mAvifs ELSE mAvifs \cup {e}
  BY DEF Login, InsertAvif
<1>6. IF pushes THEN PushRoute(r) /\ t' = t + 4 ELSE mRoutes' = mRoutes /\ t' = t + 3
  BY DEF Login
<1>7. login[i] = "no" /\ login' = [login EXCEPT ![i] = "yes"]
  BY DEF Login
<1> HIDE DEF r, e, pushes
<1>8. mRoutes' \in Seq(RouteItem) /\ t' \in Nat /\ Sorted'
  <2>1. CASE pushes
    BY <1>1, <1>3, <1>6, <2>1, Pushed
  <2>2. CASE ~ pushes
    BY <1>1, <1>6, <2>2 DEF Sorted
  <2> QED
    BY <2>1, <2>2
<1>9. mAvifs' \subseteq [name : Nat, ifc : Interfaces] /\ login' \in [Interfaces -> {"no", "yes", "gone"}]
  BY <1>1, <1>4, <1>5, <1>7 DEF TypeOK
<1>10. NamesInv'
  <2> SUFFICES ASSUME ~ FreshNames PROVE EntriesNamed' /\ LoggedIn' /\ RoutesNamed'
    BY DEF NamesInv
  <2>1. EntriesNamed /\ LoggedIn /\ RoutesNamed
    BY <1>1 DEF NamesInv
  <2>2. GetIfname(i, 1) = i /\ GetIfname(i, 2) = i /\ GetIfname(i, 3) = i
    BY <1>2
  <2>3. ~ InMap(i, mAvifs)
    BY <1>7, <2>1 DEF EntriesNamed, InMap
  <2>4. mAvifs' = mAvifs \cup {e} /\ e.name = i /\ e.ifc = i
    BY <1>4, <1>5, <2>2, <2>3
  <2>5. pushes
    BY <2>2, <2>4 DEF pushes, InMap
  <2>6. /\ \A k \in 1..Len(mRoutes) : \E j \in 1..Len(mRoutes') : mRoutes'[j] = mRoutes[k]
        /\ \E j \in 1..Len(mRoutes') : mRoutes'[j] = r
        /\ \A j \in 1..Len(mRoutes') :
              mRoutes'[j] = r \/ \E k \in 1..Len(mRoutes) : mRoutes'[j] = mRoutes[k]
    BY <1>1, <1>3, <1>6, <2>5, Pushed
  <2>7. \A o \in Interfaces : login'[o] = IF o = i THEN "yes" ELSE login[o]
    BY <1>1, <1>7 DEF TypeOK
  <2>8. EntriesNamed'
    <3> SUFFICES ASSUME NEW f \in mAvifs' PROVE f.name = f.ifc /\ login'[f.ifc] = "yes"
      BY DEF EntriesNamed
    <3>1. CASE f = e
      BY <2>4, <2>7, <3>1
    <3>2. CASE f \in mAvifs
      <4>1. f.ifc \in Interfaces
        BY <1>1, <3>2 DEF TypeOK
      <4> QED
        BY <2>1, <2>7, <3>2, <4>1 DEF EntriesNamed
    <3> QED
      BY <2>4, <3>1, <3>2
  <2>9. LoggedIn'
    <3> SUFFICES ASSUME NEW o \in Interfaces, login'[o] = "yes"
                 PROVE  /\ [name |-> o, ifc |-> o] \in mAvifs'
                        /\ \E k \in 1..Len(mRoutes') : mRoutes'[k].ifname = o
      BY DEF LoggedIn
    <3>1. CASE o = i
      <4>1. e = [name |-> o, ifc |-> o]
        BY <2>2, <3>1 DEF e
      <4> QED
        BY <1>3, <2>2, <2>4, <2>6, <3>1, <4>1
    <3>2. CASE o # i
      BY <2>1, <2>4, <2>6, <2>7, <3>2 DEF LoggedIn
    <3> QED
      BY <3>1, <3>2
  <2>10. RoutesNamed'
    <3> SUFFICES ASSUME NEW j \in 1..Len(mRoutes') PROVE InMap(mRoutes'[j].ifname, mAvifs')
      BY DEF RoutesNamed
    <3>1. CASE mRoutes'[j] = r
      BY <1>3, <2>2, <2>4, <3>1 DEF InMap
    <3>2. ASSUME NEW k \in 1..Len(mRoutes), mRoutes'[j] = mRoutes[k]
          PROVE  InMap(mRoutes'[j].ifname, mAvifs')
      BY <2>1, <2>4, <3>2 DEF RoutesNamed, InMap
    <3> QED
      BY <2>6, <3>1, <3>2
  <2> QED
    BY <2>8, <2>9, <2>10
<1> QED
  BY <1>8, <1>9, <1>10 DEF IInv, TypeOK

\* add_route of the application.
LEMMA AddRouteInv ==
    ASSUME IInv, NEW i \in Interfaces, NEW pattern \in Patterns, NEW metric \in Metrics,
           AddRoute(i, pattern, metric)
    PROVE  IInv'
<1> DEFINE r == [pattern |-> pattern, ifname |-> i, metric |-> metric]
<1>1. TypeOK /\ Sorted /\ NamesInv /\ mRoutes \in Seq(RouteItem)
  BY DEF IInv, TypeOK
<1>2. r \in RouteItem /\ r.ifname = i
  BY TableAssumption DEF RouteItem
<1>3. PushRoute(r) /\ InMap(i, mAvifs) /\ UNCHANGED <<mAvifs, t, login>>
  BY DEF AddRoute
<1> HIDE DEF r
<1>4. /\ mRoutes' \in Seq(RouteItem) /\ Sorted'
      /\ \A k \in 1..Len(mRoutes) : \E j \in 1..Len(mRoutes') : mRoutes'[j] = mRoutes[k]
      /\ \A j \in 1..Len(mRoutes') :
            mRoutes'[j] = r \/ \E k \in 1..Len(mRoutes) : mRoutes'[j] = mRoutes[k]
  BY <1>1, <1>2, <1>3, Pushed
<1>5. TypeOK'
  BY <1>1, <1>3, <1>4 DEF TypeOK
<1>6. NamesInv'
  <2> SUFFICES ASSUME ~ FreshNames PROVE EntriesNamed' /\ LoggedIn' /\ RoutesNamed'
    BY DEF NamesInv
  <2>1. EntriesNamed /\ LoggedIn /\ RoutesNamed
    BY <1>1 DEF NamesInv
  <2>2. EntriesNamed'
    BY <1>3, <2>1 DEF EntriesNamed
  <2>3. LoggedIn'
    BY <1>3, <1>4, <2>1 DEF LoggedIn
  <2>4. RoutesNamed'
    <3> SUFFICES ASSUME NEW j \in 1..Len(mRoutes') PROVE InMap(mRoutes'[j].ifname, mAvifs')
      BY DEF RoutesNamed
    <3>1. CASE mRoutes'[j] = r
      BY <1>2, <1>3, <3>1 DEF InMap
    <3>2. ASSUME NEW k \in 1..Len(mRoutes), mRoutes'[j] = mRoutes[k]
          PROVE  InMap(mRoutes'[j].ifname, mAvifs')
      BY <1>3, <2>1, <3>2 DEF RoutesNamed, InMap
    <3> QED
      BY <1>4, <3>1, <3>2
  <2> QED
    BY <2>2, <2>3, <2>4
<1> QED
  BY <1>4, <1>5, <1>6 DEF IInv

\* remove_interface at the end of interface_runner.
LEMMA RemoveInv ==
    ASSUME IInv, NEW i \in Interfaces, RemoveInterface(i)
    PROVE  IInv'
<1> DEFINE name == GetIfname(i, 0)
<1>1. TypeOK /\ Sorted /\ NamesInv /\ mRoutes \in Seq(RouteItem) /\ t \in Nat
  BY DEF IInv, TypeOK
<1>2. /\ EraseRoutes(name) /\ mAvifs' = {e \in mAvifs : e.name # name}
      /\ t' = t + 1 /\ login[i] = "yes" /\ login' = [login EXCEPT ![i] = "gone"]
  BY DEF RemoveInterface
<1>3. name \in Nat /\ (~ FreshNames => name = i)
  BY <1>1, NameType
<1> HIDE DEF name
<1>4. /\ mRoutes' \in Seq(RouteItem) /\ Sorted'
      /\ \A k \in 1..Len(mRoutes) : mRoutes[k].ifname # name =>
            \E j \in 1..Len(mRoutes') : mRoutes'[j] = mRoutes[k]
      /\ \A j \in 1..Len(mRoutes') :
            /\ mRoutes'[j].ifname # name
            /\ \E k \in 1..Len(mRoutes) : mRoutes'[j] = mRoutes[k]
  BY <1>1, <1>2, Erased
<1>5. TypeOK'
  BY <1>1, <1>2, <1>4 DEF TypeOK
<1>6. NamesInv'
  <2> SUFFICES ASSUME ~ FreshNames PROVE EntriesNamed' /\ LoggedIn' /\ RoutesNamed'
    BY DEF NamesInv
  <2>1. EntriesNamed /\ LoggedIn /\ RoutesNamed /\ name = i
    BY <1>1, <1>3 DEF NamesInv
  <2>2. \A o \in Interfaces : login'[o] = IF o = i THEN "gone" ELSE login[o]
    BY <1>1, <1>2 DEF TypeOK
  <2>3. EntriesNamed'
    <3> SUFFICES ASSUME NEW f \in mAvifs' PROVE f.name = f.ifc /\ login'[f.ifc] = "yes"
      BY DEF EntriesNamed
    <3>1. f \in mAvifs /\ f.name # i /\ f.ifc \in Interfaces
      BY <1>1, <1>2, <2>1 DEF TypeOK
    <3> QED
      BY <2>1, <2>2, <3>1 DEF EntriesNamed
  <2>4. LoggedIn'
    <3> SUFFICES ASSUME NEW o \in Interfaces, login'[o] = "yes"
                 PROVE  /\ [name |-> o, ifc |-> o] \in mAvifs'
                        /\ \E k \in 1..Len(mRoutes') : mRoutes'[k].ifname = o
      BY DEF LoggedIn
    <3>1. o # i /\ login[o] = "yes"
      BY <2>2
    <3>2. [name |-> o, ifc |-> o] \in mAvifs /\ [name |-> o, ifc |-> o].name = o
      BY <2>1, <3>1 DEF LoggedIn
    <3>3. PICK k \in 1..Len(mRoutes) : mRoutes[k].ifname = o
      BY <2>1, <3>1 DEF LoggedIn
    <3>4. PICK j \in 1..Len(mRoutes') : mRoutes'[j] = mRoutes[k]
      BY <1>4, <2>1, <3>1, <3>3
    <3> QED
      BY <1>2, <2>1, <3>1, <3>2, <3>3, <3>4
  <2>5. RoutesNamed'
    <3> SUFFICES ASSUME NEW j \in 1..Len(mRoutes') PROVE InMap(mRoutes'[j].ifname, mAvifs')
      BY DEF RoutesNamed
    <3>1. PICK k \in 1..Len(mRoutes) : mRoutes'[j] = mRoutes[k]
      BY <1>4
    <3>2. mRoutes'[j].ifname # i
      BY <1>4, <2>1
    <3> QED
      BY <1>2, <2>1, <3>1, <3>2 DEF RoutesNamed, InMap
  <2> QED
    BY <2>3, <2>4, <2>5
<1> QED
  BY <1>4, <1>5, <1>6 DEF IInv

LEMMA StepInv == IInv /\ [Next]_vars => IInv'
<1> SUFFICES ASSUME IInv, [Next]_vars PROVE IInv'
  OBVIOUS
<1>1. CASE UNCHANGED vars
  BY <1>1 DEF vars, IInv, TypeOK, Sorted, NamesInv, EntriesNamed, LoggedIn, RoutesNamed, InMap
<1>2. CASE Next
  BY <1>2, LoginInv, AddRouteInv, RemoveInv DEF Next
<1> QED
  BY <1>1, <1>2

\* The containers stay well formed, the vector stays sorted, and with stable
\* names map, vector and logins agree with one another.
THEOREM Invariant == Spec => []IInv
BY InitInv, StepInv, PTL DEF Spec

\* m_avifs, m_routes and the counter keep their types, whatever get_ifname is.
THEOREM TypeCorrect == Spec => []TypeOK
<1>1. IInv => TypeOK
  BY DEF IInv
<1> QED
  BY <1>1, Invariant, PTL

\* select_route returns the interface of the cheapest route that matches, and
\* m_avifs.at() finds it, if get_ifname returns the same name at every call.
THEOREM SelectIsCheapest == ~ FreshNames => (Spec => []SelectsCheapest)
<1> SUFFICES ASSUME ~ FreshNames PROVE Spec => []SelectsCheapest
  OBVIOUS
<1>1. IInv => SelectsCheapest
  <2> SUFFICES ASSUME IInv, NEW a \in Addrs, NEW name \in SelectRoute(a)
               PROVE  /\ InMap(name, mAvifs)
                      /\ \E k \in Matches(a) :
                            /\ mRoutes[k].ifname = name
                            /\ \A j \in Matches(a) : mRoutes[k].metric <= mRoutes[j].metric
    BY DEF SelectsCheapest
  <2>1. TypeOK /\ Sorted /\ RoutesNamed
    BY DEF IInv, NamesInv
  <2>2. PICK k \in Matches(a) : mRoutes[k].ifname = name /\ \A o \in Matches(a) : k <= o
    BY DEF SelectRoute
  <2>3. k \in 1..Len(mRoutes) /\ \A j \in Matches(a) : j \in 1..Len(mRoutes)
    BY DEF Matches
  <2>4. InMap(name, mAvifs)
    BY <2>1, <2>2, <2>3 DEF RoutesNamed
  <2>5. ASSUME NEW j \in Matches(a) PROVE mRoutes[k].metric <= mRoutes[j].metric
    <3>1. CASE j = k
      <4>1. mRoutes[k] \in RouteItem
        BY <2>1, <2>3, ElementOfSeq DEF TypeOK
      <4>2. mRoutes[k].metric \in Nat
        BY <4>1, TableAssumption DEF RouteItem
      <4> QED
        BY <3>1, <4>2
    <3>2. CASE j # k
      <4>1. k < j
        BY <2>1, <2>2, <2>3, <3>2
      <4> QED
        BY <2>1, <2>3, <4>1 DEF Sorted
    <3> QED
      BY <3>1, <3>2
  <2> QED
    BY <2>2, <2>4, <2>5
<1> QED
  BY <1>1, Invariant, PTL

\* An interface is in the map, with a route to it, from its login until its end
\* and not longer, if get_ifname returns the same name at every call.
THEOREM LoginRoutes == ~ FreshNames => (Spec => []LoginIsRouted)
<1> SUFFICES ASSUME ~ FreshNames PROVE Spec => []LoginIsRouted
  OBVIOUS
<1>1. IInv => LoginIsRouted
  BY DEF IInv, NamesInv, EntriesNamed, LoggedIn, LoginIsRouted
<1> QED
  BY <1>1, Invariant, PTL

-----------------------------------------------------------------------------
(***************************************************************************)
(* The abstract table.                                                     *)
(***************************************************************************)
AbsAvifs == {e.name : e \in mAvifs}
AbsRoutes == {mRoutes[k] : k \in 1..Len(mRoutes)}

\* A step that drops no entry and no route, and leaves a route only for an
\* interface in the map, is an Add of Routing.
LEMMA AddStep ==
    ASSUME IInv, IInv', ~ FreshNames, mAvifs \subseteq mAvifs',
           \A k \in 1..Len(mRoutes) : \E j \in 1..Len(mRoutes') : mRoutes'[j] = mRoutes[k]
    PROVE  Abstract!Add
<1>1. AbsAvifs \subseteq AbsAvifs' /\ AbsRoutes \subseteq AbsRoutes'
  BY DEF AbsAvifs, AbsRoutes
<1>2. AbsAvifs' \subseteq Interfaces /\ AbsRoutes' \subseteq RouteItem
  <2>1. \A k \in 1..Len(mRoutes') : mRoutes'[k] \in RouteItem
    BY ElementOfSeq DEF IInv, TypeOK
  <2>2. \A e \in mAvifs' : e.name \in Interfaces
    BY DEF IInv, TypeOK, NamesInv, EntriesNamed
  <2> QED
    BY <2>1, <2>2 DEF AbsAvifs, AbsRoutes
<1>3. \A r \in AbsRoutes' : r.ifname \in AbsAvifs'
  BY DEF IInv, NamesInv, RoutesNamed, InMap, AbsAvifs, AbsRoutes
<1> QED
  BY <1>1, <1>2, <1>3 DEF Abstract!Add, AbsAvifs, AbsRoutes

LEMMA LoginAdds ==
    ASSUME IInv, IInv', ~ FreshNames, NEW i \in Interfaces, NEW pattern \in Patterns,
           NEW metric \in Metrics, Login(i, pattern, metric)
    PROVE  Abstract!Add
<1> DEFINE r == [pattern |-> pattern, ifname |-> GetIfname(i, 3), metric |-> metric]
<1>1. mAvifs \subseteq mAvifs'
  BY DEF Login, InsertAvif
<1>2. r \in RouteItem
  BY NameType DEF IInv, RouteItem
<1>3. PushRoute(r) \/ mRoutes' = mRoutes
  BY DEF Login
<1> HIDE DEF r
<1>4. \A k \in 1..Len(mRoutes) : \E j \in 1..Len(mRoutes') : mRoutes'[j] = mRoutes[k]
  BY <1>2, <1>3, Pushed DEF IInv, TypeOK
<1> QED
  BY <1>1, <1>4, AddStep

LEMMA AddRouteAdds ==
    ASSUME IInv, IInv', ~ FreshNames, NEW i \in Interfaces, NEW pattern \in Patterns,
           NEW metric \in Metrics, AddRoute(i, pattern, metric)
    PROVE  Abstract!Add
<1> DEFINE r == [pattern |-> pattern, ifname |-> i, metric |-> metric]
<1>1. mAvifs' = mAvifs /\ PushRoute(r)
  BY DEF AddRoute
<1>2. r \in RouteItem
  BY TableAssumption DEF RouteItem
<1> HIDE DEF r
<1>3. \A k \in 1..Len(mRoutes) : \E j \in 1..Len(mRoutes') : mRoutes'[j] = mRoutes[k]
  BY <1>1, <1>2, Pushed DEF IInv, TypeOK
<1> QED
  BY <1>1, <1>3, AddStep

LEMMA RemoveRemoves ==
    ASSUME IInv, ~ FreshNames, NEW i \in Interfaces, RemoveInterface(i)
    PROVE  Abstract!Remove
<1>1. GetIfname(i, 0) = i
  BY NameType DEF IInv
<1>2. /\ EraseRoutes(i) /\ mAvifs' = {e \in mAvifs : e.name # i} /\ login[i] = "yes"
  BY <1>1 DEF RemoveInterface
<1>3. /\ \A k \in 1..Len(mRoutes) : mRoutes[k].ifname # i =>
            \E j \in 1..Len(mRoutes') : mRoutes'[j] = mRoutes[k]
      /\ \A j \in 1..Len(mRoutes') :
            /\ mRoutes'[j].ifname # i
            /\ \E k \in 1..Len(mRoutes) : mRoutes'[j] = mRoutes[k]
  BY <1>2, Erased DEF IInv, TypeOK
<1>4. i \in AbsAvifs
  <2>1. [name |-> i, ifc |-> i] \in mAvifs /\ [name |-> i, ifc |-> i].name = i
    BY <1>2 DEF IInv, NamesInv, LoggedIn
  <2> QED
    BY <2>1 DEF AbsAvifs
<1>5. AbsAvifs' = AbsAvifs \ {i}
  BY <1>2 DEF AbsAvifs
<1>6. AbsRoutes' = {r \in AbsRoutes : r.ifname # i}
  BY <1>3 DEF AbsRoutes
<1> QED
  BY <1>4, <1>5, <1>6 DEF Abstract!Remove, AbsAvifs, AbsRoutes

\* The map and the vector implement Routing, if get_ifname returns the same name
\* at every call: an interface leaves with all of its routes and with no other.
THEOREM TableImplementsRouting == ~ FreshNames => (Spec => ImplementsRouting)
<1> SUFFICES ASSUME ~ FreshNames PROVE Spec => ImplementsRouting
  OBVIOUS
<1>1. Init => Abstract!Init
  BY DEF Init, Abstract!Init
<1>2. ASSUME IInv, IInv', [Next]_vars PROVE [Abstract!Next]_(Abstract!routingVars)
  <2>1. CASE UNCHANGED vars
    BY <2>1 DEF vars, Abstract!routingVars
  <2>2. CASE Next
    BY <1>2, <2>2, LoginAdds, AddRouteAdds, RemoveRemoves DEF Next, Abstract!Next
  <2> QED
    BY <1>2, <2>1, <2>2
<1> QED
  BY <1>1, <1>2, Invariant, PTL DEF Spec, ImplementsRouting, Abstract!Spec
=============================================================================
