----------------------------- MODULE RouteTable -----------------------------
(***************************************************************************)
(* m_avifs and m_routes of avkernel_impl as the containers they are: a map *)
(* from interface names to interfaces and a vector kept sorted by metric,  *)
(* with what an application does to them when it logs in (demo/new_im.cpp, *)
(* avC_stub.cpp) and what interface_runner does when it ends.              *)
(*                                                                         *)
(* The name of an interface is what get_ifname returns.  avif leaves that  *)
(* to the implementation: with FreshNames it does what avjackif does, and  *)
(* returns a name never returned before at every call; without, it returns *)
(* the same name at every call.                                            *)
(***************************************************************************)
EXTENDS Naturals, Sequences, FiniteSets

CONSTANTS Interfaces,   \* interfaces, numbered: without FreshNames, their names
          Addrs,        \* AV addresses
          Patterns,     \* sets of addresses matched by a route's expression
          Metrics,      \* metrics of routes
          MaxRoutes,    \* bound on the routes in the table
          FreshNames    \* whether get_ifname is that of avjackif

ASSUME TableAssumption ==
    /\ Interfaces \subseteq Nat /\ Metrics \subseteq Nat /\ MaxRoutes \in Nat
    /\ Patterns \subseteq SUBSET Addrs /\ FreshNames \in BOOLEAN

VARIABLES mAvifs,       \* m_avifs: entries [name, ifc]
          mRoutes,      \* m_routes
          t,            \* the counter of avjackif::get_ifname
          login         \* what became of every interface

vars == <<mAvifs, mRoutes, t, login>>

-----------------------------------------------------------------------------
RouteItem == [pattern : Patterns, ifname : Nat, metric : Metrics]

\* Mutant: avjackif's names, whatever the implementation.
AlwaysFresh(i, k) == t + k

\* get_ifname of interface i, the k-th call from now.
GetIfname(i, k) == IF FreshNames THEN t + k ELSE i

InMap(name, avifs) == \E e \in avifs : e.name = name

\* std::map::insert: an entry of that name is not replaced.
InsertAvif(name, i) ==
    IF InMap(name, mAvifs) THEN mAvifs ELSE mAvifs \cup {[name |-> name, ifc |-> i]}

\* boost::sort is not stable: any order of the items with their metrics sorted.
Orders(s) == {p \in [1..Len(s) -> 1..Len(s)] : \A j, k \in 1..Len(s) : p[j] = p[k] => j = k}
SortedBy(s) ==
    {q \in {[k \in 1..Len(s) |-> s[p[k]]] : p \in Orders(s)} :
        \A j, k \in 1..Len(s) : j < k => q[j].metric <= q[k].metric}

\* Mutant: the sort is forgotten.
PushRouteUnsorted(r) == mRoutes' = Append(mRoutes, r)

\* Mutant: a new route of the same metric is made worse than the old ones.
PushRouteWorse(r) == mRoutes' \in SortedBy(Append(mRoutes, [r EXCEPT !.metric = @ + 1]))

\* add_route for an interface in the map: push_back and sort.
PushRoute(r) == mRoutes' \in SortedBy(Append(mRoutes, r))

Init ==
    /\ mAvifs = {} /\ mRoutes = <<>> /\ t = 0
    /\ login = [i \in Interfaces |-> "no"]

\* The handshake was a success: add_interface && add_route(get_ifname()).
\* add_interface asks for the name to log it, to insert and to find it again.
Login(i, pattern, metric) ==
    /\ login[i] = "no"
    /\ Len(mRoutes) < MaxRoutes
    /\ mAvifs' = InsertAvif(GetIfname(i, 1), i)
    /\ IF InMap(GetIfname(i, 2), mAvifs')
         THEN /\ PushRoute([pattern |-> pattern, ifname |-> GetIfname(i, 3), metric |-> metric])
              /\ t' = t + 4
         ELSE UNCHANGED mRoutes /\ t' = t + 3
    /\ login' = [login EXCEPT ![i] = "yes"]

\* Another add_route, for an interface in the map.
AddRoute(name, pattern, metric) ==
    /\ InMap(name, mAvifs)
    /\ Len(mRoutes) < MaxRoutes
    /\ PushRoute([pattern |-> pattern, ifname |-> name, metric |-> metric])
    /\ UNCHANGED <<mAvifs, t, login>>

\* Mutant: one find_if and erase, without the loop.
EraseFirstRoute(name) ==
    mRoutes' = IF \E k \in 1..Len(mRoutes) : mRoutes[k].ifname = name
                 THEN LET k == CHOOSE k \in 1..Len(mRoutes) :
                                  /\ mRoutes[k].ifname = name
                                  /\ \A j \in 1..(k - 1) : mRoutes[j].ifname # name
                      IN  SubSeq(mRoutes, 1, k - 1) \o SubSeq(mRoutes, k + 1, Len(mRoutes))
                 ELSE mRoutes

\* The loop of remove_interface over m_routes: the others close up in their order.
Others(name) == {k \in 1..Len(mRoutes) : mRoutes[k].ifname # name}
InOrder(n, S) == {p \in [1..n -> S] : \A j, k \in 1..n : j < k => p[j] < p[k]}
EraseRoutes(name) ==
    LET n == Cardinality(Others(name))
    IN  \E p \in InOrder(n, Others(name)) : mRoutes' = [k \in 1..n |-> mRoutes[p[k]]]

\* interface_runner has ended: remove_interface(get_ifname()).
RemoveInterface(i) ==
    /\ login[i] = "yes"
    /\ EraseRoutes(GetIfname(i, 0))
    /\ mAvifs' = {e \in mAvifs : e.name # GetIfname(i, 0)}
    /\ t' = t + 1
    /\ login' = [login EXCEPT ![i] = "gone"]

Next == \E i \in Interfaces :
    \/ \E pattern \in Patterns, metric \in Metrics :
           Login(i, pattern, metric) \/ AddRoute(i, pattern, metric)
    \/ RemoveInterface(i)

Spec == Init /\ [][Next]_vars

\* select_route: the interface of the first route that matches, at() of the map.
Matches(a) == {k \in 1..Len(mRoutes) : a \in mRoutes[k].pattern}
SelectRoute(a) ==
    {mRoutes[k].ifname : k \in {j \in Matches(a) : \A o \in Matches(a) : j <= o}}

-----------------------------------------------------------------------------
(***************************************************************************)
(* Properties.                                                             *)
(***************************************************************************)

TypeOK ==
    /\ mAvifs \subseteq [name : Nat, ifc : Interfaces]
    /\ mRoutes \in Seq(RouteItem) /\ t \in Nat
    /\ login \in [Interfaces -> {"no", "yes", "gone"}]

\* "metric越大，优先级越低" (the larger the metric, the lower the priority):
\* select_route finds a matching route no other one beats, if there is one,
\* and at() finds its interface in the map.
SelectsCheapest ==
    \A a \in Addrs : \A name \in SelectRoute(a) :
        /\ InMap(name, mAvifs)
        /\ \E k \in Matches(a) : /\ mRoutes[k].ifname = name
                                 /\ \A j \in Matches(a) : mRoutes[k].metric <= mRoutes[j].metric

\* The map and the vector, as the abstract set of interfaces and routes.
Abstract == INSTANCE Routing WITH
    Names <- Interfaces, Items <- RouteItem,
    avifs <- {e.name : e \in mAvifs},
    routes <- {mRoutes[k] : k \in 1..Len(mRoutes)}
ImplementsRouting == Abstract!Spec

\* "ifname -> avif 的映射关系": an interface that logged in and has not ended is
\* in the map, and a route leads to it; one that has ended is not in the map.
LoginIsRouted ==
    /\ \A i \in Interfaces : login[i] = "yes" =>
          \E k \in 1..Len(mRoutes) : [name |-> mRoutes[k].ifname, ifc |-> i] \in mAvifs
    /\ \A e \in mAvifs : login[e.ifc] = "yes"
=============================================================================
