------------------------------ MODULE Routing -------------------------------
(***************************************************************************)
(* What the kernel's users may rely on about interfaces and routes,        *)
(* whatever container they are kept in: an interface and its routes come   *)
(* in any order the callers choose, a route only for an interface that is  *)
(* there, and an interface leaves together with all of its routes and with *)
(* no other.                                                               *)
(***************************************************************************)
CONSTANTS Names,        \* interface names
          Items         \* routes, records with a field ifname

VARIABLES avifs,        \* the names of the interfaces
          routes        \* the routes

routingVars == <<avifs, routes>>

Init == avifs = {} /\ routes = {}

Add ==
    /\ avifs \subseteq avifs' /\ avifs' \subseteq Names
    /\ routes \subseteq routes' /\ routes' \subseteq Items
    /\ \A r \in routes' \ routes : r.ifname \in avifs'

Remove == \E n \in avifs :
    /\ avifs' = avifs \ {n}
    /\ routes' = {r \in routes : r.ifname # n}

Next == Add \/ Remove

Spec == Init /\ [][Next]_routingVars
=============================================================================
