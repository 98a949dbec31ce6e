---------------------------- MODULE MCRouteTable ----------------------------
(***************************************************************************)
(* Small instances of RouteTable: a default route and a narrower one.      *)
(***************************************************************************)
EXTENDS RouteTable

CONSTANTS b, c

MCAddrs == {b, c}
MCPatterns == {{b, c}, {b}}
=============================================================================
