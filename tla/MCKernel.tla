------------------------------ MODULE MCKernel ------------------------------
(***************************************************************************)
(* Small instances of AvKernel.  A node with the addresses "me1" and "me2" *)
(* on two interfaces, "me1home" is "me1" with a resource; "b" is the peer  *)
(* that is sent to, "c" another one.                                       *)
(***************************************************************************)
EXTENDS AvKernel

CONSTANTS me1, me1home, me2, b, c, if1, if2

MCAddrs == {me1, me1home, me2, b, c}
MCBare == [a \in MCAddrs |-> IF a = me1home THEN me1 ELSE a]
MCIfAddr1 == [i \in {if1} |-> me1]
MCIfAddr2 == [i \in {if1, if2} |-> IF i = if1 THEN me1 ELSE me2]

Pkt(proto, src, dest, haskey, ttl) ==
    [proto |-> proto, src |-> src, dest |-> dest, haskey |-> haskey, ttl |-> ttl]

Route(pattern, i, metric) == [pattern |-> pattern, ifname |-> i, metric |-> metric]

\* The default route of the demo (".+@.+"), on one interface.
MCRoutesOne == {Route(MCAddrs, if1, 100)}

\* The default route, and a better one for the peer on the other interface.
MCRoutesTwo == {Route(MCAddrs, if1, 100), Route({b}, if2, 10)}

\* Only the peer's answer.
MCPacketsReply == {Pkt("pkreply", b, me1, FALSE, 2)}

\* Answers and data of the peer, key requests for this node, and packets that
\* pass through; one is too old.
MCPacketsTwo ==
    {Pkt("pkreply", b, me1, FALSE, 2), Pkt("avim", b, me1, TRUE, 2),
     Pkt("other", b, me2, TRUE, 2), Pkt("pkask", c, me1home, FALSE, 2),
     Pkt("avim", c, b, TRUE, 2), Pkt("pkask", c, b, FALSE, 1)}
=============================================================================
