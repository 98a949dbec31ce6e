----------------------------- MODULE MCNetwork -----------------------------
(* A user, a, at a router, r, whose other neighbour, b, is a user too and  *)
(* takes r for the way to everybody, as r takes b; x is nobody's address.  *)
EXTENDS Network

MCNodes == {"a", "r", "b"}
MCCert == [n \in MCNodes |-> [user |-> n, res |-> FALSE]]
MCKeySize == [a |-> 3, b |-> 4, r |-> 3]

\* ".+@.+", and the route a router adds for a user.
AnyAddress == [user : {"a", "b", "r", "x"}, form : {"full", "res"}]
User(u) == {str \in AnyAddress : str.user = u}

MCRoutes ==
    [a |-> <<[pattern |-> AnyAddress, to |-> "r"]>>,
     b |-> <<[pattern |-> AnyAddress, to |-> "r"]>>,
     r |-> <<[pattern |-> User("a"), to |-> "a"], [pattern |-> AnyAddress, to |-> "b"]>>]

Call(n, u, f, data) == [from |-> n, to |-> [user |-> u, form |-> f], text |-> data]

\* Two sends one way and one the other; one to nobody; one with a resource.
MCPlans ==
    {<<Call("a", "b", "full", <<1, 2, 3, 4>>), Call("a", "b", "full", <<5, 6, 7>>),
       Call("b", "a", "full", <<>>)>>,
     <<Call("a", "b", "full", <<1>>), Call("a", "x", "full", <<2>>)>>,
     <<Call("a", "b", "full", <<1>>), Call("a", "b", "res", <<2>>), Call("a", "b", "name", <<3>>)>>}

\* What the proof that nothing is lost takes of the routes.
ASSUME MCRoutesLead == RoutesLead

MCBreaking == {<<"r", "b">>}
============================================================================
