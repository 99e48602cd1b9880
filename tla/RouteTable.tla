----------------------------- MODULE RouteTable -----------------------------
(***************************************************************************)
(* Class RouteTable (src/router.py) as the server uses it: host routes     *)
(* only (nothing in the server calls add_route).  remove_peer_routes       *)
(* iterates over the dictionary and then assigns a new one, so it is a     *)
(* read and, later, a write.                                               *)
(***************************************************************************)
EXTENDS IPAllocator

VARIABLE host_routes        \* self.host_routes: address -> peer, None if absent

RoutesInit == host_routes = [ip \in Hosts |-> None]

add_host_route(ip, a) == host_routes' = [host_routes EXCEPT ![ip] = a]

\* Mutant: the comparison is the wrong way round.
OnlyPeer(routes, a) ==
  [ip \in Hosts |-> IF routes[ip] = a THEN a ELSE None]

\* {k: v for k, v in self.host_routes.items() if v != peer_addr}
WithoutPeer(routes, a) ==
  [ip \in Hosts |-> IF routes[ip] = a THEN None ELSE routes[ip]]

\* A key has been added since the dictionary was seen as routes.
AddedSince(routes) == \E ip \in Hosts : routes[ip] = None /\ host_routes[ip] # None

lookup(ip) == IF ip \in Hosts THEN host_routes[ip] ELSE None
=============================================================================
