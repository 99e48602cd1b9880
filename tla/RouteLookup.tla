---------------------------- MODULE RouteLookup -----------------------------
(***************************************************************************)
(* All of class RouteTable (src/router.py): network routes and host routes *)
(* of several peers, and the search for the longest match, over addresses  *)
(* of Width bits.  RouteTable has the part of it the server uses, at the   *)
(* grain of its threads.                                                   *)
(***************************************************************************)
EXTENDS Integers, SequencesExt

CONSTANTS
  Width,        \* bits of an address
  Peers, None,
  MaxRoutes,    \* bound: network routes at a time
  MaxHosts      \* bound: host routes at a time

ASSUME RouteAssumption ==
  /\ {Width, MaxRoutes, MaxHosts} \subseteq Nat
  /\ None \notin Peers

\* 2^k, as a function whose equation a proof can use.
PowerOfTwo[k \in 0..Width] == IF k = 0 THEN 1 ELSE 2 * PowerOfTwo[k - 1]

Addresses == 0..(PowerOfTwo[Width] - 1)
PrefixLengths == 0..Width

VARIABLES
  routes,         \* self.routes, in the order of add_route
  host_routes,    \* self.host_routes: address -> peer, None if absent
  removing        \* the peer whose removal is half done, else None

vars == <<routes, host_routes, removing>>

-----------------------------------------------------------------------------
(* The algorithms.                                                         *)

\* IPv4Network(f"{network}/{netmask}", strict=False): host bits are cleared.
get_network_address(ip, prefixlen) == ip - (ip % PowerOfTwo[Width - prefixlen])

ip_in_network(ip, network, prefixlen) ==
  get_network_address(ip, prefixlen) = get_network_address(network, prefixlen)

RouteEntry(network, prefixlen, peer) ==
  [network |-> get_network_address(network, prefixlen),
   prefixlen |-> prefixlen, peer_addr |-> peer]

matches(route, ip) == ip_in_network(ip, route.network, route.prefixlen)

\* Mutants: the search begins at 0, or lets a later route of one length win.
BetterThanNothing(best, route, ip) ==
  matches(route, ip) /\ route.prefixlen > (IF best.prefixlen < 0 THEN 0 ELSE best.prefixlen)
AtLeastAsGood(best, route, ip) ==
  matches(route, ip) /\ route.prefixlen >= best.prefixlen

Better(best, route, ip) == matches(route, ip) /\ route.prefixlen > best.prefixlen

NoRoute == [network |-> 0, prefixlen |-> -1, peer_addr |-> None]

BestRoute(list, ip) ==
  FoldLeft(LAMBDA best, route : IF Better(best, route, ip) THEN route ELSE best,
           NoRoute, list)

lookup(ip) ==
  IF host_routes[ip] # None THEN host_routes[ip] ELSE BestRoute(routes, ip).peer_addr

-----------------------------------------------------------------------------
(* The operations.                                                         *)

Init ==
  /\ routes = <<>>
  /\ host_routes = [ip \in Addresses |-> None]
  /\ removing = None

add_route ==
  /\ Len(routes) < MaxRoutes
  /\ \E network \in Addresses, prefixlen \in PrefixLengths, p \in Peers :
       routes' = Append(routes, RouteEntry(network, prefixlen, p))
  /\ UNCHANGED <<host_routes, removing>>

add_host_route ==
  /\ \E ip \in Addresses, p \in Peers : host_routes' = [host_routes EXCEPT ![ip] = p]
  /\ Cardinality({ip \in Addresses : host_routes'[ip] # None}) <= MaxHosts
  /\ UNCHANGED <<routes, removing>>

\* Mutant: one route of the peer's goes, the first.
WithoutFirstOf(p) ==
  LET mine == {i \in DOMAIN routes : routes[i].peer_addr = p} IN
    IF mine = {} THEN routes
    ELSE RemoveAt(routes, CHOOSE i \in mine : \A j \in mine : i <= j)

\* [r for r in self.routes if r.peer_addr != p]
OthersRoutes(p) ==
  FoldLeft(LAMBDA kept, r : IF r.peer_addr # p THEN Append(kept, r) ELSE kept, <<>>, routes)

\* remove_peer_routes, first assignment: readers see it before the second.
RemoveNetworks(p) ==
  /\ removing = None
  /\ removing' = p
  /\ routes' = OthersRoutes(p)
  /\ UNCHANGED host_routes

\* Mutant: everybody's host routes go.
ClearHosts ==
  /\ removing # None
  /\ removing' = None
  /\ host_routes' = [ip \in Addresses |-> None]
  /\ UNCHANGED routes

RemoveHosts ==
  /\ removing # None
  /\ removing' = None
  /\ host_routes' = [ip \in Addresses |-> IF host_routes[ip] = removing THEN None
                                          ELSE host_routes[ip]]
  /\ UNCHANGED routes

\* Lookups come at any time.  Routes added while a peer is being removed are
\* the subject of VPNServer.
Next ==
  \/ removing = None /\ (add_route \/ add_host_route)
  \/ \E p \in Peers : RemoveNetworks(p)
  \/ RemoveHosts

Spec == Init /\ [][Next]_vars

-----------------------------------------------------------------------------
(* Properties.                                                             *)

\* The i-th bit of an address from the left.
Bit(ip, i) == (ip \div PowerOfTwo[Width - i]) % 2

\* The longest matching prefix, bit by bit and with no search order in it: the
\* peer a packet goes to by the rules the router's comments give.
Covers(r, ip) == \A i \in 1..r.prefixlen : Bit(r.network, i) = Bit(ip, i)

Longest(ip) ==
  {i \in DOMAIN routes :
     /\ Covers(routes[i], ip)
     /\ \A j \in DOMAIN routes :
          Covers(routes[j], ip) =>
            \/ routes[j].prefixlen < routes[i].prefixlen
            \/ routes[j].prefixlen = routes[i].prefixlen /\ i <= j}

\* lookup finds a host route, else the longest of the networks that cover the
\* address (the first of equals), else nothing: a default route counts, and a
\* route given with host bits covers its whole network (router.py:58-77).
LookupIsLongestMatch ==
  \A ip \in Addresses :
    IF host_routes[ip] # None THEN lookup(ip) = host_routes[ip]
    ELSE IF Longest(ip) = {} THEN lookup(ip) = None
    ELSE \A i \in Longest(ip) : lookup(ip) = routes[i].peer_addr

\* While a peer is being removed, and after it, no address changes its next hop
\* but those that went to that peer: they keep it until its host routes go, or
\* fall to the best route of someone else.
RemovalOnlyWithdraws ==
  [][\A p \in Peers :
       removing # removing' /\ p \in {removing, removing'} =>
         \A ip \in Addresses : lookup(ip) # p => lookup(ip)' = lookup(ip)]_vars

\* Once it is removed a peer is nobody's next hop, until a route to it is added.
RemovedIsUnreachable ==
  [][\A p \in Peers : removing = p /\ removing' = None =>
       \A ip \in Addresses : lookup(ip)' # p]_vars

\* A new network route takes an address over only if it covers it, no host
\* route has it, and every other network that covers it is wider.
AddingOnlyRefines ==
  [][Len(routes') > Len(routes) =>
       LET new == Last(routes') IN
         \A ip \in Addresses :
           lookup(ip)' # lookup(ip) =>
             /\ Covers(new, ip) /\ host_routes[ip] = None
             /\ \A i \in DOMAIN routes :
                  Covers(routes[i], ip) => routes[i].prefixlen < new.prefixlen]_vars
=============================================================================
