----------------------------- MODULE VPNServer ------------------------------
(***************************************************************************)
(* The server's bookkeeping of its clients (src/vpn_server.py with         *)
(* src/tunnel_transport.py and src/router.py), one thread at a time:       *)
(*                                                                         *)
(*   recv      TunnelTransport._recv_loop: every handler of a datagram     *)
(*   beat      TunnelTransport._heartbeat_loop: heartbeats and time-outs   *)
(*   tun       VPNServer._tun_read_loop: packets the server's host sends   *)
(*   operator  whoever calls VPNServer.disconnect_peer                     *)
(*                                                                         *)
(* A step of a thread is one access of the shared peer table, allocator or *)
(* route table, so the threads interleave between any two accesses, as     *)
(* they may in Python.  An exception ends the handler that raised it; in   *)
(* the heartbeat thread nothing catches it and the thread is gone.         *)
(***************************************************************************)
EXTENDS PeerTable, FiniteSets

CONSTANTS
  Kinds,        \* what clients send, by the handler the first byte selects
  Silent,       \* clients that may fall silent for heartbeat_timeout
  Removable,    \* clients the operator may disconnect
  HostTraffic   \* where the packets go that the server's own host sends

ServerIP == 0               \* tun_ip: excluded from the pool
Destinations == Hosts \cup {ServerIP}

AllKinds == {"hello", "finished", "data", "heartbeat"}

ASSUME ClientAssumption ==
  /\ IsFiniteSet(Addr)
  /\ Kinds \subseteq AllKinds
  /\ Silent \subseteq Addr
  /\ Removable \subseteq Addr
  /\ HostTraffic \subseteq Destinations

VARIABLES
  thr,          \* per thread: where it is and its local variables
  scan          \* the heartbeat thread's iteration over the peer table

vars == <<peers, alloc_map, allocated, host_routes, thr, scan>>

Threads  == {"recv", "beat", "tun", "operator"}
Cleaners == {"beat", "operator"}
Routers  == {"recv", "tun"}

\* The locals of a thread: the peer it works on, an address (the one being
\* leased or released, or a packet's destination) and the dictionary that
\* remove_peer_routes is about to assign.
Idle == [pc |-> "idle", addr |-> None, ip |-> None, routes |-> None]

NoScan == [size |-> 0, visited |-> {}, expired |-> {}]

Init ==
  /\ AllocInit /\ RoutesInit /\ PeersInit
  /\ thr = [t \in Threads |-> Idle]
  /\ scan = NoScan

At(t, pc) == thr[t].pc = pc
Become(t, local) == thr' = [thr EXCEPT ![t] = local]
Goto(t, pc) == Become(t, [thr[t] EXCEPT !.pc = pc])
Finish(t) == Become(t, Idle)

-----------------------------------------------------------------------------
(* recv: one datagram.                                                     *)

Receive(a, kind) ==
  /\ At("recv", "idle")
  /\ Touch(a)
  /\ Become("recv", [Idle EXCEPT !.pc = kind, !.addr = a])
  /\ UNCHANGED <<allocVars, host_routes, scan>>

\* _get_peer_info finds the key, loses it to another thread's del and raises
\* KeyError on its return; the loop of t reports it and goes on.
LookupRaises(t) ==
  /\ thr[t].pc \in {"heartbeat", "hello", "finished", "set_done", "set_ip",
                    "assign", "unpack", "forward"}
  /\ ~Known(thr[t].addr)
  /\ Finish(t)
  /\ UNCHANGED <<peers, allocVars, host_routes, scan>>

\* _handle_heartbeat: nothing here is kept but the entry itself.
Heartbeat ==
  /\ At("recv", "heartbeat")
  /\ get_tunnel_packet(thr["recv"].addr)
  /\ Finish("recv")
  /\ UNCHANGED <<allocVars, host_routes, scan>>

\* _handle_handshake, ClientHello: derive a session, answer ServerHello and
\* Finished.
ClientHello ==
  /\ At("recv", "hello")
  /\ DeriveSession(thr["recv"].addr)
  /\ Finish("recv")
  /\ UNCHANGED <<allocVars, host_routes, scan>>

\* _handle_handshake, Finished: without a session verify_finished raises;
\* with one, the message matches it or comes from an earlier handshake.
VerifyFinished ==
  /\ At("recv", "finished")
  /\ LET a == thr["recv"].addr IN
       /\ get_tunnel_packet(a)
       /\ \/ InfoOf(a).session /\ Goto("recv", "set_done")
          \/ Finish("recv")
  /\ UNCHANGED <<allocVars, host_routes, scan>>

SetHandshakeDone ==
  /\ At("recv", "set_done")
  /\ set_handshake_done(thr["recv"].addr)
  /\ Goto("recv", "allocate")
  /\ UNCHANGED <<allocVars, host_routes, scan>>

\* Mutant: a peer that has a lease already is not answered.
AllocateOnce ==
  /\ At("recv", "allocate")
  /\ \/ /\ get_ip(thr["recv"].addr) # None \/ FreeHosts = {}
        /\ Finish("recv")
        /\ UNCHANGED allocVars
     \/ /\ get_ip(thr["recv"].addr) = None
        /\ \E ip \in Hosts :
             /\ FirstFree(ip)
             /\ Reserve(ip)
             /\ Become("recv", [thr["recv"] EXCEPT !.pc = "record", !.ip = ip])
  /\ UNCHANGED <<peers, host_routes, scan>>

\* allocate: the peer's old address, or the first free one, or none.  Only
\* this thread adds to _allocated, so the search for a free address and the
\* add are one step: an address given back meanwhile counts as given back
\* after it.
Allocate ==
  /\ At("recv", "allocate")
  /\ \/ /\ get_ip(thr["recv"].addr) # None
        /\ Goto("recv", "reuse")
        /\ UNCHANGED allocVars
     \/ /\ get_ip(thr["recv"].addr) = None
        /\ FreeHosts = {}
        /\ Finish("recv")
        /\ UNCHANGED allocVars
     \/ /\ get_ip(thr["recv"].addr) = None
        /\ \E ip \in Hosts :
             /\ FirstFree(ip)
             /\ Reserve(ip)
             /\ Become("recv", [thr["recv"] EXCEPT !.pc = "record", !.ip = ip])
  /\ UNCHANGED <<peers, host_routes, scan>>

\* Mutant: the second lookup is a get, and its answer is not looked at.
ReuseWhateverIsThere ==
  /\ At("recv", "reuse")
  /\ Become("recv", [thr["recv"] EXCEPT !.pc = "set_ip", !.ip = get_ip(thr["recv"].addr)])
  /\ UNCHANGED <<peers, allocVars, host_routes, scan>>

\* return self._alloc_map[peer_key], a second lookup: KeyError if the lease
\* was released in between.
ReuseLease ==
  /\ At("recv", "reuse")
  /\ LET ip == get_ip(thr["recv"].addr) IN
       \/ ip = None /\ Finish("recv")
       \/ ip # None /\ Become("recv", [thr["recv"] EXCEPT !.pc = "set_ip", !.ip = ip])
  /\ UNCHANGED <<peers, allocVars, host_routes, scan>>

\* Mutant: allocate reserves the address and forgets for whom.
ForgetLease ==
  /\ At("recv", "record")
  /\ Goto("recv", "set_ip")
  /\ UNCHANGED <<peers, allocVars, host_routes, scan>>

\* self._alloc_map[peer_key] = ip_str
RecordLease ==
  /\ At("recv", "record")
  /\ Record(thr["recv"].addr, thr["recv"].ip)
  /\ Goto("recv", "set_ip")
  /\ UNCHANGED <<peers, host_routes, scan>>

\* Mutant: no host route is added.
SetPeerTunIPOnly ==
  /\ At("recv", "set_ip")
  /\ set_peer_tun_ip(thr["recv"].addr, thr["recv"].ip)
  /\ Goto("recv", "assign")
  /\ UNCHANGED <<allocVars, host_routes, scan>>

SetPeerTunIP ==
  /\ At("recv", "set_ip")
  /\ set_peer_tun_ip(thr["recv"].addr, thr["recv"].ip)
  /\ Goto("recv", "add_route")
  /\ UNCHANGED <<allocVars, host_routes, scan>>

AddHostRoute ==
  /\ At("recv", "add_route")
  /\ add_host_route(thr["recv"].ip, thr["recv"].addr)
  /\ Goto("recv", "assign")
  /\ UNCHANGED <<peers, allocVars, scan>>

\* _send_ip_assignment: the entry's key encrypts the message; pack_data
\* raises if another thread has taken the entry and its key away.
SendAssignment ==
  /\ At("recv", "assign")
  /\ get_tunnel_packet(thr["recv"].addr)
  /\ Finish("recv")
  /\ UNCHANGED <<allocVars, host_routes, scan>>

-----------------------------------------------------------------------------
(* recv: a data packet from address src of the pool.                       *)

CheckHandshakeDone ==
  /\ At("recv", "data")
  /\ \/ is_handshake_done(thr["recv"].addr) /\ Goto("recv", "unpack")
     \/ ~is_handshake_done(thr["recv"].addr) /\ Finish("recv")
  /\ UNCHANGED <<peers, allocVars, host_routes, scan>>

\* get_tunnel_packet and unpack_data: a fresh entry has no key, and a packet
\* under another key or an old number is dropped.
Unpack ==
  /\ At("recv", "unpack")
  /\ LET a == thr["recv"].addr IN
       /\ get_tunnel_packet(a)
       /\ \/ InfoOf(a).done /\ Goto("recv", "source")
          \/ Finish("recv")
  /\ UNCHANGED <<allocVars, host_routes, scan>>

\* client_ip = get_ip(peer): a known lease must be the packet's source.
CheckSource(src, dst) ==
  /\ At("recv", "source")
  /\ LET lease == get_ip(thr["recv"].addr) IN
       \/ lease \notin {None, src} /\ Finish("recv")
       \/ lease \in {None, src} /\ Become("recv", [Idle EXCEPT !.pc = "route", !.ip = dst])
  /\ UNCHANGED <<peers, allocVars, host_routes, scan>>

-----------------------------------------------------------------------------
(* recv and tun: _route_ip_packet.                                         *)

ReadTun(dst) ==
  /\ At("tun", "idle")
  /\ Become("tun", [Idle EXCEPT !.pc = "route", !.ip = dst])
  /\ UNCHANGED <<peers, allocVars, host_routes, scan>>

\* To the server itself or to nobody known: the packet goes to the TUN.
Route(t) ==
  /\ At(t, "route")
  /\ LET hop == lookup(thr[t].ip) IN
       \/ hop = None /\ Finish(t)
       \/ hop # None /\ Become(t, [Idle EXCEPT !.pc = "forward", !.addr = hop])
  /\ UNCHANGED <<peers, allocVars, host_routes, scan>>

\* pack_data with the next hop's key, or "forward_failed" without one.  The
\* lookup of the next hop makes an entry where there was none.
Forward(t) ==
  /\ At(t, "forward")
  /\ get_tunnel_packet(thr[t].addr)
  /\ Finish(t)
  /\ UNCHANGED <<allocVars, host_routes, scan>>

-----------------------------------------------------------------------------
(* beat: one round.                                                        *)

\* Time passes heartbeat_timeout without a packet from a.  The loop reads the
\* clock once, at the start of a round, so ageing during a round is ageing
\* after it.  No handler runs for as long as the time-out.
FallSilent(a) ==
  /\ a \in Silent
  /\ At("beat", "idle")
  /\ thr["recv"].addr # a
  /\ Known(a) /\ ~peers[a].stale
  /\ Put(a, [peers[a] EXCEPT !.stale = TRUE])
  /\ UNCHANGED <<allocVars, host_routes, thr, scan>>

BeginRound ==
  /\ At("beat", "idle")
  /\ KnownPeers # {}
  /\ scan' = [NoScan EXCEPT !.size = Cardinality(KnownPeers)]
  /\ Goto("beat", "scan")
  /\ UNCHANGED <<peers, allocVars, host_routes>>

\* The iterator raises as soon as the dictionary has changed its size.
ScanRaises ==
  /\ At("beat", "scan")
  /\ Cardinality(KnownPeers) # scan.size
  /\ Goto("beat", "dead")
  /\ scan' = NoScan
  /\ UNCHANGED <<peers, allocVars, host_routes>>

\* Mutant: the loop body only sends heartbeats.
VisitWithoutTimeout(a) ==
  /\ At("beat", "scan")
  /\ Cardinality(KnownPeers) = scan.size
  /\ a \in KnownPeers \ scan.visited
  /\ scan' = [scan EXCEPT !.visited = @ \cup {a}]
  /\ UNCHANGED <<peers, allocVars, host_routes, thr>>

\* One pass of the loop body: a heartbeat is sent, a late peer is noted.
Visit(a) ==
  /\ At("beat", "scan")
  /\ Cardinality(KnownPeers) = scan.size
  /\ a \in KnownPeers \ scan.visited
  /\ scan' = [scan EXCEPT !.visited = @ \cup {a},
                          !.expired = IF peers[a].stale THEN @ \cup {a} ELSE @]
  /\ UNCHANGED <<peers, allocVars, host_routes, thr>>

EndScan ==
  /\ At("beat", "scan")
  /\ Cardinality(KnownPeers) = scan.size
  /\ KnownPeers \subseteq scan.visited
  /\ scan' = [NoScan EXCEPT !.expired = scan.expired]
  /\ Goto("beat", "reap")
  /\ UNCHANGED <<peers, allocVars, host_routes>>

\* for addr in peers_to_remove: on_peer_disconnected(addr)
Reap(a) ==
  /\ At("beat", "reap")
  /\ a \in scan.expired
  /\ scan' = [scan EXCEPT !.expired = @ \ {a}]
  /\ Become("beat", [Idle EXCEPT !.pc = "release", !.addr = a])
  /\ UNCHANGED <<peers, allocVars, host_routes>>

EndRound ==
  /\ At("beat", "reap")
  /\ scan.expired = {}
  /\ scan' = NoScan
  /\ Finish("beat")
  /\ UNCHANGED <<peers, allocVars, host_routes>>

-----------------------------------------------------------------------------
(* operator: disconnect_peer.                                              *)

DisconnectPeer(a) ==
  /\ At("operator", "idle")
  /\ a \in Removable
  /\ Known(a)
  /\ Become("operator", [Idle EXCEPT !.pc = "get_ip", !.addr = a])
  /\ UNCHANGED <<peers, allocVars, host_routes, scan>>

\* if client_ip: release and remove_peer_routes, else straight to the del
OperatorGetIP ==
  /\ At("operator", "get_ip")
  /\ \/ get_ip(thr["operator"].addr) # None /\ Goto("operator", "release")
     \/ get_ip(thr["operator"].addr) = None /\ Goto("operator", "del")
  /\ UNCHANGED <<peers, allocVars, host_routes, scan>>

-----------------------------------------------------------------------------
(* beat and operator: taking a peer out of the three tables.               *)

\* An exception: the heartbeat thread dies, the operator's call returns.
Raise(t) ==
  IF t = "beat" THEN /\ Become(t, [Idle EXCEPT !.pc = "dead"])
                     /\ scan' = NoScan
                ELSE /\ Finish(t)
                     /\ UNCHANGED scan

\* release: if peer_key in self._alloc_map
CheckLease(t) ==
  /\ At(t, "release")
  /\ \/ get_ip(thr[t].addr) # None /\ Goto(t, "pop")
     \/ get_ip(thr[t].addr) = None /\ Goto(t, "routes_read")
  /\ UNCHANGED <<peers, allocVars, host_routes, scan>>

\* self._alloc_map.pop(peer_key): KeyError if the other cleaner was faster
PopLease(t) ==
  /\ At(t, "pop")
  /\ LET ip == get_ip(thr[t].addr) IN
       \/ /\ ip = None
          /\ Raise(t)
          /\ UNCHANGED allocVars
       \/ /\ ip # None
          /\ Pop(thr[t].addr)
          /\ Become(t, [thr[t] EXCEPT !.pc = "discard", !.ip = ip])
          /\ UNCHANGED scan
  /\ UNCHANGED <<peers, host_routes>>

DiscardAddress(t) ==
  /\ At(t, "discard")
  /\ Discard(thr[t].ip)
  /\ Become(t, [thr[t] EXCEPT !.pc = "routes_read", !.ip = None])
  /\ UNCHANGED <<peers, host_routes, scan>>

\* remove_peer_routes: the comprehension sees the routes as they are now
ReadRoutes(t) ==
  /\ At(t, "routes_read")
  /\ Become(t, [thr[t] EXCEPT !.pc = "routes_write", !.routes = host_routes])
  /\ UNCHANGED <<peers, allocVars, host_routes, scan>>

\* self.host_routes = the dictionary built from them, whatever was added
\* after the comprehension; a key added during it makes the iterator raise.
WriteRoutes(t) ==
  /\ At(t, "routes_write")
  /\ \/ /\ host_routes' = WithoutPeer(thr[t].routes, thr[t].addr)
        /\ Become(t, [thr[t] EXCEPT !.pc = "del", !.routes = None])
        /\ UNCHANGED scan
     \/ /\ AddedSince(thr[t].routes)
        /\ Raise(t)
        /\ UNCHANGED host_routes
  /\ UNCHANGED <<peers, allocVars>>

\* del self._peers[addr]: KeyError if the entry is gone already
DeletePeer(t) ==
  /\ At(t, "del")
  /\ \/ /\ Known(thr[t].addr)
        /\ Delete(thr[t].addr)
        /\ Become(t, IF t = "beat" THEN [Idle EXCEPT !.pc = "reap"] ELSE Idle)
        /\ UNCHANGED scan
     \/ /\ ~Known(thr[t].addr)
        /\ Raise(t)
        /\ UNCHANGED peers
  /\ UNCHANGED <<allocVars, host_routes>>

-----------------------------------------------------------------------------
RecvStep ==
  \/ LookupRaises("recv") \/ Heartbeat \/ ClientHello
  \/ VerifyFinished \/ SetHandshakeDone \/ Allocate \/ ReuseLease
  \/ RecordLease \/ SetPeerTunIP \/ AddHostRoute \/ SendAssignment
  \/ CheckHandshakeDone \/ Unpack
  \/ \E src \in Hosts, dst \in Destinations : CheckSource(src, dst)
  \/ Route("recv") \/ Forward("recv")

TunStep == Route("tun") \/ Forward("tun") \/ LookupRaises("tun")

CleanStep(t) ==
  \/ CheckLease(t) \/ PopLease(t) \/ DiscardAddress(t)
  \/ ReadRoutes(t) \/ WriteRoutes(t) \/ DeletePeer(t)

BeatStep ==
  \/ BeginRound \/ ScanRaises \/ EndScan \/ EndRound
  \/ \E a \in Addr : Visit(a) \/ Reap(a)
  \/ CleanStep("beat")

OperatorStep == OperatorGetIP \/ CleanStep("operator")

Environment ==
  \/ \E a \in Addr, kind \in Kinds : Receive(a, kind)
  \/ \E a \in Addr : FallSilent(a) \/ DisconnectPeer(a)
  \/ \E dst \in HostTraffic : ReadTun(dst)

Next == RecvStep \/ TunStep \/ BeatStep \/ OperatorStep \/ Environment

Spec == Init /\ [][Next]_vars

\* Python schedules every thread that can run; nobody has to send anything,
\* fall silent or disconnect a peer.
FairSpec ==
  /\ Spec
  /\ WF_vars(RecvStep) /\ WF_vars(TunStep)
  /\ WF_vars(BeatStep) /\ WF_vars(OperatorStep)

-----------------------------------------------------------------------------
(* Properties.                                                             *)

RecvPCs == AllKinds \cup {"idle", "set_done", "allocate", "reuse", "record", "set_ip",
                       "add_route", "assign", "unpack", "source", "route", "forward"}
CleanPCs == {"release", "pop", "discard", "routes_read", "routes_write", "del"}
PCs == [recv     |-> RecvPCs,
        tun      |-> {"idle", "route", "forward"},
        beat     |-> CleanPCs \cup {"idle", "scan", "reap", "dead"},
        operator |-> CleanPCs \cup {"idle", "get_ip"}]

Routes == [Hosts -> Addr \cup {None}]
Locals(t) == [pc     : PCs[t],
              addr   : Addr \cup {None},
              ip     : Destinations \cup {None},
              routes : Routes \cup {None}]

\* What is on its way into a table is an address of the pool or a peer.
Holding == {"record", "set_ip", "add_route", "assign", "discard"}
Working == (RecvPCs \cup CleanPCs \cup {"get_ip"}) \ {"idle", "route"}

ThreadOK(t, local) ==
  /\ local \in Locals(t)
  /\ local.pc \in Holding => local.ip \in Hosts
  /\ local.pc \in Working => local.addr \in Addr
  /\ local.pc = "routes_write" => local.routes \in Routes

TypeOK ==
  /\ peers \in [Addr -> PeerInfo \cup {None}]
  /\ alloc_map \in [Addr -> Hosts \cup {None}]
  /\ allocated \subseteq Hosts
  /\ host_routes \in Routes
  /\ DOMAIN thr = Threads /\ \A t \in Threads : ThreadOK(t, thr[t])
  /\ scan \in [size : Nat, visited : SUBSET Addr, expired : SUBSET Addr]

\* Addresses between the allocator's two tables: reserved and not recorded
\* yet, or taken off the map and not given back yet.
Holds(t) == thr[t].pc \in {"record", "discard"}
InFlight == {thr[t].ip : t \in {u \in Threads : Holds(u)}}
Leases == {alloc_map[a] : a \in Addr} \ {None}

\* Two clients never hold the same address, whatever time-outs, operator
\* disconnects and handshakes come between the steps of allocate and release.
NoDoubleLease ==
  \A a, b \in Addr : a # b /\ alloc_map[a] # None => alloc_map[a] # alloc_map[b]

\* Every address out of the pool is somebody's lease or in the hands of one
\* running call: an address is never lost and never free while leased.
PoolAccounting == allocated = Leases \cup InFlight

\* What the two facts rest on: an address in the hands of one call is nobody's
\* lease and in no other call's hands, and a peer that is about to be recorded
\* has no lease.
HeldApart ==
  \A t \in Threads : Holds(t) =>
    /\ \A a \in Addr : alloc_map[a] # thr[t].ip
    /\ \A u \in Threads \ {t} : Holds(u) => thr[u].ip # thr[t].ip

RecordedOnce == At("recv", "record") => get_ip(thr["recv"].addr) = None

IInv == TypeOK /\ NoDoubleLease /\ PoolAccounting /\ HeldApart /\ RecordedOnce

\* The allocator, whose two tables three threads update one access at a time,
\* is to its clients a service that grants free addresses and takes them back.
Service == INSTANCE LeaseService
             WITH Clients <- Addr, Addresses <- Hosts, lease <- alloc_map

ImplementsLeases == Service!Spec

\* By the time the heartbeat thread drops the entry of a peer that is still
\* silent, the peer has no lease and no route: a time-out leaves nothing
\* behind that only the entry led to.
CleanupComplete ==
  \A a \in Addr :
    At("beat", "del") /\ thr["beat"].addr = a /\ Known(a) /\ peers[a].stale
      => get_ip(a) = None /\ \A ip \in Hosts : host_routes[ip] # a

\* A peer that stays silent is dropped, as long as the heartbeat thread lives.
SilenceEndsInRemoval ==
  \A a \in Addr :
    (Known(a) /\ peers[a].stale)
      ~> (~Known(a) \/ ~peers[a].stale \/ At("beat", "dead"))

\* No thread is between two updates that belong together.
AtRest ==
  /\ thr["recv"].pc \notin {"allocate", "reuse", "record", "set_ip", "add_route", "assign"}
  /\ \A t \in Cleaners : thr[t].pc \notin CleanPCs

\* The address of a connected client routes to that client: whoever has
\* shaken hands and leases an address can be reached at it.
LeasedPeersAreRouted ==
  AtRest => \A a \in Addr :
    is_handshake_done(a) /\ get_ip(a) # None => lookup(get_ip(a)) = a

\* While no client goes away, the address the server sends a client is its
\* lease, its entry's tun_ip and its host route, and the entry has the key the
\* message needs: the four tables agree before the client hears of it.
AssignmentAgrees ==
  At("recv", "assign") =>
    LET a == thr["recv"].addr
        ip == thr["recv"].ip
    IN /\ get_ip(a) = ip
       /\ Known(a) /\ peers[a].done /\ peers[a].tun_ip = ip
       /\ lookup(ip) = a

\* A client whose Finished is accepted is sent its address, the one it has had
\* before or a new one, unless allocate finds the pool exhausted.
HandshakeEndsInAssignment ==
  \A a \in Addr :
    LET Serving(pc) == At("recv", pc) /\ thr["recv"].addr = a
    IN Serving("set_done")
         ~> (\/ Serving("assign")
             \/ Serving("allocate") /\ get_ip(a) = None /\ FreeHosts = {})

-----------------------------------------------------------------------------
(* What the repository says of the server and the code does not do.        *)

\* src/tunnel_transport.py:167-169: the loop sends heartbeats and cleans up
\* timed-out peers for as long as the transport runs.
HeartbeatLoopSurvives == ~At("beat", "dead")

\* src/router.py:202: the address of a client that disconnects is taken back.
\* Only the time-out of its entry does that, so a lease needs an entry.
LeasesAreReclaimable ==
  AtRest => \A a \in Addr : get_ip(a) # None => Known(a)
=============================================================================
