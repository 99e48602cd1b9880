-------------------------- MODULE VPNServerProofs ---------------------------
(***************************************************************************)
(* For every set of clients and every size of the pool: the server's       *)
(* tables and its threads' locals keep their types, no two clients lease   *)
(* the same address, the allocator's two tables account for every address, *)
(* whichever of the four threads moves next, and the allocator implements  *)
(* the lease service.  Then, as long as no operator disconnects a peer,    *)
(* time-outs clean up completely; and as long as nobody goes away at all,  *)
(* leases, entries and routes agree.                                       *)
(***************************************************************************)
EXTENDS VPNServer, FiniteSetTheorems, TLAPS

-----------------------------------------------------------------------------
(* Threads.                                                                *)

\* One thread moves, the others keep their locals.
LEMMA OneMoves ==
  ASSUME TypeOK, NEW t \in Threads, NEW local, Become(t, local)
  PROVE  /\ DOMAIN thr' = Threads
         /\ thr'[t] = local
         /\ \A u \in Threads \ {t} : thr'[u] = thr[u]
  BY DEF TypeOK, Become

\* A thread that moves to well-typed locals leaves all threads well typed.
LEMMA ThreadsTyped ==
  ASSUME TypeOK, NEW t \in Threads, NEW local, ThreadOK(t, local), Become(t, local)
  PROVE  DOMAIN thr' = Threads /\ \A u \in Threads : ThreadOK(u, thr'[u])
<1>1. \A u \in Threads : ThreadOK(u, thr[u])
  BY DEF TypeOK
<1> QED BY <1>1, OneMoves

\* The fields of a well-typed thread.
LEMMA LocalFields ==
  ASSUME TypeOK, NEW t \in Threads
  PROVE  /\ thr[t] = [pc |-> thr[t].pc, addr |-> thr[t].addr,
                      ip |-> thr[t].ip, routes |-> thr[t].routes]
         /\ thr[t].pc \in PCs[t]
         /\ thr[t].addr \in Addr \cup {None}
         /\ thr[t].ip \in Destinations \cup {None}
         /\ thr[t].routes \in Routes \cup {None}
  BY DEF TypeOK, ThreadOK, Locals

\* Locals built field by field are well typed when the fields are.
LEMMA FieldsTyped ==
  ASSUME NEW t \in Threads, NEW p \in PCs[t], NEW a \in Addr \cup {None},
         NEW i \in Destinations \cup {None}, NEW r \in Routes \cup {None},
         p \in Holding => i \in Hosts,
         p \in Working => a \in Addr,
         p = "routes_write" => r \in Routes
  PROVE  ThreadOK(t, [pc |-> p, addr |-> a, ip |-> i, routes |-> r])
  BY DEF ThreadOK, Locals

\* An idle thread is well typed, whichever it is.
LEMMA IdleTyped == \A t \in Threads : ThreadOK(t, Idle)
<1> SUFFICES ASSUME NEW t \in Threads PROVE ThreadOK(t, Idle)
  OBVIOUS
<1>1. "idle" \in PCs[t]
  BY DEF Threads, PCs, RecvPCs
<1>2. "idle" \notin Holding /\ "idle" \notin Working
  BY DEF Holding, Working
<1> QED BY <1>1, <1>2, FieldsTyped DEF Idle

\* The locals of a thread that starts on a peer, or on a packet.
LEMMA StartTyped ==
  ASSUME NEW t \in Threads, NEW p \in PCs[t], p \notin Holding, p # "routes_write"
  PROVE  /\ \A a \in Addr : ThreadOK(t, [Idle EXCEPT !.pc = p, !.addr = a])
         /\ p \notin Working =>
              \A i \in Destinations : ThreadOK(t, [Idle EXCEPT !.pc = p, !.ip = i])
<1>1. ASSUME NEW a \in Addr PROVE ThreadOK(t, [Idle EXCEPT !.pc = p, !.addr = a])
  <2> DEFINE l == [Idle EXCEPT !.pc = p, !.addr = a]
  <2>1. l \in Locals(t) /\ l.pc = p /\ l.addr = a
    BY DEF Idle, Locals
  <2> QED BY <2>1 DEF ThreadOK
<1>2. ASSUME NEW i \in Destinations, p \notin Working
      PROVE  ThreadOK(t, [Idle EXCEPT !.pc = p, !.ip = i])
  <2> DEFINE l == [Idle EXCEPT !.pc = p, !.ip = i]
  <2>1. l \in Locals(t) /\ l.pc = p
    BY DEF Idle, Locals
  <2> QED BY <1>2, <2>1 DEF ThreadOK
<1> QED BY <1>1, <1>2

\* A thread that only changes its pc, to one that asks for nothing new.
LEMMA GotoTyped ==
  ASSUME TypeOK, NEW t \in Threads, NEW p \in PCs[t], Goto(t, p),
         p \in Holding => thr[t].ip \in Hosts,
         p \in Working => thr[t].addr \in Addr,
         p # "routes_write"
  PROVE  DOMAIN thr' = Threads /\ \A u \in Threads : ThreadOK(u, thr'[u])
<1> DEFINE local == [thr[t] EXCEPT !.pc = p]
<1>1. thr[t] \in Locals(t)
  BY DEF TypeOK, ThreadOK
<1>2. local \in Locals(t)
  BY <1>1 DEF Locals
<1>3. local.pc = p /\ local.ip = thr[t].ip /\ local.addr = thr[t].addr
  BY <1>1 DEF Locals
<1>4. ThreadOK(t, local)
  BY <1>2, <1>3 DEF ThreadOK
<1> QED BY <1>4, ThreadsTyped DEF Goto

\* A thread that goes idle.
LEMMA FinishTyped ==
  ASSUME TypeOK, NEW t \in Threads, Finish(t)
  PROVE  DOMAIN thr' = Threads /\ \A u \in Threads : ThreadOK(u, thr'[u])
  BY IdleTyped, ThreadsTyped DEF Finish

\* The program counters of the threads.
LEMMA PCFacts ==
  /\ RecvPCs \subseteq PCs["recv"]
  /\ \A t \in Cleaners : CleanPCs \cup {"idle"} \subseteq PCs[t]
  /\ PCs["recv"] = RecvPCs
  /\ {"route", "forward", "idle"} \subseteq PCs["recv"]
  /\ PCs["tun"] = {"idle", "route", "forward"}
  /\ {"scan", "reap", "dead", "idle"} \subseteq PCs["beat"]
  /\ "get_ip" \in PCs["operator"]
  BY DEF PCs, Cleaners, RecvPCs, CleanPCs

-----------------------------------------------------------------------------
(* Tables.                                                                 *)

\* The entry a lookup returns, found or made.
LEMMA InfoTyped ==
  ASSUME TypeOK, NEW a \in Addr
  PROVE  InfoOf(a) \in PeerInfo
  BY DEF TypeOK, InfoOf, Known, NewPeer, PeerInfo

\* The peer table after an entry was written.
LEMMA PutTyped ==
  ASSUME TypeOK, NEW a \in Addr, NEW info \in PeerInfo, Put(a, info)
  PROVE  peers' \in [Addr -> PeerInfo \cup {None}]
  BY DEF TypeOK, Put

\* The peer table after an entry was removed.
LEMMA DeleteTyped ==
  ASSUME TypeOK, NEW a \in Addr, Delete(a)
  PROVE  peers' \in [Addr -> PeerInfo \cup {None}]
  BY DEF TypeOK, Delete

-----------------------------------------------------------------------------
(* Every step keeps the types.                                             *)

\* The fresh tables and the idle threads are well typed.
LEMMA InitTyped == Init => TypeOK
<1> SUFFICES ASSUME Init PROVE TypeOK
  OBVIOUS
<1>1. peers \in [Addr -> PeerInfo \cup {None}]
  BY DEF Init, PeersInit
<1>2. alloc_map \in [Addr -> Hosts \cup {None}] /\ allocated \subseteq Hosts
  BY DEF Init, AllocInit
<1>3. host_routes \in Routes
  BY DEF Init, RoutesInit, Routes
<1>4. DOMAIN thr = Threads /\ \A t \in Threads : ThreadOK(t, thr[t])
  BY IdleTyped DEF Init
<1>5. scan \in [size : Nat, visited : SUBSET Addr, expired : SUBSET Addr]
  BY DEF Init, NoScan
<1> QED BY <1>1, <1>2, <1>3, <1>4, <1>5 DEF TypeOK

\* The steps of the receive thread that shake hands.
LEMMA HandshakeTyped ==
  ASSUME TypeOK,
         \/ Heartbeat \/ ClientHello \/ VerifyFinished \/ SetHandshakeDone
         \/ Allocate \/ ReuseLease \/ RecordLease \/ SetPeerTunIP
         \/ AddHostRoute \/ SendAssignment
  PROVE  TypeOK'
<1> DEFINE a == thr["recv"].addr
           ip == thr["recv"].ip
           ThreadsOK == DOMAIN thr' = Threads /\ \A u \in Threads : ThreadOK(u, thr'[u])
<1> USE DEF At
<1>0. /\ "recv" \in Threads
      /\ thr["recv"].pc \in Working => a \in Addr
      /\ thr["recv"].pc \in Holding => ip \in Hosts
  BY DEF TypeOK, ThreadOK, Threads
<1>1. CASE Heartbeat
  <2>1. a \in Addr
    BY <1>0, <1>1 DEF Heartbeat, Working, RecvPCs, AllKinds
  <2>2. peers' \in [Addr -> PeerInfo \cup {None}]
    BY <1>1, <2>1, InfoTyped, PutTyped DEF Heartbeat, get_tunnel_packet
  <2>3. ThreadsOK
    BY <1>0, <1>1, FinishTyped DEF Heartbeat
  <2> QED BY <1>1, <2>2, <2>3 DEF TypeOK, Heartbeat, allocVars
<1>2. CASE ClientHello
  <2>1. a \in Addr
    BY <1>0, <1>2 DEF ClientHello, Working, RecvPCs, AllKinds
  <2>2. [InfoOf(a) EXCEPT !.session = TRUE] \in PeerInfo
    BY <2>1, InfoTyped DEF PeerInfo
  <2>3. peers' \in [Addr -> PeerInfo \cup {None}]
    BY <1>2, <2>1, <2>2, PutTyped DEF ClientHello, DeriveSession
  <2>4. ThreadsOK
    BY <1>0, <1>2, FinishTyped DEF ClientHello
  <2> QED BY <1>2, <2>3, <2>4 DEF TypeOK, ClientHello, allocVars
<1>3. CASE VerifyFinished
  <2>1. a \in Addr
    BY <1>0, <1>3 DEF VerifyFinished, Working, RecvPCs, AllKinds
  <2>2. peers' \in [Addr -> PeerInfo \cup {None}]
    BY <1>3, <2>1, InfoTyped, PutTyped DEF VerifyFinished, get_tunnel_packet
  <2>3. "set_done" \in PCs["recv"] /\ "set_done" \notin Holding
    BY PCFacts DEF RecvPCs, Holding
  <2>4. ThreadsOK
    BY <1>0, <1>3, <2>1, <2>3, FinishTyped, GotoTyped DEF VerifyFinished
  <2> QED BY <1>3, <2>2, <2>4 DEF TypeOK, VerifyFinished, allocVars
<1>4. CASE SetHandshakeDone
  <2>1. a \in Addr
    BY <1>0, <1>4 DEF SetHandshakeDone, Working, RecvPCs
  <2>2. [InfoOf(a) EXCEPT !.done = TRUE] \in PeerInfo
    BY <2>1, InfoTyped DEF PeerInfo
  <2>3. peers' \in [Addr -> PeerInfo \cup {None}]
    BY <1>4, <2>1, <2>2, PutTyped DEF SetHandshakeDone, set_handshake_done
  <2>4. "allocate" \in PCs["recv"] /\ "allocate" \notin Holding
    BY PCFacts DEF RecvPCs, Holding
  <2>5. ThreadsOK
    BY <1>0, <1>4, <2>1, <2>4, GotoTyped DEF SetHandshakeDone
  <2> QED BY <1>4, <2>3, <2>5 DEF TypeOK, SetHandshakeDone, allocVars
<1>5. CASE Allocate
  <2>1. a \in Addr
    BY <1>0, <1>5 DEF Allocate, Working, RecvPCs
  <2>2. "reuse" \in PCs["recv"] /\ "reuse" \notin Holding /\ "record" \in PCs["recv"]
    BY PCFacts DEF RecvPCs, Holding
  <2>3. CASE Finish("recv") /\ UNCHANGED allocVars
    BY <1>0, <1>5, <2>3, FinishTyped DEF Allocate, TypeOK, allocVars
  <2>4. CASE Goto("recv", "reuse") /\ UNCHANGED allocVars
    BY <1>0, <1>5, <2>1, <2>2, <2>4, GotoTyped DEF Allocate, TypeOK, allocVars
  <2>5. CASE \E h \in Hosts : /\ FirstFree(h) /\ Reserve(h)
                             /\ Become("recv", [thr["recv"] EXCEPT !.pc = "record", !.ip = h])
    <3>1. PICK h \in Hosts : /\ Reserve(h)
                            /\ Become("recv", [thr["recv"] EXCEPT !.pc = "record", !.ip = h])
      BY <2>5
    <3>2. thr["recv"] \in Locals("recv")
      BY <1>0 DEF TypeOK, ThreadOK
    <3>3. ThreadOK("recv", [thr["recv"] EXCEPT !.pc = "record", !.ip = h])
      BY <2>1, <2>2, <3>2 DEF ThreadOK, Locals, Destinations
    <3>4. ThreadsOK
      BY <1>0, <3>1, <3>3, ThreadsTyped
    <3> QED BY <1>5, <3>1, <3>4 DEF Allocate, Reserve, TypeOK
  <2> QED BY <1>5, <2>3, <2>4, <2>5 DEF Allocate
<1>6. CASE ReuseLease
  <2>1. a \in Addr /\ get_ip(a) \in Hosts \cup {None}
    BY <1>0, <1>6 DEF ReuseLease, Working, RecvPCs, TypeOK, get_ip
  <2>2. "set_ip" \in PCs["recv"] /\ "set_ip" # "routes_write"
    BY PCFacts DEF RecvPCs
  <2>3. CASE Finish("recv")
    BY <1>0, <1>6, <2>3, FinishTyped DEF ReuseLease, TypeOK, allocVars
  <2>4. CASE get_ip(a) # None /\ Become("recv", [thr["recv"] EXCEPT !.pc = "set_ip", !.ip = get_ip(a)])
    <3>1. thr["recv"] \in Locals("recv")
      BY <1>0 DEF TypeOK, ThreadOK
    <3>2. ThreadOK("recv", [thr["recv"] EXCEPT !.pc = "set_ip", !.ip = get_ip(a)])
      BY <2>1, <2>2, <2>4, <3>1 DEF ThreadOK, Locals, Destinations
    <3>3. ThreadsOK
      BY <1>0, <2>4, <3>2, ThreadsTyped
    <3> QED BY <1>6, <3>3 DEF ReuseLease, TypeOK, allocVars
  <2> QED BY <1>6, <2>3, <2>4 DEF ReuseLease
<1>7. CASE RecordLease
  <2>1. a \in Addr /\ ip \in Hosts
    BY <1>0, <1>7 DEF RecordLease, Working, Holding, RecvPCs
  <2>2. "set_ip" \in PCs["recv"] /\ "set_ip" # "routes_write"
    BY PCFacts DEF RecvPCs
  <2>3. ThreadsOK
    BY <1>0, <1>7, <2>1, <2>2, GotoTyped DEF RecordLease
  <2> QED BY <1>7, <2>1, <2>3 DEF TypeOK, RecordLease, Record
<1>8. CASE SetPeerTunIP
  <2>1. a \in Addr /\ ip \in Hosts
    BY <1>0, <1>8 DEF SetPeerTunIP, Working, Holding, RecvPCs
  <2>2. [InfoOf(a) EXCEPT !.tun_ip = ip] \in PeerInfo
    BY <2>1, InfoTyped DEF PeerInfo
  <2>3. peers' \in [Addr -> PeerInfo \cup {None}]
    BY <1>8, <2>1, <2>2, PutTyped DEF SetPeerTunIP, set_peer_tun_ip
  <2>4. "add_route" \in PCs["recv"] /\ "add_route" # "routes_write"
    BY PCFacts DEF RecvPCs
  <2>5. ThreadsOK
    BY <1>0, <1>8, <2>1, <2>4, GotoTyped DEF SetPeerTunIP
  <2> QED BY <1>8, <2>3, <2>5 DEF TypeOK, SetPeerTunIP, allocVars
<1>9. CASE AddHostRoute
  <2>1. a \in Addr /\ ip \in Hosts
    BY <1>0, <1>9 DEF AddHostRoute, Working, Holding, RecvPCs
  <2>2. host_routes' \in Routes
    BY <1>9, <2>1 DEF AddHostRoute, add_host_route, Routes, TypeOK
  <2>3. "assign" \in PCs["recv"] /\ "assign" # "routes_write"
    BY PCFacts DEF RecvPCs
  <2>4. ThreadsOK
    BY <1>0, <1>9, <2>1, <2>3, GotoTyped DEF AddHostRoute
  <2> QED BY <1>9, <2>2, <2>4 DEF TypeOK, AddHostRoute, allocVars
<1>10. CASE SendAssignment
  <2>1. a \in Addr
    BY <1>0, <1>10 DEF SendAssignment, Working, RecvPCs
  <2>2. peers' \in [Addr -> PeerInfo \cup {None}]
    BY <1>10, <2>1, InfoTyped, PutTyped DEF SendAssignment, get_tunnel_packet
  <2>3. ThreadsOK
    BY <1>0, <1>10, FinishTyped DEF SendAssignment
  <2> QED BY <1>10, <2>2, <2>3 DEF TypeOK, SendAssignment, allocVars
<1> QED BY <1>1, <1>2, <1>3, <1>4, <1>5, <1>6, <1>7, <1>8, <1>9, <1>10

\* The steps that carry a packet, of the receive and of the TUN thread.
LEMMA ForwardingTyped ==
  ASSUME TypeOK, NEW t \in Routers,
         \/ LookupRaises(t) \/ CheckHandshakeDone \/ Unpack
         \/ \E src \in Hosts, dst \in Destinations : CheckSource(src, dst)
         \/ Route(t) \/ Forward(t)
  PROVE  TypeOK'
<1> DEFINE ThreadsOK == DOMAIN thr' = Threads /\ \A u \in Threads : ThreadOK(u, thr'[u])
<1> USE DEF At
<1>0. /\ t \in Threads /\ "recv" \in Threads
      /\ \A u \in Threads : thr[u].pc \in Working => thr[u].addr \in Addr
      /\ {"route", "forward"} \subseteq PCs[t]
  BY PCFacts DEF TypeOK, ThreadOK, Threads, Routers
<1>1. CASE LookupRaises(t)
  BY <1>0, <1>1, FinishTyped DEF LookupRaises, TypeOK, allocVars
<1>2. CASE CheckHandshakeDone
  <2>1. thr["recv"].addr \in Addr
    BY <1>0, <1>2 DEF CheckHandshakeDone, Working, RecvPCs, AllKinds
  <2>2. "unpack" \in PCs["recv"] /\ "unpack" \notin Holding
    BY PCFacts DEF RecvPCs, Holding
  <2>3. ThreadsOK
    BY <1>0, <1>2, <2>1, <2>2, FinishTyped, GotoTyped DEF CheckHandshakeDone
  <2> QED BY <1>2, <2>3 DEF CheckHandshakeDone, TypeOK, allocVars
<1>3. CASE Unpack
  <2>1. thr["recv"].addr \in Addr
    BY <1>0, <1>3 DEF Unpack, Working, RecvPCs
  <2>2. peers' \in [Addr -> PeerInfo \cup {None}]
    BY <1>3, <2>1, InfoTyped, PutTyped DEF Unpack, get_tunnel_packet
  <2>3. "source" \in PCs["recv"] /\ "source" \notin Holding
    BY PCFacts DEF RecvPCs, Holding
  <2>4. ThreadsOK
    BY <1>0, <1>3, <2>1, <2>3, FinishTyped, GotoTyped DEF Unpack
  <2> QED BY <1>3, <2>2, <2>4 DEF Unpack, TypeOK, allocVars
<1>4. CASE \E src \in Hosts, dst \in Destinations : CheckSource(src, dst)
  <2>0. PICK src \in Hosts, dst \in Destinations : CheckSource(src, dst)
    BY <1>4
  <2>1. "route" \in PCs["recv"] /\ "route" \notin Holding /\ "route" \notin Working
    BY PCFacts DEF RecvPCs, Holding, Working
  <2>2. ThreadOK("recv", [Idle EXCEPT !.pc = "route", !.ip = dst])
    BY <1>0, <2>1, StartTyped
  <2>3. ThreadsOK
    BY <1>0, <2>0, <2>2, FinishTyped, ThreadsTyped DEF CheckSource
  <2> QED BY <2>0, <2>3 DEF CheckSource, TypeOK, allocVars
<1>5. CASE Route(t)
  <2> DEFINE hop == lookup(thr[t].ip)
  <2>1. hop \in Addr \cup {None}
    BY DEF lookup, TypeOK, Routes
  <2>2. "forward" \notin Holding
    BY DEF Holding
  <2>3. ASSUME hop # None PROVE ThreadOK(t, [Idle EXCEPT !.pc = "forward", !.addr = hop])
    BY <1>0, <2>1, <2>2, <2>3, StartTyped
  <2>4. ThreadsOK
    BY <1>0, <1>5, <2>3, FinishTyped, ThreadsTyped DEF Route
  <2> QED BY <1>5, <2>4 DEF Route, TypeOK, allocVars
<1>6. CASE Forward(t)
  <2>1. thr[t].addr \in Addr
    BY <1>0, <1>6 DEF Forward, Working, RecvPCs
  <2>2. peers' \in [Addr -> PeerInfo \cup {None}]
    BY <1>6, <2>1, InfoTyped, PutTyped DEF Forward, get_tunnel_packet
  <2>3. ThreadsOK
    BY <1>0, <1>6, FinishTyped DEF Forward
  <2> QED BY <1>6, <2>2, <2>3 DEF Forward, TypeOK, allocVars
<1> QED BY <1>1, <1>2, <1>3, <1>4, <1>5, <1>6

\* What the network, the clock, the operator and the host may do.
LEMMA EnvironmentTyped ==
  ASSUME TypeOK, Environment
  PROVE  TypeOK'
<1> DEFINE ThreadsOK == DOMAIN thr' = Threads /\ \A u \in Threads : ThreadOK(u, thr'[u])
<1>0. {"recv", "tun", "beat", "operator"} \subseteq Threads
  BY DEF Threads
<1>1. ASSUME NEW a \in Addr, NEW kind \in Kinds, Receive(a, kind) PROVE TypeOK'
  <2>1. [InfoOf(a) EXCEPT !.stale = FALSE] \in PeerInfo
    BY InfoTyped DEF PeerInfo
  <2>2. peers' \in [Addr -> PeerInfo \cup {None}]
    BY <1>1, <2>1, PutTyped DEF Receive, Touch
  <2>3. kind \in PCs["recv"] /\ kind \notin Holding /\ kind # "routes_write"
    BY PCFacts, ClientAssumption DEF RecvPCs, AllKinds, Holding
  <2>4. ThreadOK("recv", [Idle EXCEPT !.pc = kind, !.addr = a])
    BY <1>0, <2>3, StartTyped
  <2>5. ThreadsOK
    BY <1>0, <1>1, <2>4, ThreadsTyped DEF Receive
  <2> QED BY <1>1, <2>2, <2>5 DEF Receive, TypeOK, allocVars
<1>2. ASSUME NEW a \in Addr, FallSilent(a) PROVE TypeOK'
  <2>1. peers[a] \in PeerInfo
    BY <1>2 DEF FallSilent, Known, TypeOK
  <2>2. [peers[a] EXCEPT !.stale = TRUE] \in PeerInfo
    BY <2>1 DEF PeerInfo
  <2>3. peers' \in [Addr -> PeerInfo \cup {None}]
    BY <1>2, <2>2, PutTyped DEF FallSilent
  <2> QED BY <1>2, <2>3 DEF FallSilent, TypeOK, allocVars
<1>3. ASSUME NEW a \in Addr, DisconnectPeer(a) PROVE TypeOK'
  <2>1. "get_ip" \in PCs["operator"] /\ "get_ip" \notin Holding
    BY PCFacts DEF Holding
  <2>2. ThreadOK("operator", [Idle EXCEPT !.pc = "get_ip", !.addr = a])
    BY <1>0, <2>1, StartTyped
  <2>3. ThreadsOK
    BY <1>0, <1>3, <2>2, ThreadsTyped DEF DisconnectPeer
  <2> QED BY <1>3, <2>3 DEF DisconnectPeer, TypeOK, allocVars
<1>4. ASSUME NEW dst \in HostTraffic, ReadTun(dst) PROVE TypeOK'
  <2>1. /\ "route" \in PCs["tun"] /\ "route" \notin Holding /\ "route" \notin Working
        /\ dst \in Destinations
    BY PCFacts, ClientAssumption DEF Holding, Working
  <2>2. ThreadOK("tun", [Idle EXCEPT !.pc = "route", !.ip = dst])
    BY <1>0, <2>1, StartTyped
  <2>3. ThreadsOK
    BY <1>0, <1>4, <2>2, ThreadsTyped DEF ReadTun
  <2> QED BY <1>4, <2>3 DEF ReadTun, TypeOK, allocVars
<1> QED BY <1>1, <1>2, <1>3, <1>4 DEF Environment

\* A round of the heartbeat thread.
LEMMA RoundTyped ==
  ASSUME TypeOK,
         \/ BeginRound \/ ScanRaises \/ EndScan \/ EndRound
         \/ \E a \in Addr : Visit(a) \/ Reap(a)
  PROVE  TypeOK'
<1> DEFINE ThreadsOK == DOMAIN thr' = Threads /\ \A u \in Threads : ThreadOK(u, thr'[u])
           Scans == [size : Nat, visited : SUBSET Addr, expired : SUBSET Addr]
<1>0. /\ "beat" \in Threads /\ {"scan", "reap", "dead", "release"} \subseteq PCs["beat"]
      /\ \A p \in {"scan", "reap", "dead"} : p \notin Holding /\ p \notin Working
      /\ "release" \notin Holding
  BY PCFacts DEF Threads, CleanPCs, Cleaners, Holding, Working, RecvPCs, AllKinds
<1>1. Cardinality(KnownPeers) \in Nat
  BY ClientAssumption, FS_Subset, FS_CardinalityType DEF KnownPeers
<1>2. NoScan \in Scans /\ scan \in Scans
  BY DEF NoScan, TypeOK
<1>3. CASE BeginRound
  <2>1. scan' \in Scans
    BY <1>1, <1>2, <1>3 DEF BeginRound
  <2>2. ThreadsOK
    BY <1>0, <1>3, GotoTyped DEF BeginRound
  <2> QED BY <1>3, <2>1, <2>2 DEF BeginRound, TypeOK, allocVars
<1>4. CASE ScanRaises
  BY <1>0, <1>2, <1>4, GotoTyped DEF ScanRaises, TypeOK, allocVars
<1>5. ASSUME NEW a \in Addr, Visit(a) PROVE TypeOK'
  <2>1. scan' \in Scans
    BY <1>2, <1>5 DEF Visit
  <2> QED BY <1>5, <2>1 DEF Visit, TypeOK, allocVars
<1>6. CASE EndScan
  <2>1. scan' \in Scans
    BY <1>2, <1>6 DEF EndScan
  <2>2. ThreadsOK
    BY <1>0, <1>6, GotoTyped DEF EndScan
  <2> QED BY <1>6, <2>1, <2>2 DEF EndScan, TypeOK, allocVars
<1>7. ASSUME NEW a \in Addr, Reap(a) PROVE TypeOK'
  <2>1. scan' \in Scans
    BY <1>2, <1>7 DEF Reap
  <2>2. ThreadOK("beat", [Idle EXCEPT !.pc = "release", !.addr = a])
    BY <1>0, StartTyped
  <2>3. ThreadsOK
    BY <1>0, <1>7, <2>2, ThreadsTyped DEF Reap
  <2> QED BY <1>7, <2>1, <2>3 DEF Reap, TypeOK, allocVars
<1>8. CASE EndRound
  BY <1>0, <1>2, <1>8, FinishTyped DEF EndRound, TypeOK, allocVars
<1> QED BY <1>3, <1>4, <1>5, <1>6, <1>7, <1>8

\* Taking a peer out of the tables, by either thread that does it.
LEMMA CleaningTyped ==
  ASSUME TypeOK, NEW t \in Cleaners, CleanStep(t) \/ (t = "operator" /\ OperatorGetIP)
  PROVE  TypeOK'
<1> DEFINE a == thr[t].addr
           ThreadsOK == DOMAIN thr' = Threads /\ \A u \in Threads : ThreadOK(u, thr'[u])
           ScanOK == scan' \in [size : Nat, visited : SUBSET Addr, expired : SUBSET Addr]
<1> USE DEF At
<1>0. /\ t \in Threads
      /\ CleanPCs \subseteq PCs[t]
      /\ thr[t] \in Locals(t)
      /\ thr[t].pc \in CleanPCs \cup {"get_ip"} => a \in Addr
      /\ thr[t].pc = "discard" => thr[t].ip \in Hosts
      /\ thr[t].pc = "routes_write" => thr[t].routes \in Routes
      /\ \A p \in CleanPCs \ {"discard"} : p \notin Holding
  BY PCFacts DEF TypeOK, ThreadOK, Threads, Cleaners, Working, Holding, CleanPCs
<1>1. ASSUME Raise(t) PROVE ThreadsOK /\ (ScanOK \/ scan' = scan)
  <2>1. CASE t = "beat"
    <3>1. "dead" \in PCs[t] /\ "dead" \notin Holding /\ "dead" \notin Working
      BY <2>1, PCFacts DEF Holding, Working, RecvPCs, AllKinds, CleanPCs
    <3>2. ThreadOK(t, [Idle EXCEPT !.pc = "dead"])
      BY <1>0, <3>1 DEF Idle, ThreadOK, Locals
    <3> QED BY <1>0, <1>1, <2>1, <3>2, ThreadsTyped DEF Raise, NoScan
  <2>2. CASE t # "beat"
    BY <1>0, <1>1, <2>2, FinishTyped DEF Raise
  <2> QED BY <2>1, <2>2
<1>2. CASE t = "operator" /\ OperatorGetIP
  <2>1. ThreadsOK
    BY <1>0, <1>2, GotoTyped DEF OperatorGetIP, CleanPCs
  <2> QED BY <1>2, <2>1 DEF OperatorGetIP, TypeOK, allocVars
<1>3. CASE CheckLease(t)
  <2>1. ThreadsOK
    BY <1>0, <1>3, GotoTyped DEF CheckLease, CleanPCs
  <2> QED BY <1>3, <2>1 DEF CheckLease, TypeOK, allocVars
<1>4. CASE PopLease(t)
  <2> DEFINE ip == get_ip(a)
  <2>1. a \in Addr /\ ip \in Hosts \cup {None}
    BY <1>0, <1>4 DEF PopLease, CleanPCs, get_ip, TypeOK
  <2>2. CASE Raise(t) /\ UNCHANGED allocVars
    BY <1>1, <1>4, <2>2 DEF PopLease, TypeOK, allocVars
  <2>3. CASE /\ ip # None
             /\ Pop(a)
             /\ Become(t, [thr[t] EXCEPT !.pc = "discard", !.ip = ip])
             /\ UNCHANGED scan
    <3>1. ThreadOK(t, [thr[t] EXCEPT !.pc = "discard", !.ip = ip])
      BY <1>0, <2>1, <2>3 DEF ThreadOK, Locals, Destinations, CleanPCs
    <3>2. ThreadsOK
      BY <1>0, <2>3, <3>1, ThreadsTyped
    <3>3. alloc_map' \in [Addr -> Hosts \cup {None}] /\ allocated' = allocated
      BY <2>3 DEF Pop, TypeOK
    <3> QED BY <1>4, <2>3, <3>2, <3>3 DEF PopLease, TypeOK
  <2> QED BY <1>4, <2>2, <2>3 DEF PopLease
<1>5. CASE DiscardAddress(t)
  <2>1. a \in Addr
    BY <1>0, <1>5 DEF DiscardAddress, CleanPCs
  <2>2. ThreadOK(t, [thr[t] EXCEPT !.pc = "routes_read", !.ip = None])
    BY <1>0, <2>1 DEF ThreadOK, Locals, CleanPCs
  <2>3. ThreadsOK
    BY <1>0, <1>5, <2>2, ThreadsTyped DEF DiscardAddress
  <2> QED BY <1>5, <2>3 DEF DiscardAddress, Discard, TypeOK
<1>6. CASE ReadRoutes(t)
  <2>1. a \in Addr /\ host_routes \in Routes
    BY <1>0, <1>6 DEF ReadRoutes, CleanPCs, TypeOK
  <2>2. ThreadOK(t, [thr[t] EXCEPT !.pc = "routes_write", !.routes = host_routes])
    BY <1>0, <2>1 DEF ThreadOK, Locals, CleanPCs
  <2>3. ThreadsOK
    BY <1>0, <1>6, <2>2, ThreadsTyped DEF ReadRoutes
  <2> QED BY <1>6, <2>3 DEF ReadRoutes, TypeOK, allocVars
<1>7. CASE WriteRoutes(t)
  <2>1. a \in Addr /\ thr[t].routes \in Routes
    BY <1>0, <1>7 DEF WriteRoutes, CleanPCs
  <2>2. CASE /\ host_routes' = WithoutPeer(thr[t].routes, a)
             /\ Become(t, [thr[t] EXCEPT !.pc = "del", !.routes = None])
             /\ UNCHANGED scan
    <3>1. ThreadOK(t, [thr[t] EXCEPT !.pc = "del", !.routes = None])
      BY <1>0, <2>1 DEF ThreadOK, Locals, CleanPCs
    <3>2. ThreadsOK
      BY <1>0, <2>2, <3>1, ThreadsTyped
    <3>3. host_routes' \in Routes
      BY <2>1, <2>2 DEF WithoutPeer, Routes
    <3> QED BY <1>7, <2>2, <3>2, <3>3 DEF WriteRoutes, TypeOK, allocVars
  <2>3. CASE Raise(t) /\ UNCHANGED host_routes
    BY <1>1, <1>7, <2>3 DEF WriteRoutes, TypeOK, allocVars
  <2> QED BY <1>7, <2>2, <2>3 DEF WriteRoutes
<1>8. CASE DeletePeer(t)
  <2>1. a \in Addr
    BY <1>0, <1>8 DEF DeletePeer, CleanPCs
  <2>2. CASE /\ Delete(a)
             /\ Become(t, IF t = "beat" THEN [Idle EXCEPT !.pc = "reap"] ELSE Idle)
             /\ UNCHANGED scan
    <3>1. ThreadOK(t, IF t = "beat" THEN [Idle EXCEPT !.pc = "reap"] ELSE Idle)
      <4>1. CASE t = "beat"
        <5>1. "reap" \in PCs[t] /\ "reap" \notin Holding /\ "reap" \notin Working
          BY <4>1, PCFacts DEF Holding, Working, RecvPCs, AllKinds, CleanPCs
        <5> QED BY <4>1, <5>1 DEF Idle, ThreadOK, Locals
      <4>2. CASE t # "beat"
        BY <1>0, <4>2, IdleTyped
      <4> QED BY <4>1, <4>2
    <3>2. ThreadsOK
      BY <1>0, <2>2, <3>1, ThreadsTyped
    <3> QED BY <1>8, <2>1, <2>2, <3>2, DeleteTyped DEF DeletePeer, TypeOK, allocVars
  <2>3. CASE Raise(t) /\ UNCHANGED peers
    BY <1>1, <1>8, <2>3 DEF DeletePeer, TypeOK, allocVars
  <2> QED BY <1>8, <2>2, <2>3 DEF DeletePeer
<1> QED BY <1>2, <1>3, <1>4, <1>5, <1>6, <1>7, <1>8 DEF CleanStep

\* Every step keeps the types.
LEMMA NextTyped ==
  ASSUME TypeOK, [Next]_vars
  PROVE  TypeOK'
<1>1. ASSUME RecvStep PROVE TypeOK'
  BY <1>1, HandshakeTyped, ForwardingTyped DEF RecvStep, Routers
<1>2. ASSUME TunStep PROVE TypeOK'
  BY <1>2, ForwardingTyped DEF TunStep, Routers
<1>3. ASSUME BeatStep PROVE TypeOK'
  BY <1>3, RoundTyped, CleaningTyped DEF BeatStep, Cleaners
<1>4. ASSUME OperatorStep PROVE TypeOK'
  BY <1>4, CleaningTyped DEF OperatorStep, Cleaners
<1>5. ASSUME UNCHANGED vars PROVE TypeOK'
  BY <1>5 DEF vars, allocVars, TypeOK, ThreadOK, Locals, KnownPeers
<1> QED BY <1>1, <1>2, <1>3, <1>4, <1>5, EnvironmentTyped DEF Next

-----------------------------------------------------------------------------
(* The allocator.  Most steps neither change its tables nor take an        *)
(* address into a thread's hands or out of them.                           *)

QuietThreads ==
  /\ \A t \in Threads :
       /\ Holds(t)' <=> Holds(t)
       /\ Holds(t) => thr'[t].ip = thr[t].ip
  /\ At("recv", "record")' => At("recv", "record") /\ thr'["recv"].addr = thr["recv"].addr

Quiet == UNCHANGED allocVars /\ QuietThreads

\* A step that leaves the allocator and every full hand alone keeps the invariant.
LEMMA QuietStep ==
  ASSUME IInv, Quiet
  PROVE  NoDoubleLease' /\ PoolAccounting' /\ HeldApart' /\ RecordedOnce'
<1>1. alloc_map' = alloc_map /\ allocated' = allocated
  BY DEF Quiet, allocVars
<1>2. NoDoubleLease'
  BY <1>1 DEF IInv, NoDoubleLease
<1>3. InFlight' = InFlight
  <2>1. {u \in Threads : Holds(u)}' = {u \in Threads : Holds(u)}
    BY DEF Quiet, QuietThreads
  <2>2. \A u \in Threads : Holds(u) => thr'[u].ip = thr[u].ip
    BY DEF Quiet, QuietThreads
  <2> QED BY <2>1, <2>2 DEF InFlight
<1>4. PoolAccounting'
  BY <1>1, <1>3 DEF IInv, PoolAccounting, Leases
<1>5. HeldApart'
  <2> SUFFICES ASSUME NEW t \in Threads, Holds(t)'
               PROVE  /\ \A a \in Addr : alloc_map[a] # thr'[t].ip
                      /\ \A u \in Threads \ {t} : Holds(u)' => thr'[u].ip # thr'[t].ip
    BY <1>1 DEF HeldApart
  <2>1. Holds(t) /\ thr'[t].ip = thr[t].ip
    BY DEF Quiet, QuietThreads
  <2>2. \A u \in Threads : Holds(u)' => Holds(u) /\ thr'[u].ip = thr[u].ip
    BY DEF Quiet, QuietThreads
  <2> QED BY <2>1, <2>2 DEF IInv, HeldApart
<1>6. RecordedOnce'
  BY <1>1 DEF IInv, RecordedOnce, Quiet, QuietThreads, get_ip
<1> QED BY <1>2, <1>4, <1>5, <1>6

\* A thread with empty hands that moves to locals with empty hands.
LEMMA QuietMove ==
  ASSUME TypeOK, NEW t \in Threads, NEW local, Become(t, local),
         ~Holds(t), local.pc \notin {"record", "discard"}
  PROVE  QuietThreads
<1>1. thr'[t] = local /\ \A u \in Threads \ {t} : thr'[u] = thr[u]
  BY OneMoves
<1>2. \A u \in Threads : (Holds(u)' <=> Holds(u)) /\ (Holds(u) => thr'[u].ip = thr[u].ip)
  BY <1>1 DEF Holds
<1>3. At("recv", "record")' => At("recv", "record") /\ thr'["recv"].addr = thr["recv"].addr
  <2>1. CASE t = "recv"
    BY <1>1, <2>1 DEF At
  <2>2. CASE t # "recv"
    BY <1>1, <2>2 DEF At, Threads
  <2> QED BY <2>1, <2>2
<1> QED BY <1>2, <1>3 DEF QuietThreads

\* A thread that only moves on, with empty hands.
LEMMA QuietGoto ==
  ASSUME TypeOK, NEW t \in Threads, NEW p, Goto(t, p),
         ~Holds(t), p \notin {"record", "discard"}
  PROVE  QuietThreads
<1>1. thr[t] \in Locals(t)
  BY DEF TypeOK, ThreadOK
<1>2. [thr[t] EXCEPT !.pc = p].pc = p
  BY <1>1 DEF Locals
<1> QED BY <1>2, QuietMove DEF Goto

\* A thread that goes idle with empty hands.
LEMMA QuietFinish ==
  ASSUME TypeOK, NEW t \in Threads, Finish(t), ~Holds(t)
  PROVE  QuietThreads
<1>1. Idle.pc = "idle"
  BY DEF Idle
<1> QED BY <1>1, QuietMove DEF Finish

\* The receive thread's steps other than Allocate and RecordLease.
LEMMA QuietRecv ==
  ASSUME TypeOK,
         \/ Heartbeat \/ ClientHello \/ VerifyFinished \/ SetHandshakeDone
         \/ ReuseLease \/ SetPeerTunIP \/ AddHostRoute \/ SendAssignment
         \/ CheckHandshakeDone \/ Unpack
         \/ \E src \in Hosts, dst \in Destinations : CheckSource(src, dst)
  PROVE  Quiet
<1> USE DEF At, Holds
<1>0. "recv" \in Threads /\ thr["recv"] \in Locals("recv")
  BY DEF Threads, TypeOK, ThreadOK
<1>1. CASE Heartbeat
  BY <1>0, <1>1, QuietFinish DEF Heartbeat, Quiet
<1>2. CASE ClientHello
  BY <1>0, <1>2, QuietFinish DEF ClientHello, Quiet
<1>3. CASE VerifyFinished
  BY <1>0, <1>3, QuietFinish, QuietGoto DEF VerifyFinished, Quiet
<1>4. CASE SetHandshakeDone
  BY <1>0, <1>4, QuietGoto DEF SetHandshakeDone, Quiet
<1>5. CASE ReuseLease
  <2>1. \A ip : [thr["recv"] EXCEPT !.pc = "set_ip", !.ip = ip].pc = "set_ip"
    BY <1>0 DEF Locals
  <2> QED BY <1>0, <1>5, <2>1, QuietFinish, QuietMove DEF ReuseLease, Quiet
<1>6. CASE SetPeerTunIP
  BY <1>0, <1>6, QuietGoto DEF SetPeerTunIP, Quiet
<1>7. CASE AddHostRoute
  BY <1>0, <1>7, QuietGoto DEF AddHostRoute, Quiet
<1>8. CASE SendAssignment
  BY <1>0, <1>8, QuietFinish DEF SendAssignment, Quiet
<1>9. CASE CheckHandshakeDone
  BY <1>0, <1>9, QuietFinish, QuietGoto DEF CheckHandshakeDone, Quiet
<1>10. CASE Unpack
  BY <1>0, <1>10, QuietFinish, QuietGoto DEF Unpack, Quiet
<1>11. CASE \E src \in Hosts, dst \in Destinations : CheckSource(src, dst)
  <2>1. \A ip : [Idle EXCEPT !.pc = "route", !.ip = ip].pc = "route"
    BY DEF Idle
  <2> QED BY <1>0, <1>11, <2>1, QuietFinish, QuietMove DEF CheckSource, Quiet
<1> QED BY <1>1, <1>2, <1>3, <1>4, <1>5, <1>6, <1>7, <1>8, <1>9, <1>10, <1>11

\* Routing and forwarding do not touch the allocator.
LEMMA QuietForwarding ==
  ASSUME TypeOK, NEW t \in Routers, LookupRaises(t) \/ Route(t) \/ Forward(t)
  PROVE  Quiet
<1> USE DEF At, Holds
<1>0. t \in Threads
  BY DEF Threads, Routers
<1>1. CASE LookupRaises(t)
  BY <1>0, <1>1, QuietFinish DEF LookupRaises, Quiet
<1>2. CASE Route(t)
  <2>1. \A a : [Idle EXCEPT !.pc = "forward", !.addr = a].pc = "forward"
    BY DEF Idle
  <2> QED BY <1>0, <1>2, <2>1, QuietFinish, QuietMove DEF Route, Quiet
<1>3. CASE Forward(t)
  BY <1>0, <1>3, QuietFinish DEF Forward, Quiet
<1> QED BY <1>1, <1>2, <1>3

\* Nor does what the environment does.
LEMMA QuietEnvironment ==
  ASSUME TypeOK, Environment
  PROVE  Quiet
<1> USE DEF At, Holds
<1>0. {"recv", "tun", "beat", "operator"} \subseteq Threads
  BY DEF Threads
<1>1. ASSUME NEW a \in Addr, NEW kind \in Kinds, Receive(a, kind) PROVE Quiet
  <2>1. kind \notin {"record", "discard"}
    BY ClientAssumption DEF AllKinds
  <2>2. [Idle EXCEPT !.pc = kind, !.addr = a].pc = kind
    BY DEF Idle
  <2> QED BY <1>0, <1>1, <2>1, <2>2, QuietMove DEF Receive, Quiet
<1>2. ASSUME NEW a \in Addr, FallSilent(a) PROVE Quiet
  BY <1>2 DEF FallSilent, Quiet, QuietThreads
<1>3. ASSUME NEW a \in Addr, DisconnectPeer(a) PROVE Quiet
  <2>1. [Idle EXCEPT !.pc = "get_ip", !.addr = a].pc = "get_ip"
    BY DEF Idle
  <2> QED BY <1>0, <1>3, <2>1, QuietMove DEF DisconnectPeer, Quiet
<1>4. ASSUME NEW dst \in HostTraffic, ReadTun(dst) PROVE Quiet
  <2>1. [Idle EXCEPT !.pc = "route", !.ip = dst].pc = "route"
    BY DEF Idle
  <2> QED BY <1>0, <1>4, <2>1, QuietMove DEF ReadTun, Quiet
<1> QED BY <1>1, <1>2, <1>3, <1>4 DEF Environment

\* Nor does a round of the heartbeat thread outside the clean-up.
LEMMA QuietRound ==
  ASSUME TypeOK,
         \/ BeginRound \/ ScanRaises \/ EndScan \/ EndRound
         \/ \E a \in Addr : Visit(a) \/ Reap(a)
  PROVE  Quiet
<1> USE DEF At, Holds
<1>0. "beat" \in Threads
  BY DEF Threads
<1>1. CASE BeginRound
  BY <1>0, <1>1, QuietGoto DEF BeginRound, Quiet
<1>2. CASE ScanRaises
  BY <1>0, <1>2, QuietGoto DEF ScanRaises, Quiet
<1>3. CASE EndScan
  BY <1>0, <1>3, QuietGoto DEF EndScan, Quiet
<1>4. CASE EndRound
  BY <1>0, <1>4, QuietFinish DEF EndRound, Quiet
<1>5. ASSUME NEW a \in Addr, Visit(a) PROVE Quiet
  BY <1>5 DEF Visit, Quiet, QuietThreads
<1>6. ASSUME NEW a \in Addr, Reap(a) PROVE Quiet
  <2>1. [Idle EXCEPT !.pc = "release", !.addr = a].pc = "release"
    BY DEF Idle
  <2> QED BY <1>0, <1>6, <2>1, QuietMove DEF Reap, Quiet
<1> QED BY <1>1, <1>2, <1>3, <1>4, <1>5, <1>6

\* A cleaner's steps other than the two that touch the allocator.
LEMMA QuietCleaning ==
  ASSUME TypeOK, NEW t \in Cleaners,
         \/ CheckLease(t) \/ ReadRoutes(t) \/ WriteRoutes(t) \/ DeletePeer(t)
         \/ PopLease(t) /\ UNCHANGED allocVars
         \/ t = "operator" /\ OperatorGetIP
  PROVE  Quiet
<1> USE DEF At, Holds
<1>0. t \in Threads /\ thr[t] \in Locals(t)
  BY DEF Threads, Cleaners, TypeOK, ThreadOK
<1>1. ASSUME Raise(t), ~Holds(t) PROVE QuietThreads
  <2>1. [Idle EXCEPT !.pc = "dead"].pc = "dead"
    BY DEF Idle
  <2> QED BY <1>0, <1>1, <2>1, QuietFinish, QuietMove DEF Raise
<1>2. CASE CheckLease(t)
  BY <1>0, <1>2, QuietGoto DEF CheckLease, Quiet
<1>3. CASE ReadRoutes(t)
  <2>1. [thr[t] EXCEPT !.pc = "routes_write", !.routes = host_routes].pc = "routes_write"
    BY <1>0 DEF Locals
  <2> QED BY <1>0, <1>3, <2>1, QuietMove DEF ReadRoutes, Quiet
<1>4. CASE WriteRoutes(t)
  <2>1. [thr[t] EXCEPT !.pc = "del", !.routes = None].pc = "del"
    BY <1>0 DEF Locals
  <2> QED BY <1>0, <1>1, <1>4, <2>1, QuietMove DEF WriteRoutes, Quiet
<1>5. CASE DeletePeer(t)
  <2>1. Idle.pc = "idle" /\ [Idle EXCEPT !.pc = "reap"].pc = "reap"
    BY DEF Idle
  <2> QED BY <1>0, <1>1, <1>5, <2>1, QuietMove DEF DeletePeer, Quiet
<1>6. CASE PopLease(t) /\ UNCHANGED allocVars
  <2>1. CASE Raise(t)
    BY <1>1, <1>6, <2>1 DEF PopLease, Quiet
  <2>2. CASE get_ip(thr[t].addr) # None /\ Pop(thr[t].addr)
    <3>1. thr[t].addr \in Addr
      BY <1>0, <1>6 DEF PopLease, TypeOK, ThreadOK, Working, CleanPCs
    <3> QED BY <1>6, <2>2, <3>1 DEF Pop, get_ip, TypeOK, allocVars
  <2> QED BY <1>6, <2>1, <2>2 DEF PopLease
<1>7. CASE t = "operator" /\ OperatorGetIP
  BY <1>0, <1>7, QuietGoto DEF OperatorGetIP, Quiet
<1> QED BY <1>2, <1>3, <1>4, <1>5, <1>6, <1>7

\* allocate takes a free address into the receive thread's hands.
LEMMA ReserveStep ==
  ASSUME IInv, At("recv", "allocate"), get_ip(thr["recv"].addr) = None,
         NEW h \in Hosts, FirstFree(h), Reserve(h),
         Become("recv", [thr["recv"] EXCEPT !.pc = "record", !.ip = h])
  PROVE  NoDoubleLease' /\ PoolAccounting' /\ HeldApart' /\ RecordedOnce'
<1>0. TypeOK /\ "recv" \in Threads
  BY DEF IInv, Threads
<1>1. thr["recv"] \in Locals("recv")
  BY <1>0 DEF TypeOK, ThreadOK
<1>2. /\ thr'["recv"].pc = "record" /\ thr'["recv"].ip = h
      /\ thr'["recv"].addr = thr["recv"].addr
      /\ \A u \in Threads \ {"recv"} : thr'[u] = thr[u]
  <2> DEFINE l == [thr["recv"] EXCEPT !.pc = "record", !.ip = h]
  <2>1. l.pc = "record" /\ l.ip = h /\ l.addr = thr["recv"].addr
    BY <1>1 DEF Locals
  <2> QED BY <1>0, <2>1, OneMoves
<1>3. ~Holds("recv") /\ Holds("recv")'
  BY <1>2 DEF At, Holds
<1>4. \A u \in Threads \ {"recv"} : Holds(u)' <=> Holds(u)
  BY <1>2 DEF Holds
<1>5. alloc_map' = alloc_map /\ allocated' = allocated \cup {h}
  BY DEF Reserve
<1>6. h \notin allocated /\ h # None
  BY PoolAssumption DEF FirstFree, FreeHosts, Hosts
<1>7. NoDoubleLease'
  BY <1>5 DEF IInv, NoDoubleLease
<1>8. InFlight' = InFlight \cup {h}
  BY <1>0, <1>2, <1>3, <1>4 DEF InFlight
<1>9. PoolAccounting'
  BY <1>5, <1>8 DEF IInv, PoolAccounting, Leases
<1>10. (\A a \in Addr : alloc_map[a] # h) /\ \A u \in Threads : Holds(u) => thr[u].ip # h
  BY <1>6 DEF IInv, PoolAccounting, Leases, InFlight
<1>11. HeldApart'
  BY <1>2, <1>3, <1>4, <1>5, <1>10 DEF IInv, HeldApart
<1>12. RecordedOnce'
  BY <1>2, <1>5 DEF RecordedOnce, get_ip
<1> QED BY <1>7, <1>9, <1>11, <1>12

\* The reserved address becomes the peer's lease.
LEMMA RecordStep ==
  ASSUME IInv, RecordLease
  PROVE  NoDoubleLease' /\ PoolAccounting' /\ HeldApart' /\ RecordedOnce'
<1> DEFINE a == thr["recv"].addr
           ip == thr["recv"].ip
<1>0. TypeOK /\ "recv" \in Threads
  BY DEF IInv, Threads
<1>1. thr["recv"] \in Locals("recv") /\ a \in Addr /\ ip \in Hosts /\ ip # None
  BY <1>0, PoolAssumption
     DEF RecordLease, At, TypeOK, ThreadOK, Working, Holding, RecvPCs, Hosts
<1>2. thr'["recv"].pc = "set_ip" /\ \A u \in Threads \ {"recv"} : thr'[u] = thr[u]
  BY <1>0, <1>1, OneMoves DEF RecordLease, Goto, Locals
<1>3. Holds("recv") /\ ~Holds("recv")'
  BY <1>2 DEF RecordLease, At, Holds
<1>4. \A u \in Threads \ {"recv"} : Holds(u)' <=> Holds(u)
  BY <1>2 DEF Holds
<1>5. /\ alloc_map' = [alloc_map EXCEPT ![a] = ip] /\ allocated' = allocated
      /\ alloc_map \in [Addr -> Hosts \cup {None}]
  BY <1>0 DEF RecordLease, Record, TypeOK
<1>6. \A b \in Addr : alloc_map'[b] = IF b = a THEN ip ELSE alloc_map[b]
  BY <1>1, <1>5
<1>7. alloc_map[a] = None
  BY DEF IInv, RecordedOnce, RecordLease, get_ip
<1>8. /\ \A b \in Addr : alloc_map[b] # ip
      /\ \A u \in Threads \ {"recv"} : Holds(u) => thr[u].ip # ip
  BY <1>0, <1>3 DEF IInv, HeldApart
<1>9. NoDoubleLease'
  BY <1>6, <1>8 DEF IInv, NoDoubleLease
<1>10. Leases' = Leases \cup {ip}
  BY <1>1, <1>6, <1>7 DEF Leases
<1>11. InFlight = InFlight' \cup {ip}
  BY <1>0, <1>2, <1>3, <1>4 DEF InFlight
<1>12. PoolAccounting'
  BY <1>5, <1>10, <1>11 DEF IInv, PoolAccounting
<1>13. HeldApart'
  BY <1>2, <1>3, <1>4, <1>6, <1>8 DEF IInv, HeldApart
<1>14. RecordedOnce'
  BY <1>2 DEF RecordedOnce, At
<1> QED BY <1>9, <1>12, <1>13, <1>14

\* release takes a lease off the map into a cleaner's hands.
LEMMA PopStep ==
  ASSUME IInv, NEW t \in Cleaners, PopLease(t), ~UNCHANGED allocVars
  PROVE  NoDoubleLease' /\ PoolAccounting' /\ HeldApart' /\ RecordedOnce'
<1> DEFINE a == thr[t].addr
           ip == get_ip(a)
<1>0. TypeOK /\ t \in Threads /\ "recv" \in Threads /\ t # "recv"
  BY DEF IInv, Threads, Cleaners
<1>1. thr[t] \in Locals(t) /\ a \in Addr
  BY <1>0 DEF PopLease, At, TypeOK, ThreadOK, Working, CleanPCs
<1>2. /\ ip # None /\ Pop(a)
      /\ Become(t, [thr[t] EXCEPT !.pc = "discard", !.ip = ip])
  BY DEF PopLease
<1>3. /\ thr'[t].pc = "discard" /\ thr'[t].ip = ip
      /\ \A u \in Threads \ {t} : thr'[u] = thr[u]
  <2> DEFINE l == [thr[t] EXCEPT !.pc = "discard", !.ip = ip]
  <2>1. l.pc = "discard" /\ l.ip = ip
    BY <1>1 DEF Locals
  <2> QED BY <1>0, <1>2, <2>1, OneMoves
<1>4. ~Holds(t) /\ Holds(t)'
  BY <1>3 DEF PopLease, At, Holds
<1>5. \A u \in Threads \ {t} : Holds(u)' <=> Holds(u)
  BY <1>3 DEF Holds
<1>6. /\ alloc_map' = [alloc_map EXCEPT ![a] = None] /\ allocated' = allocated
      /\ alloc_map \in [Addr -> Hosts \cup {None}]
  BY <1>0, <1>2 DEF Pop, TypeOK
<1>7. \A b \in Addr : alloc_map'[b] = IF b = a THEN None ELSE alloc_map[b]
  BY <1>1, <1>6
<1>8. \A b \in Addr : b # a => alloc_map[b] # ip
  BY <1>1, <1>2 DEF IInv, NoDoubleLease, get_ip
<1>9. \A u \in Threads : Holds(u) => thr[u].ip # ip
  BY <1>1 DEF IInv, HeldApart, get_ip
<1>10. NoDoubleLease'
  BY <1>7 DEF IInv, NoDoubleLease
<1>11. Leases = Leases' \cup {ip}
  BY <1>1, <1>2, <1>7 DEF Leases, get_ip
<1>12. InFlight' = InFlight \cup {ip}
  BY <1>0, <1>3, <1>4, <1>5 DEF InFlight
<1>13. PoolAccounting'
  BY <1>6, <1>11, <1>12 DEF IInv, PoolAccounting
<1>14. HeldApart'
  <2>1. \A u \in Threads : Holds(u) => thr[u].ip # None
    BY <1>0, PoolAssumption DEF TypeOK, ThreadOK, Holds, Holding, Hosts
  <2> QED BY <1>2, <1>3, <1>4, <1>5, <1>7, <1>8, <1>9, <2>1 DEF IInv, HeldApart
<1>15. RecordedOnce'
  <2>1. thr'["recv"] = thr["recv"]
    BY <1>0, <1>3
  <2>2. At("recv", "record") => thr["recv"].addr \in Addr
    BY <1>0 DEF At, TypeOK, ThreadOK, Working, RecvPCs
  <2> QED BY <1>7, <2>1, <2>2 DEF IInv, RecordedOnce, At, get_ip
<1> QED BY <1>10, <1>13, <1>14, <1>15

\* release gives the address back to the pool.
LEMMA DiscardStep ==
  ASSUME IInv, NEW t \in Cleaners, DiscardAddress(t)
  PROVE  NoDoubleLease' /\ PoolAccounting' /\ HeldApart' /\ RecordedOnce'
<1> DEFINE ip == thr[t].ip
<1>0. TypeOK /\ t \in Threads /\ "recv" \in Threads /\ t # "recv"
  BY DEF IInv, Threads, Cleaners
<1>1. thr[t] \in Locals(t)
  BY <1>0 DEF TypeOK, ThreadOK
<1>2. thr'[t].pc = "routes_read" /\ \A u \in Threads \ {t} : thr'[u] = thr[u]
  <2> DEFINE l == [thr[t] EXCEPT !.pc = "routes_read", !.ip = None]
  <2>1. l.pc = "routes_read"
    BY <1>1 DEF Locals
  <2> QED BY <1>0, <2>1, OneMoves DEF DiscardAddress
<1>3. Holds(t) /\ ~Holds(t)'
  BY <1>2 DEF DiscardAddress, At, Holds
<1>4. \A u \in Threads \ {t} : Holds(u)' <=> Holds(u)
  BY <1>2 DEF Holds
<1>5. alloc_map' = alloc_map /\ allocated' = allocated \ {ip}
  BY DEF DiscardAddress, Discard
<1>6. /\ \A a \in Addr : alloc_map[a] # ip
      /\ \A u \in Threads \ {t} : Holds(u) => thr[u].ip # ip
  BY <1>0, <1>3 DEF IInv, HeldApart
<1>7. NoDoubleLease'
  BY <1>5 DEF IInv, NoDoubleLease
<1>8. InFlight' = InFlight \ {ip}
  BY <1>0, <1>2, <1>3, <1>4, <1>6 DEF InFlight
<1>9. Leases' = Leases /\ ip \notin Leases
  BY <1>5, <1>6 DEF Leases
<1>10. PoolAccounting'
  BY <1>5, <1>8, <1>9 DEF IInv, PoolAccounting
<1>11. HeldApart'
  BY <1>2, <1>3, <1>4, <1>5 DEF IInv, HeldApart
<1>12. RecordedOnce'
  BY <1>0, <1>2, <1>5 DEF IInv, RecordedOnce, At, get_ip
<1> QED BY <1>7, <1>10, <1>11, <1>12

-----------------------------------------------------------------------------
(* The theorems.                                                           *)

\* The invariant holds of the fresh server.
LEMMA InitInvariant == Init => IInv
<1> SUFFICES ASSUME Init PROVE IInv
  OBVIOUS
<1>1. TypeOK
  BY InitTyped
<1>2. \A t \in Threads : ~Holds(t)
  BY DEF Init, Holds, Idle
<1>3. Leases = {} /\ InFlight = {} /\ allocated = {}
  BY <1>2 DEF Init, AllocInit, Leases, InFlight
<1>4. NoDoubleLease
  BY DEF Init, AllocInit, NoDoubleLease
<1>5. RecordedOnce
  BY <1>2 DEF RecordedOnce, At, Holds, Threads
<1> QED BY <1>1, <1>2, <1>3, <1>4, <1>5 DEF IInv, PoolAccounting, HeldApart

\* Every step of every thread keeps the invariant.
LEMMA NextInvariant == IInv /\ [Next]_vars => IInv'
<1> SUFFICES ASSUME IInv, [Next]_vars PROVE IInv'
  OBVIOUS
<1> DEFINE Goal == NoDoubleLease' /\ PoolAccounting' /\ HeldApart' /\ RecordedOnce'
<1>0. TypeOK /\ TypeOK'
  BY NextTyped DEF IInv
<1> SUFFICES Goal
  BY <1>0 DEF IInv
<1>1. CASE Allocate
  <2>1. CASE UNCHANGED allocVars /\ (Finish("recv") \/ Goto("recv", "reuse"))
    <3>1. "recv" \in Threads /\ ~Holds("recv")
      BY <1>1 DEF Threads, Allocate, At, Holds
    <3>2. Quiet
      BY <1>0, <2>1, <3>1, QuietFinish, QuietGoto DEF Quiet
    <3> QED BY <3>2, QuietStep
  <2>2. CASE \E h \in Hosts : /\ get_ip(thr["recv"].addr) = None
                             /\ FirstFree(h) /\ Reserve(h)
                             /\ Become("recv", [thr["recv"] EXCEPT !.pc = "record", !.ip = h])
    BY <1>1, <2>2, ReserveStep DEF Allocate
  <2> QED BY <1>1, <2>1, <2>2 DEF Allocate
<1>2. CASE RecordLease
  BY <1>2, RecordStep
<1>3. ASSUME RecvStep, ~Allocate, ~RecordLease PROVE Goal
  BY <1>0, <1>3, QuietRecv, QuietForwarding, QuietStep DEF RecvStep, Routers
<1>4. CASE TunStep
  BY <1>0, <1>4, QuietForwarding, QuietStep DEF TunStep, Routers
<1>5. ASSUME NEW t \in Cleaners, CleanStep(t) PROVE Goal
  <2>1. CASE PopLease(t) /\ ~UNCHANGED allocVars
    BY <2>1, PopStep
  <2>2. CASE DiscardAddress(t)
    BY <2>2, DiscardStep
  <2>3. CASE ~DiscardAddress(t) /\ (PopLease(t) => UNCHANGED allocVars)
    BY <1>0, <1>5, <2>3, QuietCleaning, QuietStep DEF CleanStep
  <2> QED BY <2>1, <2>2, <2>3
<1>6. CASE BeatStep
  BY <1>0, <1>5, <1>6, QuietRound, QuietStep DEF BeatStep, Cleaners
<1>7. CASE OperatorStep
  BY <1>0, <1>5, <1>7, QuietCleaning, QuietStep DEF OperatorStep, Cleaners
<1>8. CASE Environment
  BY <1>0, <1>8, QuietEnvironment, QuietStep
<1>9. CASE UNCHANGED vars
  BY <1>9, QuietStep DEF vars, Quiet, QuietThreads, Holds, At, allocVars
<1> QED BY <1>1, <1>2, <1>3, <1>4, <1>6, <1>7, <1>8, <1>9 DEF Next

\* Types, no double lease and the accounting of the pool are one inductive
\* invariant of the four threads.
THEOREM InvariantHolds == Spec => []IInv
<1> QED BY InitInvariant, NextInvariant, PTL DEF Spec

\* The tables and the locals of every thread keep their types: no step hands
\* an absent address or peer on to the next one.
THEOREM TypeCorrect == Spec => []TypeOK
<1>1. IInv => TypeOK
  BY DEF IInv
<1> QED BY <1>1, InvariantHolds, PTL

\* For any number of clients and any pool, allocate and release never leave
\* two clients with one address, however their steps interleave.
THEOREM LeasesAreDistinct == Spec => []NoDoubleLease
<1>1. IInv => NoDoubleLease
  BY DEF IInv
<1> QED BY <1>1, InvariantHolds, PTL

\* For any number of clients and any pool, the set of addresses in use is
\* exactly the leases and what a running allocate or release has in hand.
THEOREM NothingIsLost == Spec => []PoolAccounting
<1>1. IInv => PoolAccounting
  BY DEF IInv
<1> QED BY <1>1, InvariantHolds, PTL
-----------------------------------------------------------------------------
(* The allocator implements the lease service.                             *)

\* An address on its way to a peer is granted as the service grants it: to a
\* client without one, and nobody else has it.
LEMMA RecordGrants ==
  ASSUME IInv, RecordLease
  PROVE  Service!Next
<1> DEFINE a == thr["recv"].addr
           ip == thr["recv"].ip
<1>1. a \in Addr /\ ip \in Hosts
  BY DEF IInv, TypeOK, ThreadOK, RecordLease, At, Threads, Holding, Working, RecvPCs
<1>2. Holds("recv") /\ "recv" \in Threads
  BY DEF RecordLease, At, Holds, Threads
<1>3. alloc_map[a] = None /\ \A b \in Addr : alloc_map[b] # ip
  BY <1>2 DEF IInv, RecordedOnce, HeldApart, RecordLease, get_ip
<1>4. alloc_map' = [alloc_map EXCEPT ![a] = ip]
  BY DEF RecordLease, Record
<1>5. Service!Grant(a, ip)
  BY <1>3, <1>4 DEF Service!Grant
<1> QED BY <1>1, <1>5 DEF Service!Next

\* A step that does not record a lease leaves the leases alone or takes one
\* back from a peer that has one.
LEMMA OthersTakeBack ==
  ASSUME IInv, [Next]_vars, ~RecordLease
  PROVE  Service!Next \/ UNCHANGED alloc_map
<1> USE DEF allocVars
<1>0. "beat" \in Threads /\ "operator" \in Threads
  BY DEF Threads
<1>1. ASSUME RecvStep PROVE UNCHANGED alloc_map
  <2>1. CASE LookupRaises("recv") \/ Heartbeat \/ ClientHello \/ VerifyFinished
             \/ SetHandshakeDone
    BY <2>1 DEF LookupRaises, Heartbeat, ClientHello, VerifyFinished, SetHandshakeDone
  <2>2. CASE Allocate \/ ReuseLease \/ SetPeerTunIP \/ AddHostRoute \/ SendAssignment
    BY <2>2 DEF Allocate, Reserve, ReuseLease, SetPeerTunIP, AddHostRoute, SendAssignment
  <2>3. CASE \/ CheckHandshakeDone \/ Unpack \/ Route("recv") \/ Forward("recv")
             \/ \E src \in Hosts, dst \in Destinations : CheckSource(src, dst)
    BY <2>3 DEF CheckHandshakeDone, Unpack, Route, Forward, CheckSource
  <2> QED BY <1>1, <2>1, <2>2, <2>3 DEF RecvStep
<1>2. ASSUME TunStep PROVE UNCHANGED alloc_map
  BY <1>2 DEF TunStep, Route, Forward, LookupRaises
<1>3. ASSUME NEW t \in Cleaners, CleanStep(t)
      PROVE  Service!Next \/ UNCHANGED alloc_map
  <2>1. CASE PopLease(t)
    <3>1. thr[t].addr \in Addr
      BY <1>0, <2>1 DEF IInv, TypeOK, ThreadOK, PopLease, At, Cleaners, Working, CleanPCs
    <3>2. CASE get_ip(thr[t].addr) = None
      BY <2>1, <3>2 DEF PopLease
    <3>3. CASE get_ip(thr[t].addr) # None
      <4>1. Service!TakeBack(thr[t].addr)
        BY <2>1, <3>3 DEF PopLease, Pop, get_ip, Service!TakeBack
      <4> QED BY <3>1, <4>1 DEF Service!Next
    <3> QED BY <3>2, <3>3
  <2>2. CASE CheckLease(t) \/ DiscardAddress(t) \/ ReadRoutes(t)
             \/ WriteRoutes(t) \/ DeletePeer(t)
    BY <2>2 DEF CheckLease, DiscardAddress, Discard, ReadRoutes, WriteRoutes, DeletePeer
  <2> QED BY <1>3, <2>1, <2>2 DEF CleanStep
<1>4. ASSUME BeatStep PROVE Service!Next \/ UNCHANGED alloc_map
  <2>1. CASE \/ BeginRound \/ ScanRaises \/ EndScan \/ EndRound
             \/ \E a \in Addr : Visit(a) \/ Reap(a)
    BY <2>1 DEF BeginRound, ScanRaises, EndScan, EndRound, Visit, Reap
  <2> QED BY <1>3, <1>4, <2>1 DEF BeatStep, Cleaners
<1>5. ASSUME OperatorStep PROVE Service!Next \/ UNCHANGED alloc_map
  BY <1>3, <1>5 DEF OperatorStep, OperatorGetIP, Cleaners
<1>6. ASSUME Environment PROVE UNCHANGED alloc_map
  BY <1>6 DEF Environment, Receive, FallSilent, DisconnectPeer, ReadTun
<1>7. CASE UNCHANGED vars
  BY <1>7 DEF vars
<1> QED BY <1>1, <1>2, <1>4, <1>5, <1>6, <1>7 DEF Next

\* For any number of clients and any pool, the two tables of the allocator,
\* updated by three threads without a lock, implement the lease service: an
\* address is granted only while nobody has it, to a client that has none.
THEOREM Implementation == Spec => ImplementsLeases
<1>1. Init => Service!Init
  BY DEF Init, AllocInit, Service!Init
<1>2. IInv /\ [Next]_vars => [Service!Next]_alloc_map
  BY RecordGrants, OthersTakeBack
<1> QED BY <1>1, <1>2, InvariantHolds, PTL DEF Spec, ImplementsLeases, Service!Spec
-----------------------------------------------------------------------------
(* Which step changes what.                                                *)

\* A thread's step leaves the other threads' locals alone.
LEMMA Bystanders ==
  ASSUME TypeOK
  PROVE  /\ RecvStep => \A t \in Threads \ {"recv"} : thr'[t] = thr[t]
         /\ TunStep => \A t \in Threads \ {"tun"} : thr'[t] = thr[t]
         /\ BeatStep => \A t \in Threads \ {"beat"} : thr'[t] = thr[t]
         /\ \A a \in Addr, kind \in Kinds : Receive(a, kind) =>
              \A t \in Threads \ {"recv"} : thr'[t] = thr[t]
         /\ \A dst \in HostTraffic : ReadTun(dst) =>
              \A t \in Threads \ {"tun"} : thr'[t] = thr[t]
         /\ \A a \in Addr : FallSilent(a) => UNCHANGED thr
<1>0. {"recv", "tun", "beat"} \subseteq Threads
  BY DEF Threads
<1>1. RecvStep => \E local : Become("recv", local)
  BY DEF RecvStep, LookupRaises, Heartbeat, ClientHello, VerifyFinished, SetHandshakeDone,
         Allocate, ReuseLease, RecordLease, SetPeerTunIP, AddHostRoute, SendAssignment,
         CheckHandshakeDone, Unpack, CheckSource, Route, Forward, Goto, Finish
<1>2. TunStep => \E local : Become("tun", local)
  BY DEF TunStep, LookupRaises, Route, Forward, Finish
<1>3. BeatStep => UNCHANGED thr \/ \E local : Become("beat", local)
  BY DEF BeatStep, BeginRound, ScanRaises, EndScan, EndRound, Visit, Reap, CleanStep,
         CheckLease, PopLease, DiscardAddress, ReadRoutes, WriteRoutes, DeletePeer, Raise,
         Goto, Finish
<1>4. \A a \in Addr, kind \in Kinds : Receive(a, kind) => \E local : Become("recv", local)
  BY DEF Receive
<1>5. \A dst \in HostTraffic : ReadTun(dst) => \E local : Become("tun", local)
  BY DEF ReadTun
<1>6. \A a \in Addr : FallSilent(a) => UNCHANGED thr
  BY DEF FallSilent
<1>7. ASSUME NEW t \in Threads, \E local : Become(t, local)
      PROVE  \A u \in Threads \ {t} : thr'[u] = thr[u]
  BY <1>7, OneMoves
<1> QED BY <1>0, <1>1, <1>2, <1>3, <1>4, <1>5, <1>6, <1>7

\* A thread that moves on within a handler keeps the peer it works on.
LEMMA Moved ==
  ASSUME TypeOK, NEW t \in Threads, NEW p,
         \/ Goto(t, p)
         \/ \E i : Become(t, [thr[t] EXCEPT !.pc = p, !.ip = i])
         \/ \E r : Become(t, [thr[t] EXCEPT !.pc = p, !.routes = r])
  PROVE  thr'[t].pc = p /\ thr'[t].addr = thr[t].addr
<1>1. thr[t] \in Locals(t)
  BY DEF TypeOK, ThreadOK
<1>2. CASE Goto(t, p)
  <2>1. thr'[t] = [thr[t] EXCEPT !.pc = p]
    BY <1>2, OneMoves DEF Goto
  <2> QED BY <1>1, <2>1 DEF Locals
<1>3. ASSUME NEW i, Become(t, [thr[t] EXCEPT !.pc = p, !.ip = i])
      PROVE  thr'[t].pc = p /\ thr'[t].addr = thr[t].addr
  <2>1. thr'[t] = [thr[t] EXCEPT !.pc = p, !.ip = i]
    BY <1>3, OneMoves
  <2> QED BY <1>1, <2>1 DEF Locals
<1>4. ASSUME NEW r, Become(t, [thr[t] EXCEPT !.pc = p, !.routes = r])
      PROVE  thr'[t].pc = p /\ thr'[t].addr = thr[t].addr
  <2>1. thr'[t] = [thr[t] EXCEPT !.pc = p, !.routes = r]
    BY <1>4, OneMoves
  <2> QED BY <1>1, <2>1 DEF Locals
<1> QED BY <1>2, <1>3, <1>4

\* One that turns to something else starts from fresh locals.
LEMMA Started ==
  ASSUME TypeOK, NEW t \in Threads, NEW p
  PROVE  /\ Finish(t) => thr'[t].pc = "idle" /\ thr'[t].addr = None
         /\ Become(t, [Idle EXCEPT !.pc = p]) => thr'[t].pc = p /\ thr'[t].addr = None
         /\ \A a : Become(t, [Idle EXCEPT !.pc = p, !.addr = a])
                     => thr'[t].pc = p /\ thr'[t].addr = a
         /\ \A i : Become(t, [Idle EXCEPT !.pc = p, !.ip = i])
                     => thr'[t].pc = p /\ thr'[t].addr = None
<1>1. ASSUME NEW local, Become(t, local) PROVE thr'[t] = local
  BY <1>1, OneMoves
<1>2. /\ Idle.pc = "idle" /\ Idle.addr = None
      /\ [Idle EXCEPT !.pc = p].pc = p /\ [Idle EXCEPT !.pc = p].addr = None
  BY DEF Idle
<1>3. ASSUME NEW a, Become(t, [Idle EXCEPT !.pc = p, !.addr = a])
      PROVE  thr'[t].pc = p /\ thr'[t].addr = a
  <2>1. thr'[t] = [Idle EXCEPT !.pc = p, !.addr = a]
    BY <1>1, <1>3
  <2> QED BY <2>1 DEF Idle
<1>4. ASSUME NEW i, Become(t, [Idle EXCEPT !.pc = p, !.ip = i])
      PROVE  thr'[t].pc = p /\ thr'[t].addr = None
  <2>1. thr'[t] = [Idle EXCEPT !.pc = p, !.ip = i]
    BY <1>1, <1>4
  <2> QED BY <2>1 DEF Idle
<1>5. Finish(t) => thr'[t] = Idle
  BY <1>1 DEF Finish
<1>6. Become(t, [Idle EXCEPT !.pc = p]) => thr'[t] = [Idle EXCEPT !.pc = p]
  BY <1>1
<1> QED BY <1>2, <1>3, <1>4, <1>5, <1>6

\* The receive thread's steps that change the allocator's map or the routes.
LEMMA RecvTables ==
  ASSUME RecvStep
  PROVE  (RecordLease \/ UNCHANGED alloc_map) /\ (AddHostRoute \/ UNCHANGED host_routes)
<1> USE DEF allocVars
<1>1. CASE LookupRaises("recv") \/ Heartbeat \/ ClientHello \/ VerifyFinished \/ SetHandshakeDone
  BY <1>1 DEF LookupRaises, Heartbeat, ClientHello, VerifyFinished, SetHandshakeDone
<1>2. CASE Allocate \/ ReuseLease \/ RecordLease \/ SetPeerTunIP \/ AddHostRoute \/ SendAssignment
  BY <1>2 DEF Allocate, Reserve, ReuseLease, RecordLease, SetPeerTunIP, AddHostRoute,
              SendAssignment
<1>3. CASE \/ CheckHandshakeDone \/ Unpack \/ Route("recv") \/ Forward("recv")
           \/ \E src \in Hosts, dst \in Destinations : CheckSource(src, dst)
  BY <1>3 DEF CheckHandshakeDone, Unpack, Route, Forward, CheckSource
<1> QED BY <1>1, <1>2, <1>3 DEF RecvStep

\* An access of the peer table: a lookup of a peer, with or without a change of
\* its entry.
Accesses(b) ==
  \/ get_tunnel_packet(b) \/ DeriveSession(b) \/ set_handshake_done(b)
  \/ \E ip \in Hosts : set_peer_tun_ip(b, ip)

\* The receive thread accesses the entry of the peer it works on.
LEMMA RecvAccesses ==
  ASSUME TypeOK, RecvStep
  PROVE  \/ UNCHANGED peers
         \/ thr["recv"].addr \in Addr /\ Accesses(thr["recv"].addr)
<1> USE DEF At, allocVars
<1>0. /\ thr["recv"].pc \in Working => thr["recv"].addr \in Addr
      /\ thr["recv"].pc \in Holding => thr["recv"].ip \in Hosts
  BY DEF TypeOK, ThreadOK, Threads
<1>1. CASE Heartbeat \/ VerifyFinished \/ SendAssignment \/ Unpack \/ Forward("recv")
  BY <1>0, <1>1 DEF Heartbeat, VerifyFinished, SendAssignment, Unpack, Forward, Accesses,
                    Working, RecvPCs, AllKinds
<1>2. CASE ClientHello \/ SetHandshakeDone \/ SetPeerTunIP
  BY <1>0, <1>2 DEF ClientHello, SetHandshakeDone, SetPeerTunIP, Accesses,
                    Working, Holding, RecvPCs, AllKinds
<1>3. CASE \/ LookupRaises("recv") \/ Allocate \/ ReuseLease \/ RecordLease \/ AddHostRoute
           \/ CheckHandshakeDone \/ Route("recv")
  <2>1. UNCHANGED peers
    BY <1>3 DEF LookupRaises, Allocate, ReuseLease, RecordLease, AddHostRoute,
                CheckHandshakeDone, Route
  <2> QED BY <2>1
<1>4. CASE \E src \in Hosts, dst \in Destinations : CheckSource(src, dst)
  <2>1. UNCHANGED peers
    BY <1>4 DEF CheckSource
  <2> QED BY <2>1
<1> QED BY <1>1, <1>2, <1>3, <1>4 DEF RecvStep

\* What an access leaves of an entry.
LEMMA AccessKeeps ==
  ASSUME TypeOK, NEW a \in Addr, NEW b \in Addr, Accesses(b)
  PROVE  /\ Known(b)' /\ (Known(a) => Known(a)')
         /\ a # b => peers'[a] = peers[a]
         /\ Known(a)' /\ peers'[a].stale => Known(a) /\ peers[a].stale
         /\ Known(a) /\ peers[a].done => peers'[a].done
         /\ Known(a) /\ get_tunnel_packet(b) => peers'[a] = peers[a]
<1>1. InfoOf(b) \in PeerInfo /\ (Known(b) => InfoOf(b) = peers[b])
      /\ (~Known(b) => ~InfoOf(b).stale)
  BY InfoTyped DEF InfoOf, NewPeer
<1>2. PICK info \in PeerInfo :
        /\ Put(b, info) /\ info.stale = InfoOf(b).stale
        /\ InfoOf(b).done => info.done
  <2>1. CASE get_tunnel_packet(b)
    BY <1>1, <2>1 DEF get_tunnel_packet
  <2>2. CASE DeriveSession(b)
    <3> DEFINE info == [InfoOf(b) EXCEPT !.session = TRUE]
    <3>1. info \in PeerInfo /\ info.stale = InfoOf(b).stale /\ info.done = InfoOf(b).done
      BY <1>1 DEF PeerInfo
    <3> QED BY <2>2, <3>1 DEF DeriveSession
  <2>3. CASE set_handshake_done(b)
    <3> DEFINE info == [InfoOf(b) EXCEPT !.done = TRUE]
    <3>1. info \in PeerInfo /\ info.stale = InfoOf(b).stale /\ info.done
      BY <1>1 DEF PeerInfo
    <3> QED BY <2>3, <3>1 DEF set_handshake_done
  <2>4. ASSUME NEW ip \in Hosts, set_peer_tun_ip(b, ip)
        PROVE  \E info \in PeerInfo :
                 /\ Put(b, info) /\ info.stale = InfoOf(b).stale
                 /\ InfoOf(b).done => info.done
    <3> DEFINE info == [InfoOf(b) EXCEPT !.tun_ip = ip]
    <3>1. info \in PeerInfo /\ info.stale = InfoOf(b).stale /\ info.done = InfoOf(b).done
      BY <1>1 DEF PeerInfo
    <3>2. Put(b, info)
      BY <2>4 DEF set_peer_tun_ip
    <3> HIDE DEF info
    <3> QED BY <2>4, <3>1, <3>2
  <2> QED BY <2>1, <2>2, <2>3, <2>4 DEF Accesses
<1>3. peers' = [peers EXCEPT ![b] = info] /\ peers \in [Addr -> PeerInfo \cup {None}]
  BY <1>2 DEF Put, TypeOK
<1>4. info # None
  BY EntryAssumption
<1>5. peers'[b] = info /\ (a # b => peers'[a] = peers[a])
  BY <1>3
<1>6. CASE a = b
  <2>1. Known(a) /\ get_tunnel_packet(b) => peers'[a] = peers[a]
    BY <1>1, <1>3, <1>6 DEF get_tunnel_packet, Put
  <2> QED BY <1>1, <1>2, <1>4, <1>5, <1>6, <2>1 DEF Known
<1>7. CASE a # b
  BY <1>4, <1>5, <1>7 DEF Known
<1> QED BY <1>6, <1>7

-----------------------------------------------------------------------------
(* Time-outs, as long as the operator disconnects nobody.                  *)

Stale(a) == Known(a) /\ peers[a].stale

\* The receive thread works on no silent peer, but may forward to one.
SilentIsNotServed ==
  \A a \in Addr : thr["recv"].addr = a /\ ~At("recv", "forward") => ~Stale(a)

\* What the heartbeat thread has taken from a peer that is still silent has
\* not come back.
SilentIsForgotten ==
  \A a \in Addr :
    thr["beat"].addr = a /\ Stale(a) =>
      /\ thr["beat"].pc \in {"discard", "routes_read", "routes_write", "del"} => get_ip(a) = None
      /\ At("beat", "del") => \A ip \in Hosts : host_routes[ip] # a

TimeoutInv ==
  thr["operator"] = Idle /\ SilentIsNotServed /\ SilentIsForgotten

\* Without an operator, it is the other threads and the clients that move.
LEMMA NobodyDisconnected ==
  ASSUME TypeOK, [Next]_vars, thr["operator"] = Idle, Removable = {}
  PROVE  /\ thr'["operator"] = Idle
         /\ \/ RecvStep \/ TunStep \/ BeatStep
            \/ \E a \in Addr, kind \in Kinds : Receive(a, kind)
            \/ \E a \in Addr : FallSilent(a)
            \/ \E dst \in HostTraffic : ReadTun(dst)
            \/ UNCHANGED vars
<1>1. ~OperatorStep
  BY DEF OperatorStep, OperatorGetIP, CleanStep, CheckLease, PopLease, DiscardAddress,
         ReadRoutes, WriteRoutes, DeletePeer, At, Idle
<1>2. \A a \in Addr : ~DisconnectPeer(a)
  BY DEF DisconnectPeer
<1>3. \/ RecvStep \/ TunStep \/ BeatStep
      \/ \E a \in Addr, kind \in Kinds : Receive(a, kind)
      \/ \E a \in Addr : FallSilent(a)
      \/ \E dst \in HostTraffic : ReadTun(dst)
      \/ UNCHANGED vars
  BY <1>1, <1>2 DEF Next, Environment
<1>4. "operator" \in Threads
  BY DEF Threads
<1>5. thr'["operator"] = thr["operator"]
  BY <1>3, <1>4, Bystanders DEF vars
<1> QED BY <1>3, <1>5

\* The heartbeat thread makes nobody silent, and drops entries.
LEMMA BeatDrops ==
  ASSUME TypeOK, BeatStep
  PROVE  UNCHANGED peers \/ \E b \in Addr : Delete(b)
<1> USE DEF At, allocVars
<1>1. CASE DeletePeer("beat")
  <2>1. thr["beat"].addr \in Addr
    BY <1>1 DEF DeletePeer, TypeOK, ThreadOK, Threads, Working, CleanPCs
  <2> QED BY <1>1, <2>1 DEF DeletePeer
<1>2. CASE \/ CheckLease("beat") \/ PopLease("beat") \/ DiscardAddress("beat")
           \/ ReadRoutes("beat") \/ WriteRoutes("beat")
  BY <1>2 DEF CheckLease, PopLease, DiscardAddress, ReadRoutes, WriteRoutes
<1>3. CASE \/ BeginRound \/ ScanRaises \/ EndScan \/ EndRound
           \/ \E a \in Addr : Visit(a) \/ Reap(a)
  BY <1>3 DEF BeginRound, ScanRaises, EndScan, EndRound, Visit, Reap
<1> QED BY <1>1, <1>2, <1>3 DEF BeatStep, CleanStep

\* A peer is silent because it fell silent: no access of its entry, and no
\* entry made anew, makes it so.
LEMMA SilenceFalls ==
  ASSUME TypeOK, NEW a \in Addr, ~Stale(a),
         \/ RecvStep \/ TunStep \/ BeatStep
         \/ \E b \in Addr, kind \in Kinds : Receive(b, kind)
         \/ \E dst \in HostTraffic : ReadTun(dst)
         \/ UNCHANGED peers
  PROVE  ~Stale(a)'
<1>1. CASE UNCHANGED peers
  BY <1>1 DEF Stale, Known
<1>2. ASSUME NEW b \in Addr, Accesses(b) PROVE ~Stale(a)'
  BY <1>2, AccessKeeps DEF Stale
<1>3. CASE RecvStep
  BY <1>1, <1>2, <1>3, RecvAccesses
<1>4. CASE TunStep
  <2>1. CASE Forward("tun")
    <3>1. thr["tun"].addr \in Addr
      BY <2>1 DEF Forward, At, TypeOK, ThreadOK, Threads, Working, RecvPCs
    <3> QED BY <1>2, <2>1, <3>1 DEF Forward, Accesses
  <2> QED BY <1>1, <1>4, <2>1 DEF TunStep, Route, LookupRaises
<1>5. CASE BeatStep
  <2>1. ASSUME NEW b \in Addr, Delete(b) PROVE ~Stale(a)'
    BY <2>1 DEF Delete, Stale, Known, TypeOK
  <2> QED BY <1>1, <1>5, <2>1, BeatDrops
<1>6. ASSUME NEW b \in Addr, NEW kind \in Kinds, Receive(b, kind) PROVE ~Stale(a)'
  <2> DEFINE info == [InfoOf(b) EXCEPT !.stale = FALSE]
  <2>1. peers' = [peers EXCEPT ![b] = info] /\ info.stale = FALSE
    BY <1>6, InfoTyped DEF Receive, Touch, Put, PeerInfo
  <2> HIDE DEF info
  <2> QED BY <2>1 DEF Stale, Known, TypeOK
<1>7. CASE \E dst \in HostTraffic : ReadTun(dst)
  BY <1>1, <1>7 DEF ReadTun
<1> QED BY <1>1, <1>3, <1>4, <1>5, <1>6, <1>7

\* The receive thread turns to a peer because a packet came from it, or one is
\* to be forwarded to it.
LEMMA RecvAddress ==
  ASSUME TypeOK, RecvStep
  PROVE  \/ thr'["recv"].addr = None
         \/ At("recv", "forward")'
         \/ thr'["recv"].addr = thr["recv"].addr /\ ~At("recv", "forward")
<1> USE DEF At
<1>0. "recv" \in Threads
  BY DEF Threads
<1>1. Finish("recv") => thr'["recv"].addr = None
  BY <1>0, Started
<1>2. CASE LookupRaises("recv") \/ Heartbeat \/ ClientHello \/ SendAssignment \/ Forward("recv")
  BY <1>1, <1>2 DEF LookupRaises, Heartbeat, ClientHello, SendAssignment, Forward
<1>3. ASSUME NEW p, \/ Goto("recv", p)
                    \/ \E i : Become("recv", [thr["recv"] EXCEPT !.pc = p, !.ip = i])
      PROVE  thr'["recv"].addr = thr["recv"].addr
  BY <1>0, <1>3, Moved
<1>4. CASE VerifyFinished \/ SetHandshakeDone \/ RecordLease \/ SetPeerTunIP \/ AddHostRoute
           \/ CheckHandshakeDone \/ Unpack
  BY <1>1, <1>3, <1>4 DEF VerifyFinished, SetHandshakeDone, RecordLease, SetPeerTunIP,
                          AddHostRoute, CheckHandshakeDone, Unpack
<1>5. CASE Allocate \/ ReuseLease
  BY <1>1, <1>3, <1>5 DEF Allocate, ReuseLease
<1>6. CASE \E src \in Hosts, dst \in Destinations : CheckSource(src, dst)
  BY <1>0, <1>1, <1>6, Started DEF CheckSource
<1>7. CASE Route("recv")
  BY <1>0, <1>1, <1>7, Started DEF Route
<1> QED BY <1>2, <1>4, <1>5, <1>6, <1>7 DEF RecvStep

\* The clean-up, step by step.
LEMMA BeatForgets ==
  ASSUME TypeOK, BeatStep, SilentIsForgotten, NEW a \in Addr,
         thr'["beat"].addr = a, Stale(a)'
  PROVE  /\ thr'["beat"].pc \in {"discard", "routes_read", "routes_write", "del"}
              => get_ip(a)' = None
         /\ At("beat", "del")' => \A ip \in Hosts : host_routes'[ip] # a
<1> USE DEF At, get_ip
<1>0. "beat" \in Threads
  BY DEF Threads
<1>1. Stale(a)
  BY SilenceFalls
<1>2. /\ Finish("beat") => thr'["beat"].pc = "idle"
      /\ \A p : Become("beat", [Idle EXCEPT !.pc = p]) => thr'["beat"].pc = p
      /\ \A p, b : Become("beat", [Idle EXCEPT !.pc = p, !.addr = b]) => thr'["beat"].pc = p
  BY <1>0, Started
<1>3. ASSUME NEW p, \/ Goto("beat", p)
                    \/ \E i : Become("beat", [thr["beat"] EXCEPT !.pc = p, !.ip = i])
                    \/ \E r : Become("beat", [thr["beat"] EXCEPT !.pc = p, !.routes = r])
      PROVE  thr'["beat"].pc = p /\ thr["beat"].addr = a
  BY <1>0, <1>3, Moved
<1>4. Raise("beat") => thr'["beat"].pc = "dead"
  BY <1>2 DEF Raise
<1>5. CASE BeginRound \/ ScanRaises \/ EndScan \/ EndRound
  <2>1. thr'["beat"].pc \in {"scan", "dead", "reap", "idle"}
    BY <1>2, <1>3, <1>5 DEF BeginRound, ScanRaises, EndScan, EndRound
  <2> QED BY <2>1
<1>6. ASSUME NEW b \in Addr, Visit(b) \/ Reap(b)
      PROVE  thr'["beat"].pc \in {"scan", "release"}
  <2>1. CASE Visit(b)
    BY <2>1 DEF Visit
  <2>2. CASE Reap(b)
    BY <1>2, <2>2 DEF Reap
  <2> QED BY <1>6, <2>1, <2>2
<1>7. CASE CheckLease("beat")
  <2>1. CASE get_ip(thr["beat"].addr) # None /\ Goto("beat", "pop")
    <3>1. thr'["beat"].pc = "pop"
      BY <1>3, <2>1
    <3> QED BY <3>1
  <2>2. CASE get_ip(thr["beat"].addr) = None /\ Goto("beat", "routes_read")
    <3>1. thr'["beat"].pc = "routes_read" /\ thr["beat"].addr = a
      BY <1>3, <2>2
    <3>2. UNCHANGED alloc_map
      BY <1>7 DEF CheckLease, allocVars
    <3> QED BY <2>2, <3>1, <3>2
  <2> QED BY <1>7, <2>1, <2>2 DEF CheckLease
<1>8. CASE PopLease("beat")
  <2>1. CASE Raise("beat")
    BY <1>4, <2>1
  <2>2. CASE /\ Pop(thr["beat"].addr)
             /\ \E i : Become("beat", [thr["beat"] EXCEPT !.pc = "discard", !.ip = i])
    <3>1. thr'["beat"].pc = "discard" /\ thr["beat"].addr = a
      BY <1>3, <2>2
    <3>2. alloc_map'[a] = None
      BY <2>2, <3>1 DEF Pop, TypeOK
    <3> QED BY <3>1, <3>2
  <2> QED BY <1>8, <2>1, <2>2 DEF PopLease
<1>9. CASE DiscardAddress("beat")
  <2>1. \E i : Become("beat", [thr["beat"] EXCEPT !.pc = "routes_read", !.ip = i])
    BY <1>9 DEF DiscardAddress
  <2>2. thr'["beat"].pc = "routes_read" /\ thr["beat"].addr = a
    BY <1>3, <2>1
  <2>3. UNCHANGED alloc_map
    BY <1>9 DEF DiscardAddress, Discard
  <2>4. get_ip(a) = None
    BY <1>1, <1>9, <2>2 DEF SilentIsForgotten, DiscardAddress
  <2> QED BY <2>2, <2>3, <2>4
<1>10. CASE ReadRoutes("beat")
  <2>1. \E r : Become("beat", [thr["beat"] EXCEPT !.pc = "routes_write", !.routes = r])
    BY <1>10 DEF ReadRoutes
  <2>2. thr'["beat"].pc = "routes_write" /\ thr["beat"].addr = a
    BY <1>3, <2>1
  <2>3. UNCHANGED alloc_map
    BY <1>10 DEF ReadRoutes, allocVars
  <2>4. get_ip(a) = None
    BY <1>1, <1>10, <2>2 DEF SilentIsForgotten, ReadRoutes
  <2> QED BY <2>2, <2>3, <2>4
<1>11. CASE WriteRoutes("beat")
  <2>1. CASE Raise("beat")
    BY <1>4, <2>1
  <2>2. CASE /\ host_routes' = WithoutPeer(thr["beat"].routes, thr["beat"].addr)
             /\ Become("beat", [thr["beat"] EXCEPT !.pc = "del", !.routes = None])
    <3>1. \E r : Become("beat", [thr["beat"] EXCEPT !.pc = "del", !.routes = r])
      BY <2>2
    <3>2. thr'["beat"].pc = "del" /\ thr["beat"].addr = a
      BY <1>3, <3>1
    <3>3. UNCHANGED alloc_map
      BY <1>11 DEF WriteRoutes, allocVars
    <3>4. get_ip(a) = None
      BY <1>1, <1>11, <3>2 DEF SilentIsForgotten, WriteRoutes
    <3>5. \A ip \in Hosts : host_routes'[ip] # a
      BY <2>2, <3>2, PoolAssumption DEF WithoutPeer
    <3> QED BY <3>2, <3>3, <3>4, <3>5
  <2> QED BY <1>11, <2>1, <2>2 DEF WriteRoutes
<1>12. CASE DeletePeer("beat")
  <2>1. thr'["beat"].pc \in {"reap", "dead"}
    BY <1>2, <1>4, <1>12 DEF DeletePeer
  <2> QED BY <2>1
<1> QED BY <1>5, <1>6, <1>7, <1>8, <1>9, <1>10, <1>11, <1>12 DEF BeatStep, CleanStep

\* Every step keeps what is said of silent peers.
LEMMA StepTimeout ==
  ASSUME Removable = {}, TypeOK, TimeoutInv, [Next]_vars
  PROVE  TimeoutInv'
<1>0. "recv" \in Threads /\ "beat" \in Threads /\ None \notin Addr
  BY PoolAssumption DEF Threads
<1>1. /\ thr'["operator"] = Idle
      /\ \/ RecvStep \/ TunStep \/ BeatStep
         \/ \E a \in Addr, kind \in Kinds : Receive(a, kind)
         \/ \E a \in Addr : FallSilent(a)
         \/ \E dst \in HostTraffic : ReadTun(dst)
         \/ UNCHANGED vars
  BY NobodyDisconnected DEF TimeoutInv
<1>2. CASE RecvStep
  <2>1. thr'["beat"] = thr["beat"]
    BY <1>0, <1>2, Bystanders
  <2>2. SilentIsNotServed'
    <3> SUFFICES ASSUME NEW a \in Addr, thr'["recv"].addr = a, ~At("recv", "forward")'
                 PROVE  ~Stale(a)'
      BY DEF SilentIsNotServed
    <3>1. thr["recv"].addr = a /\ ~At("recv", "forward")
      BY <1>0, <1>2, RecvAddress
    <3>2. ~Stale(a)
      BY <3>1 DEF TimeoutInv, SilentIsNotServed
    <3> QED BY <1>2, <3>2, SilenceFalls
  <2>3. SilentIsForgotten'
    <3> SUFFICES ASSUME NEW a \in Addr, thr["beat"].addr = a, Stale(a)'
                 PROVE  /\ thr["beat"].pc \in {"discard", "routes_read", "routes_write", "del"}
                             => get_ip(a)' = None
                        /\ At("beat", "del") => \A ip \in Hosts : host_routes'[ip] # a
      BY <2>1 DEF SilentIsForgotten, At
    <3>1. Stale(a)
      BY <1>2, SilenceFalls
    <3>2. thr["recv"].addr # a \/ At("recv", "forward")
      BY <3>1 DEF TimeoutInv, SilentIsNotServed
    <3>3. alloc_map'[a] = alloc_map[a]
      <4>1. CASE RecordLease
        BY <3>2, <4>1 DEF RecordLease, Record, At, TypeOK
      <4> QED BY <1>2, <4>1, RecvTables
    <3>4. \A ip \in Hosts : host_routes'[ip] = a => host_routes[ip] = a
      <4>1. CASE AddHostRoute
        <5>1. thr["recv"].addr # a
          BY <3>2, <4>1 DEF AddHostRoute, At
        <5> QED BY <4>1, <5>1 DEF AddHostRoute, add_host_route, TypeOK, Routes
      <4> QED BY <1>2, <4>1, RecvTables
    <3> QED BY <3>1, <3>3, <3>4 DEF TimeoutInv, SilentIsForgotten, get_ip
  <2> QED BY <1>1, <2>2, <2>3 DEF TimeoutInv
<1>3. CASE BeatStep
  <2>1. SilentIsForgotten'
    BY <1>3, BeatForgets DEF TimeoutInv, SilentIsForgotten
  <2>2. thr'["recv"] = thr["recv"]
    BY <1>0, <1>3, Bystanders
  <2>3. SilentIsNotServed'
    BY <1>3, <2>2, SilenceFalls DEF TimeoutInv, SilentIsNotServed, At
  <2> QED BY <1>1, <2>1, <2>3 DEF TimeoutInv
<1>4. ASSUME UNCHANGED <<alloc_map, host_routes>>, thr'["beat"] = thr["beat"],
             \A a \in Addr : ~Stale(a) => ~Stale(a)'
      PROVE  SilentIsForgotten'
  BY <1>4 DEF TimeoutInv, SilentIsForgotten, get_ip, At
<1>5. CASE TunStep \/ \E dst \in HostTraffic : ReadTun(dst)
  <2>1. thr'["recv"] = thr["recv"] /\ thr'["beat"] = thr["beat"]
    BY <1>0, <1>5, Bystanders
  <2>2. UNCHANGED <<alloc_map, host_routes>>
    BY <1>5 DEF TunStep, Route, Forward, LookupRaises, ReadTun, allocVars
  <2>3. \A a \in Addr : ~Stale(a) => ~Stale(a)'
    BY <1>5, SilenceFalls
  <2>4. SilentIsNotServed'
    BY <2>1, <2>3 DEF TimeoutInv, SilentIsNotServed, At
  <2> QED BY <1>1, <1>4, <2>1, <2>2, <2>3, <2>4 DEF TimeoutInv
<1>6. ASSUME NEW b \in Addr, NEW kind \in Kinds, Receive(b, kind) PROVE TimeoutInv'
  <2>1. thr'["beat"] = thr["beat"] /\ UNCHANGED <<alloc_map, host_routes>>
    BY <1>0, <1>6, Bystanders DEF Receive, allocVars
  <2>2. \A a \in Addr : ~Stale(a) => ~Stale(a)'
    BY <1>6, SilenceFalls
  <2>3. thr'["recv"].addr = b
    <3>1. [Idle EXCEPT !.pc = kind, !.addr = b].addr = b
      BY DEF Idle
    <3> QED BY <1>0, <1>6, <3>1, OneMoves DEF Receive
  <2>4. ~Stale(b)'
    <3>1. peers' = [peers EXCEPT ![b] = [InfoOf(b) EXCEPT !.stale = FALSE]]
      BY <1>6 DEF Receive, Touch, Put
    <3>2. peers'[b].stale = FALSE
      BY <3>1, InfoTyped DEF TypeOK, PeerInfo
    <3> QED BY <3>2 DEF Stale
  <2>5. SilentIsNotServed'
    BY <2>3, <2>4 DEF SilentIsNotServed
  <2> QED BY <1>1, <1>4, <2>1, <2>2, <2>5 DEF TimeoutInv
<1>7. ASSUME NEW b \in Addr, FallSilent(b) PROVE TimeoutInv'
  <2>1. /\ UNCHANGED thr /\ At("beat", "idle") /\ thr["recv"].addr # b
        /\ peers' = [peers EXCEPT ![b] = [peers[b] EXCEPT !.stale = TRUE]]
    BY <1>7 DEF FallSilent, Put
  <2>2. \A a \in Addr : a # b => Stale(a)' = Stale(a)
    BY <2>1 DEF Stale, Known, TypeOK
  <2>3. SilentIsNotServed'
    BY <2>1, <2>2 DEF TimeoutInv, SilentIsNotServed, At
  <2>4. SilentIsForgotten'
    BY <2>1 DEF SilentIsForgotten, At
  <2> QED BY <1>1, <2>3, <2>4 DEF TimeoutInv
<1>8. CASE UNCHANGED vars
  BY <1>8 DEF vars, allocVars, TimeoutInv, SilentIsNotServed, SilentIsForgotten, Stale, Known,
              At, get_ip
<1> QED BY <1>1, <1>2, <1>3, <1>5, <1>6, <1>7, <1>8

\* By the time the heartbeat thread drops the entry of a silent peer
\* (_heartbeat_loop of src/tunnel_transport.py after _on_peer_disconnected of
\* src/vpn_server.py), its lease and its routes are gone, for any clients and
\* any pool, as long as no operator disconnects a peer at the same time: the
\* operator's remove_peer_routes can put the routes of others back.
THEOREM CleanupIsComplete ==
  ASSUME Removable = {}
  PROVE  Spec => []CleanupComplete
<1>1. Init => TimeoutInv
  <2> SUFFICES ASSUME Init PROVE TimeoutInv
    OBVIOUS
  <2>1. \A t \in Threads : thr[t] = Idle
    BY DEF Init
  <2>2. Idle.addr \notin Addr
    BY PoolAssumption DEF Idle
  <2> QED BY <2>1, <2>2 DEF TimeoutInv, SilentIsNotServed, SilentIsForgotten, Threads
<1>2. TypeOK /\ TimeoutInv /\ [Next]_vars => TimeoutInv'
  BY StepTimeout
<1>3. TimeoutInv => CleanupComplete
  BY DEF TimeoutInv, SilentIsForgotten, CleanupComplete, Stale, At
<1> QED BY <1>1, <1>2, <1>3, TypeCorrect, PTL DEF Spec

-----------------------------------------------------------------------------
(* Nobody goes away.                                                       *)

\* Nobody is silent, so the heartbeat thread has nothing to clean up.
NobodyLeaves ==
  /\ thr["operator"] = Idle
  /\ thr["beat"].pc \in {"idle", "scan", "reap", "dead"}
  /\ scan.expired = {} /\ \A a \in Addr : ~Stale(a)

Handling == {"set_done", "allocate", "reuse", "record", "set_ip", "add_route", "assign"}

\* How far the receive thread is with a peer's address.
AssignmentBuilt ==
  LET a == thr["recv"].addr
      ip == thr["recv"].ip
  IN /\ thr["recv"].pc \in Handling => Known(a)
     /\ thr["recv"].pc \in Handling \ {"set_done"} => peers[a].done
     /\ thr["recv"].pc \in {"set_ip", "add_route", "assign"} => get_ip(a) = ip
     /\ thr["recv"].pc \in {"add_route", "assign"} => peers[a].tun_ip = ip
     /\ At("recv", "assign") => host_routes[ip] = a

\* A lease is routed, or the receive thread is about to add the route.
LeasesAreRouted ==
  \A a \in Addr : get_ip(a) # None =>
    \/ host_routes[get_ip(a)] = a
    \/ thr["recv"].addr = a /\ thr["recv"].pc \in {"set_ip", "add_route"}

SteadyInv == NobodyLeaves /\ AssignmentBuilt /\ LeasesAreRouted

\* The heartbeat thread goes round and changes no table.
LEMMA NobodyReaped ==
  ASSUME TypeOK, NobodyLeaves, BeatStep
  PROVE  /\ UNCHANGED <<peers, alloc_map, host_routes>>
         /\ thr'["beat"].pc \in {"idle", "scan", "reap", "dead"}
         /\ scan'.expired = {}
<1> USE DEF At
<1>0. "beat" \in Threads
  BY DEF Threads
<1>1. ~CleanStep("beat")
  BY DEF CleanStep, CheckLease, PopLease, DiscardAddress, ReadRoutes, WriteRoutes, DeletePeer,
         NobodyLeaves
<1>2. \A a \in Addr : ~Reap(a)
  BY DEF Reap, NobodyLeaves
<1>3. NoScan.expired = {} /\ scan.expired = {}
      /\ scan \in [size : Nat, visited : SUBSET Addr, expired : SUBSET Addr]
  BY DEF NoScan, NobodyLeaves, TypeOK
<1>4. /\ \A p : Goto("beat", p) => thr'["beat"].pc = p
      /\ Finish("beat") => thr'["beat"].pc = "idle"
  BY <1>0, Moved, Started
<1>5. CASE BeginRound
  <2>1. thr'["beat"].pc = "scan" /\ UNCHANGED <<peers, alloc_map, host_routes>>
    BY <1>4, <1>5 DEF BeginRound, allocVars
  <2>2. scan' = [NoScan EXCEPT !.size = Cardinality(KnownPeers)]
    BY <1>5 DEF BeginRound
  <2> QED BY <2>1, <2>2 DEF NoScan
<1>6. CASE ScanRaises
  BY <1>3, <1>4, <1>6 DEF ScanRaises, allocVars
<1>7. CASE EndScan
  <2>1. thr'["beat"].pc = "reap" /\ UNCHANGED <<peers, alloc_map, host_routes>>
    BY <1>4, <1>7 DEF EndScan, allocVars
  <2>2. scan' = [NoScan EXCEPT !.expired = {}]
    BY <1>3, <1>7 DEF EndScan
  <2> QED BY <2>1, <2>2 DEF NoScan
<1>8. CASE EndRound
  BY <1>3, <1>4, <1>8 DEF EndRound, allocVars
<1>9. ASSUME NEW a \in Addr, Visit(a)
      PROVE  /\ UNCHANGED <<peers, alloc_map, host_routes>>
             /\ thr'["beat"].pc \in {"idle", "scan", "reap", "dead"}
             /\ scan'.expired = {}
  <2>1. ~peers[a].stale
    BY <1>9 DEF Visit, KnownPeers, NobodyLeaves, Stale
  <2>2. scan' = [scan EXCEPT !.visited = @ \cup {a}, !.expired = {}]
    BY <1>3, <1>9, <2>1 DEF Visit
  <2>3. scan'.expired = {}
    BY <1>3, <2>2
  <2> QED BY <1>9, <2>3 DEF Visit, allocVars
<1> QED BY <1>1, <1>2, <1>5, <1>6, <1>7, <1>8, <1>9 DEF BeatStep

\* As long as nobody is silent and no operator disconnects a peer, nobody
\* leaves.
LEMMA StepNobodyLeaves ==
  ASSUME Silent = {}, Removable = {}, TypeOK, NobodyLeaves, [Next]_vars
  PROVE  NobodyLeaves'
<1>0. "beat" \in Threads
  BY DEF Threads
<1>1. /\ thr'["operator"] = Idle
      /\ \/ RecvStep \/ TunStep \/ BeatStep
         \/ \E a \in Addr, kind \in Kinds : Receive(a, kind)
         \/ \E dst \in HostTraffic : ReadTun(dst)
         \/ UNCHANGED vars
  BY NobodyDisconnected DEF NobodyLeaves, FallSilent
<1>2. \A a \in Addr : ~Stale(a)'
  BY <1>1, SilenceFalls DEF NobodyLeaves, vars
<1>3. CASE BeatStep
  BY <1>1, <1>2, <1>3, NobodyReaped DEF NobodyLeaves
<1>4. CASE \/ RecvStep \/ TunStep
           \/ \E a \in Addr, kind \in Kinds : Receive(a, kind)
           \/ \E dst \in HostTraffic : ReadTun(dst)
           \/ UNCHANGED vars
  <2>1. thr'["beat"] = thr["beat"]
    BY <1>0, <1>4, Bystanders DEF vars
  <2>2. CASE RecvStep
    <3>1. UNCHANGED scan
      BY <2>2 DEF RecvStep, LookupRaises, Heartbeat, ClientHello, VerifyFinished,
             SetHandshakeDone, Allocate, ReuseLease, RecordLease, SetPeerTunIP, AddHostRoute,
             SendAssignment, CheckHandshakeDone, Unpack, CheckSource, Route, Forward
    <3> QED BY <1>1, <1>2, <2>1, <3>1 DEF NobodyLeaves
  <2>3. CASE ~RecvStep
    <3>1. UNCHANGED scan
      BY <1>4, <2>3 DEF TunStep, Route, Forward, LookupRaises, Receive, ReadTun, vars
    <3> QED BY <1>1, <1>2, <2>1, <3>1 DEF NobodyLeaves
  <2> QED BY <2>2, <2>3
<1> QED BY <1>1, <1>3, <1>4

\* A receive thread that hands nobody an address, before or after its step,
\* leaves the tables as they agree.
LEMMA NothingHandedOut ==
  ASSUME LeasesAreRouted, UNCHANGED <<alloc_map, host_routes>>,
         thr["recv"].pc \notin {"set_ip", "add_route"}, thr'["recv"].pc \notin Handling
  PROVE  AssignmentBuilt' /\ LeasesAreRouted'
<1>1. AssignmentBuilt'
  BY DEF AssignmentBuilt, Handling, At
<1>2. LeasesAreRouted'
  BY DEF LeasesAreRouted, get_ip
<1> QED BY <1>1, <1>2

\* The other threads, and accesses that change no entry, disturb nothing.
LEMMA OthersHandNothingOut ==
  ASSUME TypeOK, AssignmentBuilt, LeasesAreRouted, thr'["recv"] = thr["recv"],
         UNCHANGED <<alloc_map, host_routes>>,
         \A a \in Addr : Known(a) => peers'[a] = peers[a]
  PROVE  AssignmentBuilt' /\ LeasesAreRouted'
<1>1. thr["recv"].pc \in Handling => thr["recv"].addr \in Addr
  BY DEF TypeOK, ThreadOK, Threads, Working, RecvPCs, Handling
<1>2. LeasesAreRouted'
  BY DEF LeasesAreRouted, get_ip
<1>3. AssignmentBuilt'
  <2>1. CASE thr["recv"].pc \notin Handling
    BY <2>1 DEF AssignmentBuilt, Handling, At
  <2>2. CASE thr["recv"].pc \in Handling
    <3>1. peers'[thr["recv"].addr] = peers[thr["recv"].addr]
      BY <1>1, <2>2 DEF AssignmentBuilt
    <3> QED BY <3>1 DEF AssignmentBuilt, get_ip, Known, At
  <2> QED BY <2>1, <2>2
<1> QED BY <1>2, <1>3

\* The receive thread hands out an address step by step: the entry has its key
\* first, then the lease, then its tun_ip, then its route.
LEMMA RecvHandsOut ==
  ASSUME IInv, NobodyLeaves, AssignmentBuilt, LeasesAreRouted, RecvStep
  PROVE  AssignmentBuilt' /\ LeasesAreRouted'
<1> DEFINE a == thr["recv"].addr
           ip == thr["recv"].ip
<1> USE DEF At, get_ip
<1>0. /\ TypeOK /\ "recv" \in Threads
      /\ thr["recv"].pc \in Handling => a \in Addr
      /\ thr["recv"].pc \in Holding => ip \in Hosts
  BY DEF IInv, TypeOK, ThreadOK, Threads, Working, RecvPCs, Handling
<1>1. Finish("recv") => thr'["recv"].pc \notin Handling
  BY <1>0, Started DEF Handling
<1>2. ASSUME NEW p, Goto("recv", p) PROVE thr'["recv"] = [thr["recv"] EXCEPT !.pc = p]
  BY <1>0, <1>2, OneMoves DEF Goto
<1>3. thr["recv"] \in Locals("recv")
  BY <1>0 DEF TypeOK, ThreadOK
<1>4. ASSUME NEW p, Goto("recv", p)
      PROVE  thr'["recv"].pc = p /\ thr'["recv"].addr = a /\ thr'["recv"].ip = ip
  BY <1>2, <1>3, <1>4 DEF Locals
<1>5. ASSUME NEW p, NEW i, Become("recv", [thr["recv"] EXCEPT !.pc = p, !.ip = i])
      PROVE  thr'["recv"].pc = p /\ thr'["recv"].addr = a /\ thr'["recv"].ip = i
  <2>1. thr'["recv"] = [thr["recv"] EXCEPT !.pc = p, !.ip = i]
    BY <1>0, <1>5, OneMoves
  <2> QED BY <1>3, <2>1 DEF Locals
<1>K. ASSUME NEW b \in Addr, Accesses(b)
      PROVE  peers'[b] # None /\ (Known(b) /\ peers[b].done => peers'[b].done)
  BY <1>0, <1>K, AccessKeeps DEF Known
<1>6. CASE LookupRaises("recv")
  <2>1. thr["recv"].pc \notin Handling
    BY <1>6 DEF LookupRaises, AssignmentBuilt
  <2>2. thr["recv"].pc \notin {"set_ip", "add_route"}
    BY <2>1 DEF Handling
  <2>3. UNCHANGED <<alloc_map, host_routes>> /\ Finish("recv")
    BY <1>6 DEF LookupRaises, allocVars
  <2> QED BY <1>1, <2>2, <2>3, NothingHandedOut
<1>7. CASE Heartbeat \/ ClientHello \/ SendAssignment \/ Forward("recv")
  <2>1. thr["recv"].pc \notin {"set_ip", "add_route"}
    BY <1>7 DEF Heartbeat, ClientHello, SendAssignment, Forward
  <2>2. UNCHANGED <<alloc_map, host_routes>> /\ Finish("recv")
    BY <1>7 DEF Heartbeat, ClientHello, SendAssignment, Forward, allocVars
  <2> QED BY <1>1, <2>1, <2>2, NothingHandedOut
<1>8. CASE CheckHandshakeDone \/ Unpack \/ Route("recv")
           \/ \E src \in Hosts, dst \in Destinations : CheckSource(src, dst)
  <2>1. thr["recv"].pc \in {"data", "unpack", "route", "source"}
    BY <1>8 DEF CheckHandshakeDone, Unpack, Route, CheckSource
  <2>2. UNCHANGED <<alloc_map, host_routes>>
    BY <1>8 DEF CheckHandshakeDone, Unpack, Route, CheckSource, allocVars
  <2>3. thr'["recv"].pc \notin Handling
    <3>1. CASE CheckHandshakeDone
      BY <1>1, <1>4, <3>1 DEF CheckHandshakeDone, Handling
    <3>2. CASE Unpack
      BY <1>1, <1>4, <3>2 DEF Unpack, Handling
    <3>3. CASE Route("recv")
      <4>1. thr'["recv"].pc \in {"idle", "forward"}
        BY <1>0, <3>3, Started DEF Route
      <4> QED BY <4>1 DEF Handling
    <3>4. CASE \E src \in Hosts, dst \in Destinations : CheckSource(src, dst)
      <4>1. thr'["recv"].pc \in {"idle", "route"}
        BY <1>0, <3>4, Started DEF CheckSource
      <4> QED BY <4>1 DEF Handling
    <3> QED BY <1>8, <3>1, <3>2, <3>3, <3>4
  <2> QED BY <2>1, <2>2, <2>3, NothingHandedOut
<1>9. CASE VerifyFinished
  <2>1. /\ thr["recv"].pc \notin {"set_ip", "add_route"} /\ a \in Addr
        /\ UNCHANGED <<alloc_map, host_routes>> /\ get_tunnel_packet(a)
    BY <1>0, <1>9 DEF VerifyFinished, allocVars, TypeOK, ThreadOK, Working, RecvPCs, AllKinds
  <2>2. CASE Finish("recv")
    BY <1>1, <2>1, <2>2, NothingHandedOut
  <2>3. CASE Goto("recv", "set_done")
    <3>1. thr'["recv"].pc = "set_done" /\ thr'["recv"].addr = a
      BY <1>4, <2>3
    <3>2. peers'[a] # None
      BY <1>K, <2>1 DEF Accesses
    <3>3. AssignmentBuilt'
      BY <3>1, <3>2 DEF AssignmentBuilt, Known, Handling
    <3>4. LeasesAreRouted'
      BY <2>1, <3>1 DEF LeasesAreRouted
    <3> QED BY <3>3, <3>4
  <2> QED BY <1>9, <2>2, <2>3 DEF VerifyFinished
<1>10. CASE SetHandshakeDone
  <2>1. /\ thr["recv"].pc = "set_done" /\ a \in Addr
        /\ UNCHANGED <<alloc_map, host_routes>> /\ set_handshake_done(a)
        /\ Goto("recv", "allocate")
    BY <1>0, <1>10 DEF SetHandshakeDone, allocVars, Handling
  <2>2. thr'["recv"].pc = "allocate" /\ thr'["recv"].addr = a
    BY <1>4, <2>1
  <2>3. peers'[a] # None
    BY <1>K, <2>1 DEF Accesses
  <2>4. peers'[a].done
    <3>1. peers' = [peers EXCEPT ![a] = [InfoOf(a) EXCEPT !.done = TRUE]]
      BY <2>1 DEF set_handshake_done, Put
    <3>2. peers'[a] = [InfoOf(a) EXCEPT !.done = TRUE]
      BY <1>0, <2>1, <3>1 DEF TypeOK
    <3>3. InfoOf(a) \in PeerInfo
      BY <1>0, <2>1, InfoTyped
    <3>4. [InfoOf(a) EXCEPT !.done = TRUE].done
      BY <3>3 DEF PeerInfo
    <3> QED BY <3>2, <3>4
  <2>5. AssignmentBuilt'
    BY <2>2, <2>3, <2>4 DEF AssignmentBuilt, Known, Handling
  <2>6. LeasesAreRouted'
    BY <2>1, <2>2 DEF LeasesAreRouted
  <2> QED BY <2>5, <2>6
<1>11. CASE Allocate
  <2>1. /\ thr["recv"].pc = "allocate" /\ a \in Addr /\ Known(a) /\ peers[a].done
        /\ UNCHANGED <<peers, alloc_map, host_routes>>
    BY <1>0, <1>11 DEF Allocate, Reserve, allocVars, Handling, AssignmentBuilt
  <2>2. CASE Finish("recv")
    BY <1>1, <2>1, <2>2, NothingHandedOut
  <2>3. CASE Goto("recv", "reuse") \/ \E i : Become("recv", [thr["recv"] EXCEPT !.pc = "record",
                                                                             !.ip = i])
    <3>1. thr'["recv"].pc \in {"reuse", "record"} /\ thr'["recv"].addr = a
      BY <1>4, <1>5, <2>3
    <3>2. AssignmentBuilt'
      BY <2>1, <3>1 DEF AssignmentBuilt, Known, Handling
    <3>3. LeasesAreRouted'
      BY <2>1, <3>1 DEF LeasesAreRouted
    <3> QED BY <3>2, <3>3
  <2> QED BY <1>11, <2>2, <2>3 DEF Allocate
<1>12. CASE ReuseLease
  <2>1. /\ thr["recv"].pc = "reuse" /\ a \in Addr /\ Known(a) /\ peers[a].done
        /\ UNCHANGED <<peers, alloc_map, host_routes>>
    BY <1>0, <1>12 DEF ReuseLease, allocVars, Handling, AssignmentBuilt
  <2>2. CASE Finish("recv")
    BY <1>1, <2>1, <2>2, NothingHandedOut
  <2>3. CASE Become("recv", [thr["recv"] EXCEPT !.pc = "set_ip", !.ip = get_ip(a)])
    <3>1. thr'["recv"].pc = "set_ip" /\ thr'["recv"].addr = a /\ thr'["recv"].ip = get_ip(a)
      BY <1>5, <2>3
    <3>2. AssignmentBuilt'
      BY <2>1, <3>1 DEF AssignmentBuilt, Known, Handling
    <3>3. LeasesAreRouted'
      BY <2>1, <3>1 DEF LeasesAreRouted
    <3> QED BY <3>2, <3>3
  <2> QED BY <1>12, <2>2, <2>3 DEF ReuseLease
<1>13. CASE RecordLease
  <2>1. /\ thr["recv"].pc = "record" /\ a \in Addr /\ Known(a) /\ peers[a].done
        /\ UNCHANGED <<peers, host_routes>>
        /\ alloc_map' = [alloc_map EXCEPT ![a] = ip] /\ Goto("recv", "set_ip")
    BY <1>0, <1>13 DEF RecordLease, Record, Handling, AssignmentBuilt
  <2>2. thr'["recv"].pc = "set_ip" /\ thr'["recv"].addr = a /\ thr'["recv"].ip = ip
    BY <1>4, <2>1
  <2>3. alloc_map'[a] = ip /\ \A b \in Addr \ {a} : alloc_map'[b] = alloc_map[b]
    BY <1>0, <2>1 DEF TypeOK
  <2>4. AssignmentBuilt'
    BY <2>1, <2>2, <2>3 DEF AssignmentBuilt, Known, Handling
  <2>5. LeasesAreRouted'
    BY <2>1, <2>2, <2>3 DEF LeasesAreRouted
  <2> QED BY <2>4, <2>5
<1>14. CASE SetPeerTunIP
  <2>1. /\ thr["recv"].pc = "set_ip" /\ a \in Addr /\ ip \in Hosts /\ Known(a)
        /\ peers[a].done /\ alloc_map[a] = ip
        /\ UNCHANGED <<alloc_map, host_routes>>
        /\ set_peer_tun_ip(a, ip) /\ Goto("recv", "add_route")
    BY <1>0, <1>14 DEF SetPeerTunIP, allocVars, Handling, Holding, AssignmentBuilt
  <2>2. thr'["recv"].pc = "add_route" /\ thr'["recv"].addr = a /\ thr'["recv"].ip = ip
    BY <1>4, <2>1
  <2>3. peers'[a] # None /\ peers'[a].done
    BY <1>K, <2>1 DEF Accesses
  <2>4. peers'[a].tun_ip = ip
    <3>1. peers' = [peers EXCEPT ![a] = [InfoOf(a) EXCEPT !.tun_ip = ip]]
      BY <2>1 DEF set_peer_tun_ip, Put
    <3>2. peers'[a] = [InfoOf(a) EXCEPT !.tun_ip = ip]
      BY <1>0, <2>1, <3>1 DEF TypeOK
    <3>3. InfoOf(a) \in PeerInfo
      BY <1>0, <2>1, InfoTyped
    <3> QED BY <3>2, <3>3 DEF PeerInfo
  <2>5. AssignmentBuilt'
    BY <2>1, <2>2, <2>3, <2>4 DEF AssignmentBuilt, Known, Handling
  <2>6. LeasesAreRouted'
    BY <2>1, <2>2 DEF LeasesAreRouted
  <2> QED BY <2>5, <2>6
<1>15. CASE AddHostRoute
  <2>1. /\ thr["recv"].pc = "add_route" /\ a \in Addr /\ ip \in Hosts /\ Known(a)
        /\ peers[a].done /\ alloc_map[a] = ip /\ peers[a].tun_ip = ip
        /\ UNCHANGED <<peers, alloc_map>>
        /\ host_routes' = [host_routes EXCEPT ![ip] = a] /\ Goto("recv", "assign")
    BY <1>0, <1>15 DEF AddHostRoute, add_host_route, allocVars, Handling, Holding, AssignmentBuilt
  <2>2. thr'["recv"].pc = "assign" /\ thr'["recv"].addr = a /\ thr'["recv"].ip = ip
    BY <1>4, <2>1
  <2>3. host_routes'[ip] = a /\ \A h \in Hosts \ {ip} : host_routes'[h] = host_routes[h]
    BY <1>0, <2>1 DEF TypeOK, Routes
  <2>4. AssignmentBuilt'
    BY <2>1, <2>2, <2>3 DEF AssignmentBuilt, Known, Handling
  <2>5. LeasesAreRouted'
    <3> SUFFICES ASSUME NEW b \in Addr, alloc_map[b] # None
                 PROVE  host_routes'[alloc_map[b]] = b
      BY <2>1 DEF LeasesAreRouted
    <3>1. CASE b = a
      BY <2>1, <2>3, <3>1
    <3>2. CASE b # a
      <4>1. alloc_map[b] # ip
        BY <2>1, <3>2 DEF IInv, NoDoubleLease
      <4>2. alloc_map[b] \in Hosts
        BY <1>0 DEF TypeOK
      <4>3. host_routes[alloc_map[b]] = b
        BY <3>2 DEF LeasesAreRouted
      <4> QED BY <2>3, <4>1, <4>2, <4>3
    <3> QED BY <3>1, <3>2
  <2> QED BY <2>4, <2>5
<1> QED BY <1>6, <1>7, <1>8, <1>9, <1>10, <1>11, <1>12, <1>13, <1>14, <1>15 DEF RecvStep

\* As long as nobody leaves, every step keeps the four tables in agreement.
LEMMA StepSteady ==
  ASSUME Silent = {}, Removable = {}, IInv, SteadyInv, [Next]_vars
  PROVE  SteadyInv'
<1>0. TypeOK /\ "recv" \in Threads /\ NobodyLeaves /\ AssignmentBuilt /\ LeasesAreRouted
  BY DEF IInv, Threads, SteadyInv
<1>1. NobodyLeaves'
  BY <1>0, StepNobodyLeaves
<1>2. \/ RecvStep \/ TunStep \/ BeatStep
      \/ \E b \in Addr, kind \in Kinds : Receive(b, kind)
      \/ \E dst \in HostTraffic : ReadTun(dst)
      \/ UNCHANGED vars
  BY <1>0, NobodyDisconnected DEF NobodyLeaves, FallSilent
<1>3. CASE RecvStep
  BY <1>0, <1>1, <1>3, RecvHandsOut DEF SteadyInv
<1>4. ASSUME NEW b \in Addr, NEW kind \in Kinds, Receive(b, kind)
      PROVE  AssignmentBuilt' /\ LeasesAreRouted'
  <2>1. thr["recv"].pc = "idle" /\ UNCHANGED <<alloc_map, host_routes>>
        /\ Become("recv", [Idle EXCEPT !.pc = kind, !.addr = b])
    BY <1>4 DEF Receive, allocVars, At
  <2>2. thr'["recv"].pc = kind
    BY <1>0, <2>1, Started
  <2>3. thr'["recv"].pc \notin Handling
    BY <2>2, ClientAssumption DEF Handling, AllKinds
  <2> QED BY <1>0, <2>1, <2>3, NothingHandedOut
<1>5. CASE TunStep
  <2>1. thr'["recv"] = thr["recv"]
    BY <1>0, <1>5, Bystanders
  <2>2. UNCHANGED <<alloc_map, host_routes>>
    BY <1>5 DEF TunStep, Route, Forward, LookupRaises, allocVars
  <2>3. \A a \in Addr : Known(a) => peers'[a] = peers[a]
    <3>1. CASE Forward("tun")
      <4>1. get_tunnel_packet(thr["tun"].addr) /\ thr["tun"].addr \in Addr
        BY <1>0, <3>1 DEF Forward, At, TypeOK, ThreadOK, Threads, Working, RecvPCs
      <4> QED BY <1>0, <4>1, AccessKeeps DEF Accesses
    <3> QED BY <1>5, <3>1 DEF TunStep, Route, LookupRaises
  <2> QED BY <1>0, <1>1, <2>1, <2>2, <2>3, OthersHandNothingOut DEF SteadyInv
<1>6. CASE BeatStep
  <2>1. thr'["recv"] = thr["recv"]
    BY <1>0, <1>6, Bystanders
  <2>2. UNCHANGED <<peers, alloc_map, host_routes>>
    BY <1>0, <1>6, NobodyReaped
  <2>3. \A a \in Addr : Known(a) => peers'[a] = peers[a]
    BY <2>2
  <2> QED BY <1>0, <1>1, <2>1, <2>2, <2>3, OthersHandNothingOut DEF SteadyInv
<1>7. CASE UNCHANGED vars \/ \E dst \in HostTraffic : ReadTun(dst)
  <2>1. thr'["recv"] = thr["recv"]
    BY <1>0, <1>7, Bystanders DEF vars
  <2>2. UNCHANGED <<peers, alloc_map, host_routes>>
    BY <1>7 DEF ReadTun, vars, allocVars
  <2>3. \A a \in Addr : Known(a) => peers'[a] = peers[a]
    BY <2>2
  <2> QED BY <1>0, <1>1, <2>1, <2>2, <2>3, OthersHandNothingOut DEF SteadyInv
<1> QED BY <1>1, <1>2, <1>3, <1>4, <1>5, <1>6, <1>7 DEF SteadyInv

\* Empty tables agree.
LEMMA InitSteady == Init => SteadyInv
<1> SUFFICES ASSUME Init PROVE SteadyInv
  OBVIOUS
<1>1. thr["recv"] = Idle /\ thr["beat"] = Idle /\ thr["operator"] = Idle
  BY DEF Init, Threads
<1>2. Idle.pc = "idle" /\ NoScan.expired = {}
  BY DEF Idle, NoScan
<1>3. \A a \in Addr : ~Known(a) /\ get_ip(a) = None
  BY DEF Init, PeersInit, AllocInit, Known, get_ip
<1>4. NobodyLeaves
  BY <1>1, <1>2, <1>3 DEF NobodyLeaves, Stale, Init
<1>5. AssignmentBuilt /\ LeasesAreRouted
  BY <1>1, <1>2, <1>3 DEF AssignmentBuilt, LeasesAreRouted, Handling, At
<1> QED BY <1>4, <1>5 DEF SteadyInv

\* While nobody is silent and no operator disconnects a peer, the agreement of
\* the four tables holds throughout.
THEOREM SteadyHolds ==
  ASSUME Silent = {}, Removable = {}
  PROVE  Spec => []SteadyInv
<1>1. IInv /\ SteadyInv /\ [Next]_vars => SteadyInv'
  BY StepSteady
<1> QED BY <1>1, InitSteady, InvariantHolds, PTL DEF Spec

\* The server can reach every client with a lease at the address it leases
\* (_handle_handshake of src/vpn_server.py: allocate and add_host_route), for
\* any clients and any pool, while no client goes away.
THEOREM LeasesLeadHome ==
  ASSUME Silent = {}, Removable = {}
  PROVE  Spec => []LeasedPeersAreRouted
<1>1. TypeOK /\ SteadyInv => LeasedPeersAreRouted
  <2> SUFFICES ASSUME TypeOK, SteadyInv, AtRest, NEW a \in Addr, get_ip(a) # None
               PROVE  lookup(get_ip(a)) = a
    BY DEF LeasedPeersAreRouted
  <2>1. get_ip(a) \in Hosts
    BY DEF TypeOK, get_ip
  <2>2. host_routes[get_ip(a)] = a
    BY DEF SteadyInv, LeasesAreRouted, AtRest
  <2> QED BY <2>1, <2>2 DEF lookup
<1> QED BY <1>1, SteadyHolds, TypeCorrect, PTL

\* The address _send_ip_assignment sends a client is its lease, its entry's
\* tun_ip and its route, and the entry has the key, for any clients and any
\* pool, while no client goes away.
THEOREM AssignmentsAgree ==
  ASSUME Silent = {}, Removable = {}
  PROVE  Spec => []AssignmentAgrees
<1>1. TypeOK /\ SteadyInv => AssignmentAgrees
  <2> SUFFICES ASSUME TypeOK, SteadyInv, At("recv", "assign")
               PROVE  LET a == thr["recv"].addr
                          ip == thr["recv"].ip
                      IN /\ get_ip(a) = ip
                         /\ Known(a) /\ peers[a].done /\ peers[a].tun_ip = ip
                         /\ lookup(ip) = a
    BY DEF AssignmentAgrees
  <2>1. thr["recv"].ip \in Hosts
    BY DEF TypeOK, ThreadOK, Threads, Holding, At
  <2> QED BY <2>1 DEF SteadyInv, AssignmentBuilt, Handling, lookup, At
<1> QED BY <1>1, SteadyHolds, TypeCorrect, PTL
=============================================================================
