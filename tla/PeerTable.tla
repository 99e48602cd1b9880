----------------------------- MODULE PeerTable ------------------------------
(***************************************************************************)
(* TunnelTransport._peers (src/tunnel_transport.py), a dictionary that the *)
(* receive, heartbeat, TUN and operator threads share without a lock.      *)
(*                                                                         *)
(* Of an entry the server's bookkeeping depends on: whether last_seen is   *)
(* older than heartbeat_timeout; whether its Handshake holds a session;    *)
(* whether set_handshake_done ran, which both gives the TunnelPacket its   *)
(* key and sets the flag; and tun_ip.  Which key it is belongs to module   *)
(* Handshake.                                                              *)
(***************************************************************************)
EXTENDS RouteTable

VARIABLE peers              \* address -> entry, None if absent

NewPeer == [stale |-> FALSE, session |-> FALSE, done |-> FALSE, tun_ip |-> None]

PeerInfo == [stale   : BOOLEAN,
             session : BOOLEAN,
             done    : BOOLEAN,
             tun_ip  : Hosts \cup {None}]

\* An entry is a dictionary, which None is not.
ASSUME EntryAssumption == None \notin PeerInfo

PeersInit == peers = [a \in Addr |-> None]

Known(a) == peers[a] # None

\* len(self._peers), up to equality: what a running iteration compares.
KnownPeers == {a \in Addr : Known(a)}

\* The entry _get_peer_info(a) returns; it creates the entry if need be.
InfoOf(a) == IF Known(a) THEN peers[a] ELSE NewPeer

\* peers after a handler has looked a up and left its entry as info.
Put(a, info) == peers' = [peers EXCEPT ![a] = info]

\* _handle_packet: find or create the entry and refresh last_seen.
Touch(a) == Put(a, [InfoOf(a) EXCEPT !.stale = FALSE])

get_tunnel_packet(a) == Put(a, InfoOf(a))

is_handshake_done(a) == Known(a) /\ peers[a].done

\* get_handshake, process_client_hello and derive_session_key
DeriveSession(a) == Put(a, [InfoOf(a) EXCEPT !.session = TRUE])

set_handshake_done(a) == Put(a, [InfoOf(a) EXCEPT !.done = TRUE])

set_peer_tun_ip(a, ip) == Put(a, [InfoOf(a) EXCEPT !.tun_ip = ip])

\* del self._peers[a]
Delete(a) == peers' = [peers EXCEPT ![a] = None]
=============================================================================
