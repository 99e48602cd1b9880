----------------------------- MODULE Handshake ------------------------------
(***************************************************************************)
(* The handshake of one client with the server over UDP: class Handshake   *)
(* (src/crypto_handshake.py), the client's side of it (src/vpn_client.py)  *)
(* and the server's (_handle_handshake, src/vpn_server.py), up to the      *)
(* IP_ASSIGN message that ends it.  Nothing is ever sent again by the      *)
(* code; UDP may lose, repeat or reorder what was sent.                    *)
(*                                                                         *)
(* Each datagram is handled by the one receive thread of its side, so a    *)
(* handler is one step; the client's start() waits in a thread of its own. *)
(* What the client does with its address is the subject of VPNClient.      *)
(* A key is the number of the ClientHello the server derived it from: the  *)
(* client makes one key pair, the server a new one for every ClientHello.  *)
(* The server may drop its entry for the client and take the lease back at *)
(* any time: nobody is heard for longer than its time-out, or its operator *)
(* disconnects the client.  The accesses that takes are those of VPNServer.*)
(***************************************************************************)
EXTENDS ReplayWindow, SequencesExt

CONSTANTS
  None,
  FaultKinds,       \* what the network may do: "lose", "repeat", "swap"
  MaxFaults,        \* bound: how often it does so
  MaxForgets,       \* bound: how often the server drops its entry
  PoolMayBeEmpty    \* allocate may find no address

ASSUME HandshakeAssumption ==
  /\ None \notin Nat
  /\ FaultKinds \subseteq {"lose", "repeat", "swap"}
  /\ MaxFaults \in Nat /\ MaxForgets \in Nat
  /\ PoolMayBeEmpty \in BOOLEAN

VARIABLES
  server,       \* the server's entry for the client
  client,       \* the VPNClient object
  start,        \* where the client's start() is
  up, down,     \* datagrams on their way to the server and to the client
  faults,       \* what the network has done so far
  disturbed,    \* history: it has lost a datagram or changed the order of two
  verified,     \* history: the keys whose Finished the client has verified
  applied       \* history: the IP_ASSIGN messages the client has acted on

history == <<faults, disturbed, verified, applied>>
vars == <<server, client, start, up, down, history>>

ServerHello(k) == [type |-> "server_hello", key |-> k]
Finished(k)    == [type |-> "finished", key |-> k]
ClientHello    == [type |-> "client_hello"]
Assign(k, n)   == [type |-> "ip_assign", key |-> k, seq |-> n]

Init ==
  /\ server = [derived |-> 0, session |-> None, tunnel_key |-> None,
               leased |-> FALSE, next_seq |-> 0, forgotten |-> 0]
  /\ client = [session |-> None, tunnel_key |-> None, connected |-> FALSE,
               error |-> FALSE, rx |-> FreshWindow, assigned |-> 0,
               sock |-> TRUE, receiving |-> TRUE]
  /\ start = "init"
  /\ up = <<>> /\ down = <<>>
  /\ faults = 0 /\ disturbed = FALSE
  /\ verified = {} /\ applied = {}

-----------------------------------------------------------------------------
(* The server: _handle_handshake.                                          *)

\* Mutant: the server's Finished goes out before its hello.
FinishedFirst ==
  /\ up # <<>> /\ Head(up).type = "client_hello"
  /\ up' = Tail(up)
  /\ LET k == server.derived + 1 IN
       /\ server' = [server EXCEPT !.derived = k, !.session = k]
       /\ down' = down \o <<Finished(k), ServerHello(k)>>
  /\ UNCHANGED <<client, start, history>>

\* process_client_hello, derive_session_key, and both answers
HandleClientHello ==
  /\ up # <<>> /\ Head(up).type = "client_hello"
  /\ up' = Tail(up)
  /\ LET k == server.derived + 1 IN
       /\ server' = [server EXCEPT !.derived = k, !.session = k]
       /\ down' = down \o <<ServerHello(k), Finished(k)>>
  /\ UNCHANGED <<client, start, history>>

\* Mutants: whoever sends a Finished is believed; and that before any hello.
BelieveFinished(session, m) == session # None
BelieveEvenWithoutKey(session, m) == TRUE

\* verify_finished: the sender's MAC is over this end's session.
VerifyFinished(session, m) == session # None /\ session = m.key

RefuseFinished ==
  /\ ~VerifyFinished(server.session, Head(up))
  /\ UNCHANGED <<server, down>>

\* Mutant: the address before the key.  The first time there is no key to pack
\* the assignment with, and the handler ends with an exception.
AssignBeforeKey ==
  /\ VerifyFinished(server.session, Head(up))
  /\ \/ /\ server.tunnel_key = None
        /\ server' = [server EXCEPT !.leased = TRUE]
        /\ UNCHANGED down
     \/ /\ server.tunnel_key # None
        /\ server' = [server EXCEPT !.tunnel_key = server.session,
                                    !.leased = TRUE, !.next_seq = @ + 1]
        /\ down' = Append(down, Assign(server.tunnel_key, server.next_seq))

\* The entry gets the key and the client an address, its first or the same.
AssignAddress ==
  /\ VerifyFinished(server.session, Head(up))
  /\ server' = [server EXCEPT !.tunnel_key = server.session,
                              !.leased = TRUE,
                              !.next_seq = @ + 1]
  /\ down' = Append(down, Assign(server.session, server.next_seq))

\* The entry gets the key, the pool is empty, and the client hears nothing.
NoAddressLeft ==
  /\ VerifyFinished(server.session, Head(up))
  /\ PoolMayBeEmpty /\ ~server.leased
  /\ server' = [server EXCEPT !.tunnel_key = server.session]
  /\ UNCHANGED down

HandleClientFinished ==
  /\ up # <<>> /\ Head(up).type = "finished"
  /\ up' = Tail(up)
  /\ RefuseFinished \/ AssignAddress \/ NoAddressLeft
  /\ UNCHANGED <<client, start, history>>

\* The entry goes, its session, key and counter with it, and the lease.
ServerForgets ==
  /\ server.session # None /\ server.forgotten < MaxForgets
  /\ server' = [server EXCEPT !.session = None, !.tunnel_key = None, !.leased = FALSE,
                              !.next_seq = 0, !.forgotten = @ + 1]
  /\ UNCHANGED <<client, start, up, down, history>>

-----------------------------------------------------------------------------
(* The client: the receive thread.  After each datagram it looks whether   *)
(* the transport has been stopped; one that it waits for then is the last. *)

\* The head of down is taken off it and handled.
Handles(type) ==
  /\ client.receiving
  /\ down # <<>> /\ Head(down).type = type
  /\ down' = Tail(down)

\* The client with one more datagram handled.
Handled == [client EXCEPT !.receiving = client.sock]

\* send_to: without a socket nothing is sent.
Sent(m) == IF client.sock THEN Append(up, m) ELSE up

HandleServerHello ==
  /\ Handles("server_hello")
  /\ client' = [Handled EXCEPT !.session = Head(down).key]
  /\ UNCHANGED <<server, start, up, history>>

\* Mutant: the client answers the server's Finished without taking the key.
AnswerOnly ==
  /\ Handles("finished")
  /\ client.session = Head(down).key
  /\ up' = Sent(Finished(client.session))
  /\ client' = [Handled EXCEPT !.connected = TRUE]
  /\ UNCHANGED <<server, start, history>>

\* Without a session verify_finished raises, and the receive loop goes on.
HandleServerFinished ==
  /\ Handles("finished")
  /\ \/ /\ client.session = None
        /\ client' = Handled
        /\ UNCHANGED <<up, verified>>
     \/ /\ client.session # None
        /\ ~VerifyFinished(client.session, Head(down))
        /\ client' = [Handled EXCEPT !.error = TRUE]
        /\ UNCHANGED <<up, verified>>
     \/ /\ VerifyFinished(client.session, Head(down))
        /\ client' = [Handled EXCEPT !.tunnel_key = client.session, !.connected = TRUE]
        /\ up' = Sent(Finished(client.session))
        /\ verified' = verified \cup {client.session}
  /\ UNCHANGED <<server, start, faults, disturbed, applied>>

\* unpack_data raises without a key, and for a number it refuses.
IgnoreAssign ==
  /\ client.tunnel_key = None \/ ~Admits(client.rx, Head(down).seq)
  /\ client' = Handled
  /\ UNCHANGED applied

\* The number is marked before the key is tried.
BurnNumber ==
  /\ client.tunnel_key # None /\ client.tunnel_key # Head(down).key
  /\ Admits(client.rx, Head(down).seq)
  /\ client' = [Handled EXCEPT !.rx = Updated(@, Head(down).seq)]
  /\ UNCHANGED applied

ApplyAssign ==
  /\ client.tunnel_key = Head(down).key
  /\ Admits(client.rx, Head(down).seq)
  /\ client' = [Handled EXCEPT !.rx = Updated(@, Head(down).seq), !.assigned = @ + 1]
  /\ applied' = applied \cup {Head(down)}

\* _handle_data_packet and _handle_ip_assignment
HandleAssign ==
  /\ Handles("ip_assign")
  /\ IgnoreAssign \/ BurnNumber \/ ApplyAssign
  /\ UNCHANGED <<server, start, up, faults, disturbed, verified>>

\* The loop finds that the transport has been stopped.
ReceiveEnds ==
  /\ client.receiving /\ ~client.sock
  /\ client' = [client EXCEPT !.receiving = FALSE]
  /\ UNCHANGED <<server, start, up, down, history>>

-----------------------------------------------------------------------------
(* The client: start() and _do_handshake, in the caller's thread.          *)

SendClientHello ==
  /\ start = "init"
  /\ start' = "waiting"
  /\ up' = Append(up, ClientHello)
  /\ UNCHANGED <<server, client, down, history>>

HandshakeFails ==
  /\ start = "waiting" /\ client.error
  /\ start' = "failed"
  /\ UNCHANGED <<server, client, up, down, history>>

HandshakeSucceeds ==
  /\ start = "waiting" /\ ~client.error
  /\ client.connected /\ client.assigned > 0
  /\ start' = "connected"
  /\ UNCHANGED <<server, client, up, down, history>>

StartIsOver == start \in {"connected", "failed", "timed_out"}

\* The transport's stop(), called by the client's.
StopTransport ==
  /\ StartIsOver /\ client.sock
  /\ client' = [client EXCEPT !.sock = FALSE]
  /\ UNCHANGED <<server, start, up, down, history>>

\* 15 seconds are over; how long a datagram takes is up to the network.
HandshakeTimesOut ==
  /\ start = "waiting"
  /\ start' = "timed_out"
  /\ UNCHANGED <<server, client, up, down, history>>

-----------------------------------------------------------------------------
(* The network.                                                            *)

Swapped(ch, i) == [ch EXCEPT ![i] = ch[i + 1], ![i + 1] = ch[i]]

Lost(ch)       == {RemoveAt(ch, i) : i \in DOMAIN ch}
Repeated(ch)   == {InsertAt(ch, i, ch[i]) : i \in DOMAIN ch}
Reordered(ch)  == {Swapped(ch, i) : i \in 1..(Len(ch) - 1)}

\* What ch can become by one fault of a kind.
Disturbed(kind, ch) ==
  CASE kind = "lose"   -> Lost(ch)
    [] kind = "repeat" -> Repeated(ch)
    [] kind = "swap"   -> Reordered(ch)

Fault ==
  /\ faults < MaxFaults
  /\ faults' = faults + 1
  /\ \E kind \in FaultKinds :
       /\ disturbed' = (disturbed \/ kind # "repeat")
       /\ \/ up' \in Disturbed(kind, up) /\ UNCHANGED down
          \/ down' \in Disturbed(kind, down) /\ UNCHANGED up
  /\ UNCHANGED <<server, client, start, verified, applied>>

-----------------------------------------------------------------------------

ServerStep == HandleClientHello \/ HandleClientFinished
ClientStep == HandleServerHello \/ HandleServerFinished \/ HandleAssign \/ ReceiveEnds
StartStep  == SendClientHello \/ HandshakeFails \/ HandshakeSucceeds \/ HandshakeTimesOut

Next ==
  ServerStep \/ ServerForgets \/ ClientStep \/ StartStep \/ StopTransport \/ Fault

Spec == Init /\ [][Next]_vars

-----------------------------------------------------------------------------
(* Properties.                                                             *)

Keys == 1..(MaxFaults + 1)

Assignments == [type : {"ip_assign"}, key : Keys, seq : Nat]

Datagrams ==
  {ClientHello} \cup {ServerHello(k) : k \in Keys} \cup {Finished(k) : k \in Keys}
    \cup Assignments

TypeOK ==
  /\ server \in [derived : 0..(MaxFaults + 1), session : Keys \cup {None},
                 tunnel_key : Keys \cup {None}, leased : BOOLEAN, next_seq : Nat,
                 forgotten : 0..MaxForgets]
  /\ client.session \in Keys \cup {None}
  /\ client.tunnel_key \in Keys \cup {None}
  /\ client.connected \in BOOLEAN /\ client.error \in BOOLEAN
  /\ client.sock \in BOOLEAN /\ client.receiving \in BOOLEAN
  /\ client.rx.max_seq \in Nat /\ client.assigned \in Nat
  /\ start \in {"init", "waiting", "connected", "failed", "timed_out"}
  /\ up \in Seq(Datagrams) /\ down \in Seq(Datagrams)
  /\ faults \in 0..MaxFaults /\ disturbed \in BOOLEAN
  /\ verified \subseteq Keys /\ applied \subseteq Assignments

\* The server encrypts only under a key whose server Finished the client has
\* verified: no lost, late or repeated datagram makes it take a key that the
\* client has never had.
ServerKeyIsConfirmed ==
  server.tunnel_key # None => server.tunnel_key \in verified

\* The client acts on no IP_ASSIGN message twice, however often the network
\* repeats it and however often the server starts counting anew.
AssignmentAppliedOnce == client.assigned = Cardinality(applied)

\* As long as the network keeps the order and loses nothing, a client with
\* the right PSK never sees its handshake fail, repeated datagrams or not.
NoSpuriousFailure == ~disturbed => ~client.error

\* Then, too, both ends hold the same key whenever nothing is under way, the
\* client is still there to answer and the server has not dropped its entry.
KeysAgreeAtRest ==
  ~disturbed /\ client.sock /\ server.session # None /\ up = <<>> /\ down = <<>>
    => client.tunnel_key = server.tunnel_key

\* Then, too, the server keeps no lease for a client that has set no address
\* up: a lease is never stranded between an answer and its arrival.
LeaseIsTakenUp ==
  ~disturbed /\ client.sock /\ server.leased /\ up = <<>> /\ down = <<>>
    => client.assigned > 0
=============================================================================
