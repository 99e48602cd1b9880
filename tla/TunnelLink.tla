----------------------------- MODULE TunnelLink -----------------------------
(***************************************************************************)
(* The encrypted traffic between one client and the server: the three      *)
(* TunnelPacket objects it goes through (src/packet_encap.py), their       *)
(* sequence counters, windows and keys.                                    *)
(*                                                                         *)
(*   entry  the server's, in its transport's entry for the client: data    *)
(*          and heartbeats out, data and acknowledgements in               *)
(*   app    the client's own: data in both directions                      *)
(*   beat   the client's transport's: heartbeats in, acknowledgements out  *)
(*                                                                         *)
(* UDP may deliver whatever was ever sent, in any order, any number of     *)
(* times or never.  A key is the number of the ClientHello it was derived  *)
(* from, 0 is no key; the handshake is reduced to its effects on the keys, *)
(* as module Handshake has them.  Three threads of the server draw numbers *)
(* from one counter, which nothing locks.                                  *)
(***************************************************************************)
EXTENDS ReplayWindow, Sequences, FiniteSets

CONSTANTS
  Scenarios     \* bounds: each behaviour keeps within one of these

\* At most so many ClientHellos, numbers from each counter of the client's and
\* from the server's, threads inside next_sequence at once, and entries that
\* time out at the server and at the client.
Scenario == [hellos : Nat, up : Nat, down : Nat, drawing : Nat,
             server_forgets : Nat, client_forgets : Nat]

ASSUME TunnelAssumption == Scenarios \subseteq Scenario

\* The server's threads that send to the client: the TUN thread its packets,
\* the heartbeat thread heartbeats, the receive thread its address and what
\* other clients send it.
Threads == {"tun", "heartbeat", "recv"}

VARIABLES
  entry, app, beat,   \* the TunnelPackets
  session,            \* the key of the server's Handshake for the client
  hellos,             \* ClientHellos the server has handled
  verified,           \* the keys whose Finished the client has verified
  drawing,            \* what each server thread has read in next_sequence
  up, down,           \* every datagram ever sent, to the server and to the client
  forgotten,          \* entries that have timed out at either side
  limit,              \* the scenario
  raced,              \* history: two threads were inside next_sequence at once
  got, twice,         \* history: data delivered, and whether any of it twice
  spent,              \* history: numbers of a window no delivered data took
  refused             \* history: data in the receiver's key, never delivered
                      \* and yet refused

vars == <<entry, app, beat, session, hellos, verified, drawing, up, down,
          forgotten, limit, raced, got, twice, spent, refused>>

Sides == {"server", "client"}

NewTunnelPacket == [key |-> 0, next_seq |-> 0, rx |-> FreshWindow]

Init ==
  /\ entry = NewTunnelPacket /\ app = NewTunnelPacket /\ beat = NewTunnelPacket
  /\ session = 0 /\ hellos = 0 /\ verified = {}
  /\ drawing = [t \in Threads |-> <<>>]
  /\ up = {} /\ down = {}
  /\ forgotten = [s \in Sides |-> 0]
  /\ limit \in Scenarios
  /\ raced = FALSE
  /\ got = [s \in Sides |-> {}] /\ twice = FALSE
  /\ spent = [s \in Sides |-> {}]
  /\ refused = [s \in Sides |-> {}]

history == <<raced, got, twice, spent, refused>>
bounds  == <<forgotten, limit>>
keys    == <<session, hellos, verified>>

Data(p, from)      == [kind |-> "data", key |-> p.key, seq |-> p.next_seq, from |-> from]
Ack(p)             == [kind |-> "ack", key |-> p.key, seq |-> p.next_seq, from |-> "beat"]
Heartbeat(key, n)  == [kind |-> "heartbeat", key |-> key, seq |-> n, from |-> "heartbeat"]
Drawn(p)           == [p EXCEPT !.next_seq = @ + 1]

-----------------------------------------------------------------------------
(* Keys.                                                                   *)

\* process_client_hello and derive_session_key; handshake_done with it.
HandleClientHello ==
  /\ hellos < limit.hellos
  /\ drawing["recv"] = <<>>
  /\ hellos' = hellos + 1 /\ session' = hellos'
  /\ UNCHANGED <<entry, app, beat, verified, drawing, up, down, bounds, history>>

\* Mutants: a counter, or a window, that begins anew with the key.
SetKeyAndCounter(p, k) == [p EXCEPT !.key = k, !.next_seq = 0]
SetKeyAndWindow(p, k)  == [p EXCEPT !.key = k, !.rx = FreshWindow]

\* Neither the counter nor the window begins anew with the key.
set_crypto_session(p, k) == [p EXCEPT !.key = k]

\* The server's hello and Finished for a key have come through, first or late.
HandleServerFinished ==
  /\ \E k \in 1..hellos :
       /\ app' = set_crypto_session(app, k)
       /\ beat' = set_crypto_session(beat, k)
       /\ verified' = verified \cup {k}
  /\ UNCHANGED <<entry, session, hellos, drawing, up, down, bounds, history>>

\* Mutant: the key is taken at the ClientHello already.
AdoptUnverified ==
  /\ session # 0
  /\ drawing["recv"] = <<>>
  /\ entry' = set_crypto_session(entry, session)
  /\ UNCHANGED <<app, beat, keys, drawing, up, down, bounds, history>>

\* A client's Finished that matches the session has come through.
HandleClientFinished ==
  /\ session \in verified
  /\ drawing["recv"] = <<>>
  /\ entry' = set_crypto_session(entry, session)
  /\ UNCHANGED <<app, beat, keys, drawing, up, down, bounds, history>>

\* The server's heartbeat loop, or an operator, drops the client.
ServerForgets ==
  /\ forgotten["server"] < limit.server_forgets
  /\ \A t \in Threads : drawing[t] = <<>>
  /\ forgotten' = [forgotten EXCEPT !["server"] = @ + 1]
  /\ entry' = NewTunnelPacket /\ session' = 0
  /\ spent' = [spent EXCEPT !["server"] = {}]
  /\ refused' = [refused EXCEPT !["server"] = {}]
  /\ UNCHANGED <<app, beat, hellos, verified, drawing, up, down, limit, raced, got, twice>>

\* The client's heartbeat loop drops the server, which was silent too long.
ClientForgets ==
  /\ forgotten["client"] < limit.client_forgets
  /\ forgotten' = [forgotten EXCEPT !["client"] = @ + 1]
  /\ beat' = NewTunnelPacket
  /\ UNCHANGED <<entry, app, keys, drawing, up, down, limit, history>>

-----------------------------------------------------------------------------
(* Sending.  On the client each counter belongs to one thread.             *)

ClientSendsData ==
  /\ app.key # 0 /\ app.next_seq < limit.up
  /\ up' = up \cup {Data(app, "app")}
  /\ app' = Drawn(app)
  /\ UNCHANGED <<entry, beat, keys, drawing, down, bounds, history>>

\* pack_heartbeat without a key: nothing is drawn for a heartbeat.
ServerSendsPlainHeartbeat ==
  /\ session # 0 /\ entry.key = 0
  /\ down' = down \cup {Heartbeat(0, 0)}
  /\ UNCHANGED <<entry, app, beat, keys, drawing, up, bounds, history>>

\* next_sequence reads the counter, reads it again for +=, and stores; other
\* threads may come between.
DrawSequence(t) ==
  /\ drawing[t] = <<>>
  /\ Cardinality({u \in Threads : drawing[u] # <<>>}) < limit.drawing
  /\ entry.key # 0 /\ entry.next_seq < limit.down
  /\ t = "heartbeat" => session # 0
  /\ drawing' = [drawing EXCEPT ![t] = <<entry.next_seq>>]
  /\ raced' = (raced \/ \E u \in Threads : drawing[u] # <<>>)
  /\ UNCHANGED <<entry, app, beat, keys, up, down, bounds, got, twice, spent, refused>>

ReadAgain(t) ==
  /\ Len(drawing[t]) = 1
  /\ drawing' = [drawing EXCEPT ![t] = Append(@, entry.next_seq)]
  /\ UNCHANGED <<entry, app, beat, keys, up, down, bounds, history>>

\* Mutant: the counter is not advanced past the number drawn.
StoreSameAndSend(t) ==
  /\ Len(drawing[t]) = 2
  /\ entry' = [entry EXCEPT !.next_seq = drawing[t][2]]
  /\ drawing' = [drawing EXCEPT ![t] = <<>>]
  /\ down' = down \cup {Data([entry EXCEPT !.next_seq = drawing[t][1]], t)}
  /\ UNCHANGED <<app, beat, keys, up, bounds, history>>

\* The packet is encrypted under the key the object has now.
StoreAndSend(t) ==
  /\ Len(drawing[t]) = 2
  /\ entry' = [entry EXCEPT !.next_seq = drawing[t][2] + 1]
  /\ drawing' = [drawing EXCEPT ![t] = <<>>]
  /\ down' = down \cup
       {IF t = "heartbeat" THEN Heartbeat(entry.key, drawing[t][1])
        ELSE Data([entry EXCEPT !.next_seq = drawing[t][1]], t)}
  /\ UNCHANGED <<app, beat, keys, up, bounds, history>>

-----------------------------------------------------------------------------
(* Receiving.                                                              *)

\* unpack_data, whose outcome for a packet m at one side's object p is kept in
\* the history.  The window is updated before the key is tried.
Unpack(side, p, m) ==
  LET admitted == Admits(p.rx, m.seq)
      accepted == admitted /\ m.key = p.key IN
  /\ twice' = (twice \/ (accepted /\ m \in got[side]))
  /\ got' = IF accepted THEN [got EXCEPT ![side] = @ \cup {m}] ELSE got
  /\ spent' = IF admitted /\ ~accepted THEN [spent EXCEPT ![side] = @ \cup {m.seq}]
              ELSE spent
  /\ refused' = IF ~admitted /\ m.key = p.key /\ m \notin got[side]
                THEN [refused EXCEPT ![side] = @ \cup {m}] ELSE refused

Seen(p, m) == [p EXCEPT !.rx = Updated(@, m.seq)]

ServerGetsData ==
  /\ entry.key # 0 /\ drawing["recv"] = <<>>
  /\ \E m \in up :
       /\ m.kind = "data"
       /\ Unpack("server", entry, m)
       /\ entry' = Seen(entry, m)
  /\ UNCHANGED <<app, beat, keys, drawing, up, down, bounds, raced>>

ClientGetsData ==
  /\ app.key # 0
  /\ \E m \in down :
       /\ m.kind = "data"
       /\ Unpack("client", app, m)
       /\ app' = Seen(app, m)
  /\ UNCHANGED <<entry, beat, keys, drawing, up, down, bounds, raced>>

\* unpack_heartbeat without a key looks at nothing, and the answer is plain.
ClientAnswersUnkeyed ==
  /\ beat.key = 0 /\ beat.next_seq < limit.up
  /\ \E m \in down : m.kind = "heartbeat"
  /\ up' = up \cup {Ack(beat)}
  /\ beat' = Drawn(beat)
  /\ UNCHANGED <<entry, app, keys, drawing, down, bounds, history>>

\* With a key the window comes first, then the key; both must agree to it.
ClientAnswersHeartbeat ==
  /\ beat.key # 0 /\ beat.next_seq < limit.up
  /\ \E m \in down :
       /\ m.kind = "heartbeat" /\ Admits(beat.rx, m.seq)
       /\ IF m.key = beat.key
          THEN beat' = Drawn(Seen(beat, m)) /\ up' = up \cup {Ack(beat)}
          ELSE beat' = Seen(beat, m) /\ UNCHANGED up
  /\ UNCHANGED <<entry, app, keys, drawing, down, bounds, history>>

\* An acknowledgement takes its number from the window data goes through.
ServerGetsAck ==
  /\ entry.key # 0 /\ drawing["recv"] = <<>>
  /\ \E m \in up :
       /\ m.kind = "ack" /\ Admits(entry.rx, m.seq)
       /\ entry' = Seen(entry, m)
       /\ spent' = [spent EXCEPT !["server"] = @ \cup {m.seq}]
  /\ UNCHANGED <<app, beat, keys, drawing, up, down, bounds, raced, got, twice, refused>>

-----------------------------------------------------------------------------

KeyStep  == HandleClientHello \/ HandleServerFinished \/ HandleClientFinished
              \/ ServerForgets \/ ClientForgets
SendStep == \/ ClientSendsData \/ ServerSendsPlainHeartbeat
            \/ \E t \in Threads : DrawSequence(t) \/ ReadAgain(t) \/ StoreAndSend(t)
ReceiveStep == ServerGetsData \/ ClientGetsData \/ ClientAnswersUnkeyed
                 \/ ClientAnswersHeartbeat \/ ServerGetsAck

Next == KeyStep \/ SendStep \/ ReceiveStep

Spec == Init /\ [][Next]_vars

-----------------------------------------------------------------------------
(* Properties.                                                             *)

Keys == 0..limit.hellos

TypeOK ==
  /\ \A p \in {entry, app, beat} :
       p.key \in Keys /\ p.next_seq \in Nat /\ p.rx.max_seq \in Nat
  /\ session \in 0..hellos /\ hellos \in Keys /\ verified \subseteq 1..hellos
  /\ \A t \in Threads : Len(drawing[t]) <= 2
  /\ \A m \in up : m.kind \in {"data", "ack"} /\ m.key \in verified \cup {0}
  /\ \A m \in down : m.kind \in {"data", "heartbeat"} /\ m.key \in verified \cup {0}
  /\ entry.key \in verified \cup {0}

\* No packet comes out of the tunnel twice at either end, whatever the network
\* repeats: not across a second handshake, and not across a time-out of the
\* server's entry, after which it starts with an empty window.
DataOnce == ~twice

\* What is delivered under the key an object still has is in its window: a
\* window is empty only with a key under which nothing was delivered.
WindowCoversKey ==
  /\ \A m \in got["server"] : m.key = entry.key => ~Admits(entry.rx, m.seq)
  /\ \A m \in got["client"] : m.key = app.key => ~Admits(app.rx, m.seq)

TooOld(p, m) == p.rx.max_seq - m.seq >= WINDOW_SIZE

\* The server turns away data it could decrypt and has never delivered only if
\* it is WINDOW_SIZE behind, or if something else took its number: an
\* acknowledgement, or a packet that came when another key was in place.
UpRefusedWithCause ==
  \A m \in refused["server"] : TooOld(entry, m) \/ m.seq \in spent["server"]

\* The client does so only if the packet is too old, came under another key
\* before, or shares its number with another packet: one that a second thread
\* sent, after two threads had drawn at once, or one of an earlier life of the
\* server's entry.
DownRefusedWithCause ==
  \A m \in refused["client"] :
    \/ TooOld(app, m)
    \/ m.seq \in spent["client"]
    \/ \E o \in down \ {m} : o.seq = m.seq /\ (raced \/ o.key # m.key)

-----------------------------------------------------------------------------
(* What the repository says and the code does not do.                      *)

\* src/crypto_handshake.py:229-232: a number inside the window that was not
\* received before is accepted (here with a window nothing falls out of).
NoFreshDataRefused == refused["server"] = {}

\* src/crypto_handshake.py:226: every packet has a number of its own.
NumbersAreUnique ==
  \A m, o \in down : m.seq = o.seq /\ m.key = o.key => m = o
=============================================================================
