-------------------------- MODULE TunnelLinkProofs --------------------------
(***************************************************************************)
(* What the tunnel's windows and counters guarantee over UDP, for any      *)
(* number of handshakes, packets, time-outs and bounds: nothing comes out  *)
(* of the tunnel twice at either end, and what is turned away is turned    *)
(* away for a reason.                                                      *)
(***************************************************************************)
EXTENDS TunnelLink, ReplayWindowProofs, SequenceTheorems

Packet == [key : Nat, next_seq : Nat, rx : Window]

Datagram == [kind : {"data", "ack", "heartbeat"}, key : Nat, seq : Nat,
             from : Threads \cup {"app", "beat"}]

\* Data in a key of its own, which is what a receiver delivers or refuses.
KeyedData(sent) == {m \in sent : m.kind = "data" /\ m.key # 0}

ObjectsTyped ==
  /\ entry \in Packet /\ app \in Packet /\ beat \in Packet
  /\ drawing \in [Threads -> Seq(Nat)]
  /\ \A t \in Threads : Len(drawing[t]) <= 2

KeysTyped ==
  /\ limit \in Scenario
  /\ hellos \in Nat /\ hellos <= limit.hellos
  /\ session \in 0..hellos /\ verified \subseteq 1..hellos
  /\ {entry.key, app.key, beat.key} \subseteq verified \cup {0}

DatagramsTyped ==
  /\ up \subseteq Datagram /\ down \subseteq Datagram
  /\ \A m \in up : m.kind # "heartbeat"
  /\ \A m \in down : m.kind # "ack"
  /\ \A m \in up \cup down : m.key \in verified \cup {0}

HistoryTyped ==
  /\ got \in [Sides -> SUBSET Datagram]
  /\ got["server"] \subseteq KeyedData(up)
  /\ got["client"] \subseteq KeyedData(down)
  /\ spent \in [Sides -> SUBSET Nat]
  /\ refused \in [Sides -> SUBSET Datagram]
  /\ refused["server"] \subseteq KeyedData(up)
  /\ refused["client"] \subseteq KeyedData(down)
  /\ raced \in BOOLEAN

Typed == ObjectsTyped /\ KeysTyped /\ DatagramsTyped /\ HistoryTyped

-----------------------------------------------------------------------------
(* Typing.                                                                 *)

\* Each TunnelPacket operation leaves a TunnelPacket, and what it is not about.
LEMMA PacketsTyped ==
  ASSUME NEW p \in Packet, NEW k \in Nat
  PROVE  /\ set_crypto_session(p, k) \in Packet /\ set_crypto_session(p, k).key = k
         /\ set_crypto_session(p, k).rx = p.rx
         /\ set_crypto_session(p, k).next_seq = p.next_seq
         /\ Drawn(p) \in Packet /\ Drawn(p).key = p.key /\ Drawn(p).rx = p.rx
         /\ Drawn(p).next_seq = p.next_seq + 1
BY DEF Packet, set_crypto_session, Drawn

\* A new one has no key and no number received.
LEMMA NewPacketTyped ==
  NewTunnelPacket \in Packet /\ NewTunnelPacket.key = 0
BY FreshWindowTyped DEF NewTunnelPacket, Packet

\* A receipt changes the window and nothing else.
LEMMA SeenTyped ==
  ASSUME NEW p \in Packet, NEW m \in Datagram
  PROVE  /\ Seen(p, m) \in Packet /\ Seen(p, m).key = p.key
         /\ Seen(p, m).next_seq = p.next_seq
         /\ Seen(p, m).rx = Updated(p.rx, m.seq)
<1>1. Updated(p.rx, m.seq) \in Window
  BY UpdatedTyped DEF Packet, Datagram
<1> QED BY <1>1 DEF Packet, Seen

\* What is sent is a datagram.
LEMMA SentTyped ==
  ASSUME NEW p \in Packet, NEW n \in Nat, NEW from \in Threads \cup {"app"}
  PROVE  /\ Data(p, from) \in Datagram /\ Ack(p) \in Datagram
         /\ Heartbeat(p.key, n) \in Datagram /\ Heartbeat(0, 0) \in Datagram
         /\ Data([p EXCEPT !.next_seq = n], from) \in Datagram
         /\ Data([p EXCEPT !.next_seq = n], from).key = p.key
         /\ Data([p EXCEPT !.next_seq = n], from).seq = n
BY DEF Packet, Datagram, Data, Ack, Heartbeat, Threads

\* A handshake's effect on the keys: they only ever become verified ones.
LEMMA KeyStepTyped ==
  Typed /\ KeyStep => Typed'
<1> SUFFICES ASSUME Typed, KeyStep PROVE Typed'
  OBVIOUS
<1> USE DEF Typed, history, bounds, keys
<1>1. CASE HandleClientHello
  BY <1>1 DEF HandleClientHello, ObjectsTyped, KeysTyped, DatagramsTyped,
              HistoryTyped, Scenario
<1>2. CASE HandleServerFinished
  <2> PICK k \in 1..hellos : /\ app' = set_crypto_session(app, k)
                             /\ beat' = set_crypto_session(beat, k)
                             /\ verified' = verified \cup {k}
    BY <1>2 DEF HandleServerFinished
  <2> UNCHANGED <<entry, session, hellos, drawing, up, down, bounds, history>>
    BY <1>2 DEF HandleServerFinished
  <2>0. hellos \in Nat /\ k \in Nat
    BY DEF KeysTyped
  <2>1. ObjectsTyped' /\ app'.key = k /\ beat'.key = k
    BY <2>0, PacketsTyped DEF ObjectsTyped
  <2>2. KeysTyped'
    BY <2>0, <2>1 DEF KeysTyped
  <2>3. DatagramsTyped' /\ HistoryTyped'
    BY DEF DatagramsTyped, HistoryTyped
  <2> QED BY <2>1, <2>2, <2>3
<1>3. CASE HandleClientFinished
  <2>1. session \in verified /\ entry' = set_crypto_session(entry, session)
        /\ UNCHANGED <<app, beat, keys, drawing, up, down, bounds, history>>
    BY <1>3 DEF HandleClientFinished
  <2>2. entry' \in Packet /\ entry'.key = session
    <3>1. entry \in Packet /\ session \in Nat
      BY DEF ObjectsTyped, KeysTyped
    <3> QED BY <2>1, <3>1, PacketsTyped
  <2> QED BY <2>1, <2>2 DEF ObjectsTyped, KeysTyped, DatagramsTyped, HistoryTyped
<1>4. CASE ServerForgets
  <2>1. entry' = NewTunnelPacket /\ session' = 0
        /\ spent' = [spent EXCEPT !["server"] = {}]
        /\ refused' = [refused EXCEPT !["server"] = {}]
        /\ UNCHANGED <<app, beat, hellos, verified, drawing, up, down, limit, raced, got, twice>>
    BY <1>4 DEF ServerForgets
  <2>2. entry' \in Packet /\ entry'.key = 0
    BY <2>1, NewPacketTyped
  <2>3. HistoryTyped'
    BY <2>1 DEF HistoryTyped, Sides
  <2> QED BY <2>1, <2>2, <2>3 DEF ObjectsTyped, KeysTyped, DatagramsTyped
<1>5. CASE ClientForgets
  <2>1. beat' = NewTunnelPacket
        /\ UNCHANGED <<entry, app, keys, drawing, up, down, limit, history>>
    BY <1>5 DEF ClientForgets
  <2>2. beat' \in Packet /\ beat'.key = 0
    BY <2>1, NewPacketTyped
  <2> QED BY <2>1, <2>2 DEF ObjectsTyped, KeysTyped, DatagramsTyped, HistoryTyped
<1> QED BY <1>1, <1>2, <1>3, <1>4, <1>5 DEF KeyStep

\* next_sequence has read the counter twice, and no more.
LEMMA SecondReadTyped ==
  ASSUME NEW reads \in Seq(Nat), Len(reads) = 1, NEW n \in Nat
  PROVE  Append(reads, n) \in Seq(Nat) /\ Len(Append(reads, n)) <= 2
         /\ Append(reads, n)[1] = reads[1] /\ Append(reads, n)[2] = n
<1>1. Append(reads, n) \in Seq(Nat)
  BY AppendProperties, Zenon
<1>2. Len(Append(reads, n)) = Len(reads) + 1
  BY AppendProperties, Zenon
<1>3. Append(reads, n)[Len(reads) + 1] = n
  BY AppendProperties, Zenon
<1>4. Append(reads, n)[1] = reads[1]
  OBVIOUS
<1>5. Len(Append(reads, n)) <= 2
  BY <1>2
<1>6. Append(reads, n)[2] = n
  BY <1>3
<1> QED BY <1>1, <1>4, <1>5, <1>6

\* What is sent carries the sender's key, which the client has verified.
LEMMA SendStepTyped ==
  Typed /\ SendStep => Typed'
<1> SUFFICES ASSUME Typed, SendStep PROVE Typed'
  OBVIOUS
<1> USE DEF Typed, history, bounds, keys
<1>1. CASE ClientSendsData
  <2>1. up' = up \cup {Data(app, "app")} /\ app' = Drawn(app) /\ app.key # 0
        /\ UNCHANGED <<entry, beat, keys, drawing, down, bounds, history>>
    BY <1>1 DEF ClientSendsData
  <2>2. Data(app, "app") \in Datagram /\ Data(app, "app").key = app.key
        /\ Data(app, "app").kind = "data"
    BY SentTyped DEF ObjectsTyped, Data
  <2>3. app' \in Packet /\ app'.key = app.key
    BY <2>1, PacketsTyped DEF ObjectsTyped
  <2>4. DatagramsTyped'
    BY <2>1, <2>2 DEF DatagramsTyped, KeysTyped
  <2>5. HistoryTyped'
    BY <2>1 DEF HistoryTyped, KeyedData
  <2> QED BY <2>1, <2>3, <2>4, <2>5 DEF ObjectsTyped, KeysTyped
<1>2. CASE ServerSendsPlainHeartbeat
  <2>1. down' = down \cup {Heartbeat(0, 0)}
        /\ UNCHANGED <<entry, app, beat, keys, drawing, up, bounds, history>>
    BY <1>2 DEF ServerSendsPlainHeartbeat
  <2>2. Heartbeat(0, 0) \in Datagram /\ Heartbeat(0, 0).key = 0
        /\ Heartbeat(0, 0).kind = "heartbeat"
    BY DEF Datagram, Heartbeat, Threads
  <2>3. DatagramsTyped'
    BY <2>1, <2>2 DEF DatagramsTyped
  <2>4. HistoryTyped'
    BY <2>1 DEF HistoryTyped, KeyedData
  <2> QED BY <2>1, <2>3, <2>4 DEF ObjectsTyped, KeysTyped
<1>3. ASSUME NEW t \in Threads, DrawSequence(t) PROVE Typed'
  <2>1. drawing' = [drawing EXCEPT ![t] = <<entry.next_seq>>]
        /\ raced' = (raced \/ \E u \in Threads : drawing[u] # <<>>)
        /\ UNCHANGED <<entry, app, beat, keys, up, down, bounds, got, twice, spent, refused>>
    BY <1>3 DEF DrawSequence
  <2>2. <<entry.next_seq>> \in Seq(Nat) /\ Len(<<entry.next_seq>>) <= 2
    BY DEF ObjectsTyped, Packet
  <2>3. ObjectsTyped'
    BY <2>1, <2>2 DEF ObjectsTyped
  <2>4. raced' \in BOOLEAN
    BY <2>1
  <2> QED BY <2>1, <2>3, <2>4 DEF KeysTyped, DatagramsTyped, HistoryTyped
<1>4. ASSUME NEW t \in Threads, ReadAgain(t) PROVE Typed'
  <2>1. drawing' = [drawing EXCEPT ![t] = Append(@, entry.next_seq)]
        /\ Len(drawing[t]) = 1
        /\ UNCHANGED <<entry, app, beat, keys, up, down, bounds, history>>
    BY <1>4 DEF ReadAgain
  <2>2. Append(drawing[t], entry.next_seq) \in Seq(Nat)
        /\ Len(Append(drawing[t], entry.next_seq)) <= 2
    <3>1. drawing[t] \in Seq(Nat) /\ entry.next_seq \in Nat
      BY DEF ObjectsTyped, Packet
    <3> QED BY <2>1, <3>1, SecondReadTyped
  <2>3. ObjectsTyped'
    BY <2>1, <2>2 DEF ObjectsTyped
  <2> QED BY <2>1, <2>3 DEF KeysTyped, DatagramsTyped, HistoryTyped
<1>5. ASSUME NEW t \in Threads, StoreAndSend(t) PROVE Typed'
  <2> DEFINE sent == IF t = "heartbeat" THEN Heartbeat(entry.key, drawing[t][1])
                     ELSE Data([entry EXCEPT !.next_seq = drawing[t][1]], t)
  <2>1. /\ Len(drawing[t]) = 2
        /\ entry' = [entry EXCEPT !.next_seq = drawing[t][2] + 1]
        /\ drawing' = [drawing EXCEPT ![t] = <<>>]
        /\ down' = down \cup {sent}
        /\ UNCHANGED <<app, beat, keys, up, bounds, history>>
    BY <1>5 DEF StoreAndSend
  <2>2. drawing[t][1] \in Nat /\ drawing[t][2] \in Nat
    <3>1. drawing[t] \in Seq(Nat)
      BY DEF ObjectsTyped
    <3> QED BY <2>1, <3>1, ElementOfSeq
  <2>0. entry \in Packet
    BY DEF ObjectsTyped
  <2>3. sent \in Datagram /\ sent.key = entry.key /\ sent.kind # "ack"
    <3>1. CASE t = "heartbeat"
      BY <2>0, <2>2, <3>1 DEF Packet, Datagram, Heartbeat, Threads
    <3>2. CASE t # "heartbeat"
      <4>1. sent = Data([entry EXCEPT !.next_seq = drawing[t][1]], t)
        BY <3>2
      <4>2. sent.kind = "data"
        BY <4>1 DEF Data
      <4> QED BY <2>0, <2>2, <4>1, <4>2, SentTyped
    <3> QED BY <3>1, <3>2
  <2>4. entry' \in Packet /\ entry'.key = entry.key
    BY <2>0, <2>1, <2>2 DEF Packet
  <2>5. ObjectsTyped'
    BY <2>1, <2>4 DEF ObjectsTyped
  <2> HIDE DEF sent
  <2>6. DatagramsTyped'
    BY <2>1, <2>3 DEF DatagramsTyped, KeysTyped
  <2>7. HistoryTyped'
    BY <2>1 DEF HistoryTyped, KeyedData
  <2> QED BY <2>1, <2>4, <2>5, <2>6, <2>7 DEF KeysTyped
<1> QED BY <1>1, <1>2, <1>3, <1>4, <1>5 DEF SendStep

\* The outcome of unpack_data is recorded with the side it belongs to.
LEMMA UnpackTyped ==
  ASSUME HistoryTyped, UNCHANGED <<up, down, raced>>,
         NEW side \in Sides, NEW p \in Packet, p.key # 0,
         NEW m \in IF side = "server" THEN up ELSE down,
         m \in Datagram, m.kind = "data", Unpack(side, p, m)
  PROVE  HistoryTyped'
<1>1. /\ got' \in [Sides -> SUBSET Datagram]
      /\ \A s \in Sides : got'[s] \subseteq
           got[s] \cup (IF s = side /\ m.key = p.key THEN {m} ELSE {})
  BY DEF Unpack, HistoryTyped
<1>2. spent' \in [Sides -> SUBSET Nat]
  BY DEF Unpack, HistoryTyped, Datagram
<1>3. /\ refused' \in [Sides -> SUBSET Datagram]
      /\ \A s \in Sides : refused'[s] \subseteq
           refused[s] \cup (IF s = side /\ m.key = p.key THEN {m} ELSE {})
  BY DEF Unpack, HistoryTyped
<1>4. "server" \in Sides /\ "client" \in Sides /\ Sides = {"server", "client"}
  BY DEF Sides
<1>5. CASE side = "server"
  <2>1. m \in KeyedData(up) \/ m.key # p.key
    BY <1>5 DEF KeyedData
  <2> QED BY <1>1, <1>2, <1>3, <1>4, <1>5, <2>1 DEF HistoryTyped
<1>6. CASE side = "client"
  <2>1. m \in KeyedData(down) \/ m.key # p.key
    BY <1>6 DEF KeyedData
  <2> QED BY <1>1, <1>2, <1>3, <1>4, <1>6, <2>1 DEF HistoryTyped
<1> QED BY <1>4, <1>5, <1>6

\* A receipt moves a window, and an answer carries the answerer's key.
LEMMA ReceiveStepTyped ==
  Typed /\ ReceiveStep => Typed'
<1> SUFFICES ASSUME Typed, ReceiveStep PROVE Typed'
  OBVIOUS
<1> USE DEF Typed, history, bounds, keys
<1>1. CASE ServerGetsData
  <2> PICK m \in up : /\ m.kind = "data" /\ Unpack("server", entry, m)
                      /\ entry' = Seen(entry, m)
    BY <1>1 DEF ServerGetsData
  <2>1. entry.key # 0
        /\ UNCHANGED <<app, beat, keys, drawing, up, down, bounds, raced>>
    BY <1>1 DEF ServerGetsData
  <2>2. entry' \in Packet /\ entry'.key = entry.key
    BY SeenTyped DEF ObjectsTyped, DatagramsTyped
  <2>3. HistoryTyped'
    BY <2>1, UnpackTyped DEF ObjectsTyped, DatagramsTyped, Sides
  <2> QED BY <2>1, <2>2, <2>3 DEF ObjectsTyped, KeysTyped, DatagramsTyped
<1>2. CASE ClientGetsData
  <2> PICK m \in down : /\ m.kind = "data" /\ Unpack("client", app, m)
                        /\ app' = Seen(app, m)
    BY <1>2 DEF ClientGetsData
  <2>1. app.key # 0
        /\ UNCHANGED <<entry, beat, keys, drawing, up, down, bounds, raced>>
    BY <1>2 DEF ClientGetsData
  <2>2. app' \in Packet /\ app'.key = app.key
    BY SeenTyped DEF ObjectsTyped, DatagramsTyped
  <2>3. HistoryTyped'
    BY <2>1, UnpackTyped DEF ObjectsTyped, DatagramsTyped, Sides
  <2> QED BY <2>1, <2>2, <2>3 DEF ObjectsTyped, KeysTyped, DatagramsTyped
<1>3. CASE ClientAnswersUnkeyed \/ ClientAnswersHeartbeat
  <2>1. UNCHANGED <<entry, app, keys, drawing, down, bounds, history>>
    BY <1>3 DEF ClientAnswersUnkeyed, ClientAnswersHeartbeat
  <2>2. beat' \in Packet /\ beat'.key = beat.key
    BY <1>3, PacketsTyped, SeenTyped
       DEF ClientAnswersUnkeyed, ClientAnswersHeartbeat, ObjectsTyped, DatagramsTyped
  <2>3. up' = up \/ up' = up \cup {Ack(beat)}
    BY <1>3 DEF ClientAnswersUnkeyed, ClientAnswersHeartbeat
  <2>4. Ack(beat) \in Datagram /\ Ack(beat).key = beat.key /\ Ack(beat).kind = "ack"
    BY DEF ObjectsTyped, Packet, Datagram, Ack
  <2>5. DatagramsTyped'
    BY <2>1, <2>3, <2>4 DEF DatagramsTyped, KeysTyped
  <2>6. HistoryTyped'
    BY <2>1, <2>3 DEF HistoryTyped, KeyedData
  <2> QED BY <2>1, <2>2, <2>5, <2>6 DEF ObjectsTyped, KeysTyped
<1>4. CASE ServerGetsAck
  <2> PICK m \in up : /\ entry' = Seen(entry, m)
                      /\ spent' = [spent EXCEPT !["server"] = @ \cup {m.seq}]
    BY <1>4 DEF ServerGetsAck
  <2>1. UNCHANGED <<app, beat, keys, drawing, up, down, bounds, raced, got, twice, refused>>
    BY <1>4 DEF ServerGetsAck
  <2>2. entry' \in Packet /\ entry'.key = entry.key
    BY SeenTyped DEF ObjectsTyped, DatagramsTyped
  <2>3. m.seq \in Nat
    BY DEF DatagramsTyped, Datagram
  <2>4. HistoryTyped'
    BY <2>1, <2>3 DEF HistoryTyped
  <2> QED BY <2>1, <2>2, <2>4 DEF ObjectsTyped, KeysTyped, DatagramsTyped
<1> QED BY <1>1, <1>2, <1>3, <1>4 DEF ReceiveStep

\* Every variable keeps its type.
THEOREM TypesHold == Spec => []Typed
<1>1. Init => Typed
  <2> SUFFICES ASSUME Init PROVE Typed
    OBVIOUS
  <2>1. ObjectsTyped
    BY NewPacketTyped DEF Init, ObjectsTyped
  <2>2. KeysTyped
    BY NewPacketTyped, TunnelAssumption DEF Init, KeysTyped, Scenario
  <2>3. DatagramsTyped
    BY DEF Init, DatagramsTyped
  <2>4. HistoryTyped
    BY DEF Init, HistoryTyped, Sides
  <2> QED BY <2>1, <2>2, <2>3, <2>4 DEF Typed
<1>2. Typed /\ [Next]_vars => Typed'
  <2> SUFFICES ASSUME Typed, [Next]_vars PROVE Typed'
    OBVIOUS
  <2>1. CASE UNCHANGED vars
    BY <2>1 DEF vars, Typed, ObjectsTyped, KeysTyped, DatagramsTyped, HistoryTyped
  <2> QED BY <2>1, KeyStepTyped, SendStepTyped, ReceiveStepTyped DEF Next
<1> QED BY <1>1, <1>2, PTL DEF Spec

\* The type invariant the runs check.
THEOREM TypeCorrect == Spec => []TypeOK
<1>1. Typed => TypeOK
  BY DEF Typed, ObjectsTyped, KeysTyped, DatagramsTyped, TypeOK, Keys, Packet,
         Window, Datagram, Scenario
<1> QED BY <1>1, TypesHold, PTL

-----------------------------------------------------------------------------
(* Nothing is delivered twice.                                             *)

\* What the server has delivered under the key it has, or under the key it
\* will take when the client's Finished comes, is in its window.  A key of an
\* earlier life of the entry cannot come back: hellos only grow.
ServerCovers ==
  \A m \in got["server"] :
    m.key \in {entry.key, session} => ~Admits(entry.rx, m.seq)

\* The client's window is never replaced, so its keys may come back.
ClientCovers == \A m \in got["client"] : ~Admits(app.rx, m.seq)

Covered == ServerCovers /\ ClientCovers /\ DataOnce

\* A step that delivers nothing leaves what was delivered covered: the server
\* gives up window, key and session together or keeps the window.
LEMMA QuietStepCovered ==
  ASSUME Typed, Covered,
         UNCHANGED <<got, twice>>, app'.rx = app.rx,
         \/ /\ entry'.rx = entry.rx /\ entry'.key \in {entry.key, session}
            /\ session' \in {session, hellos + 1}
         \/ entry'.key = 0 /\ session' = 0
  PROVE  Covered'
<1>1. \A m \in got["server"] : m.key \in 1..hellos
  BY DEF Typed, HistoryTyped, DatagramsTyped, KeysTyped, KeyedData
<1>2. hellos \in Nat
  BY DEF Typed, KeysTyped
<1>3. ServerCovers'
  BY <1>1, <1>2 DEF Covered, ServerCovers
<1> QED BY <1>3 DEF Covered, ClientCovers, DataOnce

\* Keys and windows.
LEMMA KeyStepCovered ==
  Typed /\ Covered /\ KeyStep => Covered'
<1> SUFFICES ASSUME Typed, Covered, KeyStep PROVE Covered'
  OBVIOUS
<1> USE DEF history, bounds, keys
<1>0. entry \in Packet /\ app \in Packet /\ session \in Nat /\ hellos \in Nat
  BY DEF Typed, ObjectsTyped, KeysTyped
<1>1. CASE HandleClientHello
  BY <1>1, QuietStepCovered DEF HandleClientHello
<1>2. CASE HandleServerFinished
  <2>1. app'.rx = app.rx
    BY <1>0, <1>2, PacketsTyped DEF HandleServerFinished
  <2> QED BY <1>2, <2>1, QuietStepCovered DEF HandleServerFinished
<1>3. CASE HandleClientFinished
  <2>1. entry'.rx = entry.rx /\ entry'.key = session
    BY <1>0, <1>3, PacketsTyped DEF HandleClientFinished
  <2> QED BY <1>3, <2>1, QuietStepCovered DEF HandleClientFinished
<1>4. CASE ServerForgets
  BY <1>4, QuietStepCovered, NewPacketTyped DEF ServerForgets
<1>5. CASE ClientForgets
  BY <1>5, QuietStepCovered DEF ClientForgets
<1> QED BY <1>1, <1>2, <1>3, <1>4, <1>5 DEF KeyStep

\* Counters.
LEMMA SendStepCovered ==
  Typed /\ Covered /\ SendStep => Covered'
<1> SUFFICES ASSUME Typed, Covered, SendStep PROVE Covered'
  OBVIOUS
<1> USE DEF history, bounds, keys
<1>0. entry \in Packet /\ app \in Packet
  BY DEF Typed, ObjectsTyped
<1>1. CASE ClientSendsData
  BY <1>0, <1>1, PacketsTyped, QuietStepCovered DEF ClientSendsData
<1>2. CASE ServerSendsPlainHeartbeat
  BY <1>2, QuietStepCovered DEF ServerSendsPlainHeartbeat
<1>3. ASSUME NEW t \in Threads, DrawSequence(t) \/ ReadAgain(t) PROVE Covered'
  BY <1>3, QuietStepCovered DEF DrawSequence, ReadAgain
<1>4. ASSUME NEW t \in Threads, StoreAndSend(t) PROVE Covered'
  <2>1. entry'.rx = entry.rx /\ entry'.key = entry.key
    BY <1>0, <1>4 DEF StoreAndSend, Packet
  <2> QED BY <1>4, <2>1, QuietStepCovered DEF StoreAndSend
<1> QED BY <1>1, <1>2, <1>3, <1>4 DEF SendStep

\* Deliveries: what check_and_update admits was never delivered under the key
\* that decrypts it, and it is refused ever after.
LEMMA ReceiveStepCovered ==
  Typed /\ Covered /\ ReceiveStep => Covered'
<1> SUFFICES ASSUME Typed, Covered, ReceiveStep PROVE Covered'
  OBVIOUS
<1> USE DEF history, bounds, keys
<1>0. entry \in Packet /\ app \in Packet /\ entry.rx \in Window /\ app.rx \in Window
  BY DEF Typed, ObjectsTyped, Packet
<1>1. CASE ServerGetsData
  <2> PICK m \in up : Unpack("server", entry, m) /\ entry' = Seen(entry, m)
    BY <1>1 DEF ServerGetsData
  <2>1. UNCHANGED <<app, session>>
    BY <1>1 DEF ServerGetsData
  <2>2. m \in Datagram /\ m.seq \in Nat
    BY DEF Typed, DatagramsTyped, Datagram
  <2>3. entry'.key = entry.key /\ entry'.rx = Updated(entry.rx, m.seq)
    BY <1>0, <2>2, SeenTyped
  <2>4. /\ \A o \in got["server"] : o.seq \in Nat
        /\ got'["client"] = got["client"]
        /\ got'["server"] \subseteq got["server"] \cup {m}
    BY DEF Typed, HistoryTyped, Unpack, Sides, Datagram
  <2>5. ServerCovers'
    <3> SUFFICES ASSUME NEW o \in got'["server"], o.key \in {entry.key, session}
                 PROVE  ~Admits(entry'.rx, o.seq)
      BY <2>1, <2>3 DEF ServerCovers
    <3>1. CASE o = m
      BY <1>0, <2>2, <2>3, <3>1, ItsNumberIsRefused
    <3>2. CASE o \in got["server"]
      <4>1. ~Admits(entry.rx, o.seq) /\ o.seq \in Nat
        BY <2>4, <3>2 DEF Covered, ServerCovers
      <4> QED BY <1>0, <2>2, <2>3, <4>1, RefusedForGood
    <3> QED BY <2>4, <3>1, <3>2
  <2>6. ClientCovers'
    BY <2>1, <2>4 DEF Covered, ClientCovers
  <2>7. DataOnce'
    BY DEF Covered, ServerCovers, DataOnce, Unpack
  <2> QED BY <2>5, <2>6, <2>7 DEF Covered
<1>2. CASE ClientGetsData
  <2> PICK m \in down : Unpack("client", app, m) /\ app' = Seen(app, m)
    BY <1>2 DEF ClientGetsData
  <2>1. UNCHANGED <<entry, session>>
    BY <1>2 DEF ClientGetsData
  <2>2. m \in Datagram /\ m.seq \in Nat
    BY DEF Typed, DatagramsTyped, Datagram
  <2>3. app'.rx = Updated(app.rx, m.seq)
    BY <1>0, <2>2, SeenTyped
  <2>4. /\ \A o \in got["client"] : o.seq \in Nat
        /\ got'["server"] = got["server"]
        /\ got'["client"] \subseteq got["client"] \cup {m}
    BY DEF Typed, HistoryTyped, Unpack, Sides, Datagram
  <2>5. ClientCovers'
    <3> SUFFICES ASSUME NEW o \in got'["client"] PROVE ~Admits(app'.rx, o.seq)
      BY DEF ClientCovers
    <3>1. CASE o = m
      BY <1>0, <2>2, <2>3, <3>1, ItsNumberIsRefused
    <3>2. CASE o \in got["client"]
      <4>1. ~Admits(app.rx, o.seq) /\ o.seq \in Nat
        BY <2>4, <3>2 DEF Covered, ClientCovers
      <4> QED BY <1>0, <2>2, <2>3, <4>1, RefusedForGood
    <3> QED BY <2>4, <3>1, <3>2
  <2>6. ServerCovers'
    BY <2>1, <2>4 DEF Covered, ServerCovers
  <2>7. DataOnce'
    BY DEF Covered, ClientCovers, DataOnce, Unpack
  <2> QED BY <2>5, <2>6, <2>7 DEF Covered
<1>3. CASE ClientAnswersUnkeyed \/ ClientAnswersHeartbeat
  BY <1>3, QuietStepCovered DEF ClientAnswersUnkeyed, ClientAnswersHeartbeat
<1>4. CASE ServerGetsAck
  <2> PICK m \in up : entry' = Seen(entry, m)
    BY <1>4 DEF ServerGetsAck
  <2>1. UNCHANGED <<app, session, got, twice>>
    BY <1>4 DEF ServerGetsAck
  <2>2. m \in Datagram /\ m.seq \in Nat
    BY DEF Typed, DatagramsTyped, Datagram
  <2>3. entry'.key = entry.key /\ entry'.rx = Updated(entry.rx, m.seq)
    BY <1>0, <2>2, SeenTyped
  <2>4. \A o \in got["server"] : o.seq \in Nat
    BY DEF Typed, HistoryTyped, Sides, Datagram
  <2>5. ServerCovers'
    BY <1>0, <2>1, <2>2, <2>3, <2>4, RefusedForGood DEF Covered, ServerCovers
  <2> QED BY <2>1, <2>5 DEF Covered, ClientCovers, DataOnce
<1> QED BY <1>1, <1>2, <1>3, <1>4 DEF ReceiveStep

\* The windows cover what was delivered in every reachable state.
THEOREM CoveredHolds == Spec => []Covered
<1>1. Init => Covered
  BY DEF Init, Covered, ServerCovers, ClientCovers, DataOnce, Sides
<1>2. Typed /\ Covered /\ [Next]_vars => Covered'
  <2> SUFFICES ASSUME Typed, Covered, [Next]_vars PROVE Covered'
    OBVIOUS
  <2>1. CASE UNCHANGED vars
    BY <2>1 DEF vars, Covered, ServerCovers, ClientCovers, DataOnce
  <2> QED BY <2>1, KeyStepCovered, SendStepCovered, ReceiveStepCovered DEF Next
<1> QED BY <1>1, <1>2, TypesHold, PTL DEF Spec

\* No packet comes out of the tunnel twice at either end: not across a second
\* handshake, which keeps the window and changes the key, and not across a
\* time-out, which empties the server's window (src/crypto_handshake.py:
\* check_and_update, src/packet_encap.py: unpack_data, set_crypto_session).
THEOREM DeliveredOnce == Spec => []DataOnce
BY CoveredHolds, PTL DEF Covered

\* The windows behind it: what was delivered under the key an object has is
\* refused by its window.
THEOREM WindowsCover == Spec => []WindowCoversKey
<1>1. Covered => WindowCoversKey
  BY DEF Covered, ServerCovers, ClientCovers, WindowCoversKey
<1> QED BY <1>1, CoveredHolds, PTL

-----------------------------------------------------------------------------
(* Numbers.                                                                *)

\* The client's data is numbered by one thread from one counter.
UpNumbers ==
  /\ \A m \in up : m.kind = "data" => m.seq < app.next_seq
  /\ \A m, o \in up : m.kind = "data" /\ o.kind = "data" /\ m.seq = o.seq => m = o

\* Until two of the server's threads meet in next_sequence, the one inside has
\* read the counter as it is, what was sent under the entry's key, or under
\* the key it will take, is below the counter, and no two packets of a key
\* share a number.
OneAtATime ==
  /\ \A t, u \in Threads : drawing[t] # <<>> /\ drawing[u] # <<>> => t = u
  /\ \A t \in Threads : \A i \in 1..Len(drawing[t]) : drawing[t][i] = entry.next_seq
  /\ \A m \in down : m.key # 0 /\ m.key \in {entry.key, session}
                       => m.seq < entry.next_seq
  /\ \A m, o \in down : m.key # 0 /\ m.key = o.key /\ m.seq = o.seq => m = o

DownNumbers == raced \/ OneAtATime

\* Numbers are drawn only by an entry that has a key.
DrawnUnderAKey == \A t \in Threads : drawing[t] # <<>> => entry.key # 0

Numbered == UpNumbers /\ DownNumbers /\ DrawnUnderAKey

\* A step that sends nothing and leaves the counters alone, or that starts the
\* entry anew while nobody draws, leaves the numbers in order.
LEMMA QuietStepNumbered ==
  ASSUME Typed, Numbered,
         UNCHANGED <<drawing, down, raced>>,
         up' = up \/ \E m : m.kind = "ack" /\ up' = up \cup {m},
         app'.next_seq = app.next_seq,
         \/ /\ entry'.next_seq = entry.next_seq
            /\ entry'.key = entry.key \/ (entry'.key = session /\ session # 0)
            /\ session' \in {session, hellos + 1}
         \/ /\ entry'.key = 0 /\ session' = 0
            /\ \A t \in Threads : drawing[t] = <<>>
  PROVE  Numbered'
<1>1. UpNumbers'
  BY DEF Numbered, UpNumbers
<1>2. DrawnUnderAKey'
  BY DEF Numbered, DrawnUnderAKey
<1>0. hellos \in Nat
  BY DEF Typed, KeysTyped
<1>3. ASSUME NEW m \in down PROVE m.key \in 0..hellos
  <2>1. \A k \in verified : k \in 1..hellos
    BY DEF Typed, KeysTyped
  <2>2. m.key \in verified \cup {0}
    BY DEF Typed, DatagramsTyped
  <2>3. CASE m.key \in verified
    BY <1>0, <2>1, <2>3
  <2>4. CASE m.key = 0
    BY <1>0, <2>4
  <2> QED BY <2>2, <2>3, <2>4
<1>4. ASSUME ~raced PROVE OneAtATime'
  <2>1. OneAtATime
    BY <1>4 DEF Numbered, DownNumbers
  <2>2. \A m \in down : m.key # 0 /\ m.key \in {entry'.key, session'}
                          => m.seq < entry'.next_seq
    BY <1>0, <1>3, <2>1 DEF OneAtATime
  <2>3. \A t \in Threads : \A i \in 1..Len(drawing[t]) : drawing[t][i] = entry'.next_seq
    BY <2>1 DEF OneAtATime
  <2> QED BY <2>1, <2>2, <2>3 DEF OneAtATime
<1> QED BY <1>1, <1>2, <1>4 DEF Numbered, DownNumbers

\* Keys and windows.
LEMMA KeyStepNumbered ==
  Typed /\ Numbered /\ KeyStep => Numbered'
<1> SUFFICES ASSUME Typed, Numbered, KeyStep PROVE Numbered'
  OBVIOUS
<1> USE DEF history, bounds, keys
<1>0. entry \in Packet /\ app \in Packet /\ session \in Nat /\ hellos \in Nat
      /\ verified \subseteq 1..hellos
  BY DEF Typed, ObjectsTyped, KeysTyped
<1>1. CASE HandleClientHello
  BY <1>1, QuietStepNumbered DEF HandleClientHello
<1>2. CASE HandleServerFinished
  <2>1. app'.next_seq = app.next_seq
    BY <1>0, <1>2, PacketsTyped DEF HandleServerFinished
  <2> QED BY <1>2, <2>1, QuietStepNumbered DEF HandleServerFinished
<1>3. CASE HandleClientFinished
  <2>1. entry'.next_seq = entry.next_seq /\ entry'.key = session /\ session # 0
    BY <1>0, <1>3, PacketsTyped DEF HandleClientFinished
  <2> QED BY <1>3, <2>1, QuietStepNumbered DEF HandleClientFinished
<1>4. CASE ServerForgets
  BY <1>4, QuietStepNumbered, NewPacketTyped DEF ServerForgets
<1>5. CASE ClientForgets
  BY <1>5, QuietStepNumbered DEF ClientForgets
<1> QED BY <1>1, <1>2, <1>3, <1>4, <1>5 DEF KeyStep

\* Receipts.
LEMMA ReceiveStepNumbered ==
  Typed /\ Numbered /\ ReceiveStep => Numbered'
<1> SUFFICES ASSUME Typed, Numbered, ReceiveStep PROVE Numbered'
  OBVIOUS
<1> USE DEF history, bounds, keys
<1>0. entry \in Packet /\ app \in Packet /\ up \subseteq Datagram /\ down \subseteq Datagram
  BY DEF Typed, ObjectsTyped, DatagramsTyped
<1>1. CASE ServerGetsData \/ ServerGetsAck
  <2> PICK m \in up : entry' = Seen(entry, m)
    BY <1>1 DEF ServerGetsData, ServerGetsAck
  <2>1. entry'.key = entry.key /\ entry'.next_seq = entry.next_seq
    BY <1>0, SeenTyped
  <2> QED BY <1>1, <2>1, QuietStepNumbered DEF ServerGetsData, ServerGetsAck
<1>2. CASE ClientGetsData
  <2> PICK m \in down : app' = Seen(app, m)
    BY <1>2 DEF ClientGetsData
  <2>1. app'.next_seq = app.next_seq
    BY <1>0, SeenTyped
  <2> QED BY <1>2, <2>1, QuietStepNumbered DEF ClientGetsData
<1>3. CASE ClientAnswersUnkeyed \/ ClientAnswersHeartbeat
  <2>1. up' = up \/ up' = up \cup {Ack(beat)}
    BY <1>3 DEF ClientAnswersUnkeyed, ClientAnswersHeartbeat
  <2>2. up' = up \/ \E m : m.kind = "ack" /\ up' = up \cup {m}
    BY <2>1 DEF Ack
  <2> QED BY <1>3, <2>2, QuietStepNumbered DEF ClientAnswersUnkeyed, ClientAnswersHeartbeat
<1> QED BY <1>1, <1>2, <1>3 DEF ReceiveStep

\* The client sends the next number; a thread of the server that nobody has
\* met in next_sequence does so too.
LEMMA SendStepNumbered ==
  Typed /\ Numbered /\ SendStep => Numbered'
<1> SUFFICES ASSUME Typed, Numbered, SendStep PROVE Numbered'
  OBVIOUS
<1> USE DEF history, bounds, keys
<1>0. /\ entry \in Packet /\ entry.next_seq \in Nat
      /\ app \in Packet /\ app.next_seq \in Nat
      /\ up \subseteq Datagram /\ down \subseteq Datagram
      /\ drawing \in [Threads -> Seq(Nat)]
  BY DEF Typed, ObjectsTyped, DatagramsTyped, Packet
<1>1. CASE ClientSendsData
  <2>1. up' = up \cup {Data(app, "app")} /\ app' = Drawn(app)
        /\ UNCHANGED <<entry, session, drawing, down, raced>>
    BY <1>1 DEF ClientSendsData
  <2>2. app'.next_seq = app.next_seq + 1
    BY <1>0, <2>1, PacketsTyped
  <2>3. Data(app, "app").seq = app.next_seq
    BY DEF Data
  <2>4. \A m \in up : m.seq \in Nat
    BY <1>0 DEF Datagram
  <2>5. UpNumbers'
    BY <1>0, <2>1, <2>2, <2>3, <2>4 DEF Numbered, UpNumbers
  <2> QED BY <2>1, <2>5 DEF Numbered, DownNumbers, OneAtATime, DrawnUnderAKey
<1>2. CASE ServerSendsPlainHeartbeat
  <2>1. down' = down \cup {Heartbeat(0, 0)} /\ Heartbeat(0, 0).key = 0
        /\ UNCHANGED <<entry, app, session, up, drawing, raced>>
    BY <1>2 DEF ServerSendsPlainHeartbeat, Heartbeat
  <2>2. DownNumbers'
    BY <2>1 DEF Numbered, DownNumbers, OneAtATime
  <2> QED BY <2>1, <2>2 DEF Numbered, UpNumbers, DrawnUnderAKey
<1>3. ASSUME NEW t \in Threads, DrawSequence(t) PROVE Numbered'
  <2>1. /\ drawing[t] = <<>> /\ entry.key # 0
        /\ drawing' = [drawing EXCEPT ![t] = <<entry.next_seq>>]
        /\ raced' = (raced \/ \E u \in Threads : drawing[u] # <<>>)
        /\ UNCHANGED <<entry, app, session, up, down>>
    BY <1>3 DEF DrawSequence
  <2>2. ASSUME ~raced' PROVE OneAtATime'
    <3>1. OneAtATime /\ \A u \in Threads : drawing[u] = <<>>
      BY <2>1, <2>2 DEF Numbered, DownNumbers
    <3>2. \A u \in Threads : u # t => drawing'[u] = <<>>
      BY <1>0, <2>1, <3>1
    <3>3. drawing'[t] = <<entry.next_seq>>
      BY <1>0, <2>1
    <3>4. \A u \in Threads : \A i \in 1..Len(drawing'[u]) : drawing'[u][i] = entry.next_seq
      BY <1>0, <3>2, <3>3
    <3> QED BY <2>1, <3>1, <3>2, <3>4 DEF OneAtATime
  <2>3. DrawnUnderAKey'
    BY <1>0, <2>1 DEF Numbered, DrawnUnderAKey
  <2> QED BY <2>1, <2>2, <2>3 DEF Numbered, DownNumbers, UpNumbers
<1>4. ASSUME NEW t \in Threads, ReadAgain(t) PROVE Numbered'
  <2> DEFINE reads == Append(drawing[t], entry.next_seq)
  <2>1. /\ Len(drawing[t]) = 1 /\ drawing[t] # <<>>
        /\ drawing' = [drawing EXCEPT ![t] = reads]
        /\ UNCHANGED <<entry, app, session, up, down, raced>>
    BY <1>4 DEF ReadAgain
  <2>2. reads[1] = drawing[t][1] /\ reads[2] = entry.next_seq /\ Len(reads) \in 0..2
    BY <1>0, <2>1, SecondReadTyped
  <2> HIDE DEF reads
  <2>3. DrawnUnderAKey'
    BY <1>0, <2>1 DEF Numbered, DrawnUnderAKey
  <2>4. ASSUME OneAtATime PROVE OneAtATime'
    <3>1. \A u, v \in Threads : drawing'[u] # <<>> /\ drawing'[v] # <<>> => u = v
      BY <1>0, <2>1, <2>4 DEF OneAtATime
    <3>2. drawing[t][1] = entry.next_seq
      BY <2>1, <2>4 DEF OneAtATime
    <3>3. \A i \in 1..Len(reads) : reads[i] = entry.next_seq
      BY <2>2, <3>2
    <3>4. \A u \in Threads : \A i \in 1..Len(drawing'[u]) : drawing'[u][i] = entry.next_seq
      BY <1>0, <2>1, <2>4, <3>3 DEF OneAtATime
    <3> QED BY <2>1, <2>4, <3>1, <3>4 DEF OneAtATime
  <2> QED BY <2>1, <2>3, <2>4 DEF Numbered, DownNumbers, UpNumbers
<1>5. ASSUME NEW t \in Threads, StoreAndSend(t) PROVE Numbered'
  <2> DEFINE sent == IF t = "heartbeat" THEN Heartbeat(entry.key, drawing[t][1])
                     ELSE Data([entry EXCEPT !.next_seq = drawing[t][1]], t)
  <2>1. /\ Len(drawing[t]) = 2 /\ drawing[t] # <<>>
        /\ entry' = [entry EXCEPT !.next_seq = drawing[t][2] + 1]
        /\ drawing' = [drawing EXCEPT ![t] = <<>>]
        /\ down' = down \cup {sent}
        /\ UNCHANGED <<app, session, up, raced>>
    BY <1>5 DEF StoreAndSend
  <2>2. entry'.key = entry.key /\ entry'.next_seq = drawing[t][2] + 1
    BY <1>0, <2>1 DEF Packet
  <2>3. sent.key = entry.key /\ sent.seq = drawing[t][1]
    BY <1>0 DEF Heartbeat, Data, Packet
  <2> HIDE DEF sent
  <2>4. DrawnUnderAKey'
    BY <1>0, <2>1, <2>2 DEF Numbered, DrawnUnderAKey
  <2>5. ASSUME OneAtATime PROVE OneAtATime'
    <3>1. \A u \in Threads : drawing'[u] = <<>>
      BY <1>0, <2>1, <2>5 DEF OneAtATime
    <3>2. entry'.next_seq = entry.next_seq + 1 /\ sent.seq = entry.next_seq
      BY <2>1, <2>2, <2>3, <2>5 DEF OneAtATime
    <3>3. \A m \in down : m.seq \in Nat
      BY <1>0 DEF Datagram
    <3>4. \A m \in down' : m.key # 0 /\ m.key \in {entry'.key, session'}
                             => m.seq < entry'.next_seq
      BY <1>0, <2>1, <2>2, <2>5, <3>2, <3>3 DEF OneAtATime
    <3>5. \A m \in down : m.key # 0 /\ m.key = sent.key => m.seq # sent.seq
      BY <1>0, <2>3, <2>5, <3>2, <3>3 DEF OneAtATime
    <3>6. \A m, o \in down' : m.key # 0 /\ m.key = o.key /\ m.seq = o.seq => m = o
      BY <2>1, <2>5, <3>5 DEF OneAtATime
    <3> QED BY <3>1, <3>4, <3>6 DEF OneAtATime
  <2> QED BY <2>1, <2>4, <2>5 DEF Numbered, DownNumbers, UpNumbers
<1> QED BY <1>1, <1>2, <1>3, <1>4, <1>5 DEF SendStep

\* The numbers are in order in every reachable state.
THEOREM NumberedHolds == Spec => []Numbered
<1>1. Init => Numbered
  BY DEF Init, Numbered, UpNumbers, DownNumbers, OneAtATime, DrawnUnderAKey
<1>2. Typed /\ Numbered /\ [Next]_vars => Numbered'
  <2> SUFFICES ASSUME Typed, Numbered, [Next]_vars PROVE Numbered'
    OBVIOUS
  <2>1. CASE UNCHANGED vars
    BY <2>1 DEF vars, Numbered, UpNumbers, DownNumbers, OneAtATime, DrawnUnderAKey
  <2> QED BY <2>1, KeyStepNumbered, SendStepNumbered, ReceiveStepNumbered DEF Next
<1> QED BY <1>1, <1>2, TypesHold, PTL DEF Spec

-----------------------------------------------------------------------------
(* Refusals.                                                               *)

\* The bits of a window are those of data it delivered and of what else took
\* its numbers.
ServerBitsHaveCause ==
  \A n \in Nat : Received(entry.rx, n) =>
    n \in spent["server"] \/ \E o \in got["server"] : o.seq = n

ClientBitsHaveCause ==
  \A n \in Nat : Received(app.rx, n) =>
    n \in spent["client"] \/ \E o \in got["client"] : o.seq = n

Caused == /\ ServerBitsHaveCause /\ ClientBitsHaveCause
          /\ UpRefusedWithCause /\ DownRefusedWithCause

\* Steps of the client's own window apart, its causes stay.
LEMMA ClientCausesStay ==
  ASSUME ClientBitsHaveCause, DownRefusedWithCause,
         app'.rx = app.rx, down \subseteq down', raced => raced',
         got'["client"] = got["client"], spent'["client"] = spent["client"],
         refused'["client"] = refused["client"]
  PROVE  ClientBitsHaveCause' /\ DownRefusedWithCause'
BY DEF ClientBitsHaveCause, DownRefusedWithCause, TooOld

\* And the server's, unless its entry begins anew and forgets with it.
LEMMA ServerCausesStay ==
  ASSUME ServerBitsHaveCause, UpRefusedWithCause,
         got'["server"] = got["server"],
         \/ /\ entry'.rx = entry.rx
            /\ spent'["server"] = spent["server"]
            /\ refused'["server"] = refused["server"]
         \/ entry'.rx = FreshWindow /\ refused'["server"] = {}
  PROVE  ServerBitsHaveCause' /\ UpRefusedWithCause'
BY FreshWindowTyped DEF ServerBitsHaveCause, UpRefusedWithCause, TooOld

\* A step that receives nothing.
LEMMA QuietStepCaused ==
  ASSUME Caused, UNCHANGED <<got, spent, refused>>,
         entry'.rx = entry.rx, app'.rx = app.rx,
         down \subseteq down', raced => raced'
  PROVE  Caused'
BY ClientCausesStay, ServerCausesStay DEF Caused

\* Keys and windows.
LEMMA KeyStepCaused ==
  Typed /\ Caused /\ KeyStep => Caused'
<1> SUFFICES ASSUME Typed, Caused, KeyStep PROVE Caused'
  OBVIOUS
<1> USE DEF history, bounds, keys
<1>0. entry \in Packet /\ app \in Packet /\ session \in Nat /\ hellos \in Nat
  BY DEF Typed, ObjectsTyped, KeysTyped
<1>1. CASE HandleClientHello
  BY <1>1, QuietStepCaused DEF HandleClientHello
<1>2. CASE HandleServerFinished
  <2>1. app'.rx = app.rx
    BY <1>0, <1>2, PacketsTyped DEF HandleServerFinished
  <2> QED BY <1>2, <2>1, QuietStepCaused DEF HandleServerFinished
<1>3. CASE HandleClientFinished
  <2>1. entry'.rx = entry.rx
    BY <1>0, <1>3, PacketsTyped DEF HandleClientFinished
  <2> QED BY <1>3, <2>1, QuietStepCaused DEF HandleClientFinished
<1>4. CASE ServerForgets
  <2>1. /\ entry' = NewTunnelPacket
        /\ spent' = [spent EXCEPT !["server"] = {}]
        /\ refused' = [refused EXCEPT !["server"] = {}]
        /\ UNCHANGED <<app, down, raced, got>>
    BY <1>4 DEF ServerForgets
  <2>2. entry'.rx = FreshWindow
    BY <2>1 DEF NewTunnelPacket
  <2>3. refused'["server"] = {} /\ refused'["client"] = refused["client"]
        /\ spent'["client"] = spent["client"]
    BY <2>1 DEF Typed, HistoryTyped, Sides
  <2> QED BY <2>1, <2>2, <2>3, ClientCausesStay, ServerCausesStay DEF Caused
<1>5. CASE ClientForgets
  BY <1>5, QuietStepCaused DEF ClientForgets
<1> QED BY <1>1, <1>2, <1>3, <1>4, <1>5 DEF KeyStep

\* Counters.
LEMMA SendStepCaused ==
  Typed /\ Caused /\ SendStep => Caused'
<1> SUFFICES ASSUME Typed, Caused, SendStep PROVE Caused'
  OBVIOUS
<1> USE DEF history, bounds, keys
<1>0. entry \in Packet /\ app \in Packet
  BY DEF Typed, ObjectsTyped
<1>1. CASE ClientSendsData
  BY <1>0, <1>1, PacketsTyped, QuietStepCaused DEF ClientSendsData
<1>2. CASE ServerSendsPlainHeartbeat
  BY <1>2, QuietStepCaused DEF ServerSendsPlainHeartbeat
<1>3. ASSUME NEW t \in Threads, DrawSequence(t) \/ ReadAgain(t) PROVE Caused'
  <2>1. UNCHANGED <<entry, app, down, got, spent, refused>>
    BY <1>3 DEF DrawSequence, ReadAgain
  <2>2. CASE DrawSequence(t)
    <3>1. raced' = (raced \/ \E u \in Threads : drawing[u] # <<>>)
      BY <2>2 DEF DrawSequence
    <3> QED BY <2>1, <3>1, QuietStepCaused
  <2>3. CASE ReadAgain(t)
    BY <2>1, <2>3, QuietStepCaused DEF ReadAgain
  <2> QED BY <1>3, <2>2, <2>3
<1>4. ASSUME NEW t \in Threads, StoreAndSend(t) PROVE Caused'
  <2>1. entry'.rx = entry.rx
    BY <1>0, <1>4 DEF StoreAndSend, Packet
  <2> QED BY <1>4, <2>1, QuietStepCaused DEF StoreAndSend
<1> QED BY <1>1, <1>2, <1>3, <1>4 DEF SendStep

\* The server receives data: its number is the data's own, so a bit that
\* refuses it without the data having been delivered is something else's.
LEMMA ServerGetsDataCaused ==
  Typed /\ Numbered /\ Caused /\ ServerGetsData => Caused'
<1> SUFFICES ASSUME Typed, Numbered, Caused, ServerGetsData PROVE Caused'
  OBVIOUS
<1> PICK m \in up : /\ m.kind = "data" /\ Unpack("server", entry, m)
                    /\ entry' = Seen(entry, m)
  BY DEF ServerGetsData
<1>1. UNCHANGED <<app, down, raced>>
  BY DEF ServerGetsData
<1>2. /\ entry \in Packet /\ entry.rx \in Window /\ m \in Datagram /\ m.seq \in Nat
      /\ entry'.rx = Updated(entry.rx, m.seq)
  BY SeenTyped DEF Typed, ObjectsTyped, DatagramsTyped, Packet, Datagram
<1>3. /\ entry.rx.max_seq \in Nat /\ entry'.rx.max_seq \in Nat
      /\ entry'.rx.max_seq >= entry.rx.max_seq
  BY <1>2, MaxSeqGrows, UpdatedTyped DEF Window
<1> DEFINE admitted == Admits(entry.rx, m.seq)
           accepted == admitted /\ m.key = entry.key
<1>4. /\ got' = IF accepted THEN [got EXCEPT !["server"] = @ \cup {m}] ELSE got
      /\ spent' = IF admitted /\ ~accepted
                  THEN [spent EXCEPT !["server"] = @ \cup {m.seq}] ELSE spent
      /\ refused' = IF ~admitted /\ m.key = entry.key /\ m \notin got["server"]
                    THEN [refused EXCEPT !["server"] = @ \cup {m}] ELSE refused
  BY DEF Unpack
<1> HIDE DEF admitted
<1>5. /\ got'["client"] = got["client"] /\ got["server"] \subseteq got'["server"]
      /\ spent'["client"] = spent["client"] /\ spent["server"] \subseteq spent'["server"]
      /\ refused'["client"] = refused["client"]
      /\ accepted => m \in got'["server"]
      /\ admitted /\ ~accepted => m.seq \in spent'["server"]
      /\ \A o \in refused'["server"] : o \in refused["server"] \/
           (o = m /\ ~admitted /\ m \notin got["server"])
  BY <1>4 DEF Typed, HistoryTyped, Sides
<1>6. ServerBitsHaveCause'
  <2> SUFFICES ASSUME NEW n \in Nat, Received(entry'.rx, n)
               PROVE  n \in spent'["server"] \/ \E o \in got'["server"] : o.seq = n
    BY DEF ServerBitsHaveCause
  <2>1. Received(entry.rx, n) \/ (n = m.seq /\ admitted)
    BY <1>2, OnlyItsNumberIsReceived DEF admitted
  <2> QED BY <1>5, <2>1 DEF Caused, ServerBitsHaveCause
<1>7. UpRefusedWithCause'
  <2> SUFFICES ASSUME NEW o \in refused'["server"]
               PROVE  TooOld(entry', o) \/ o.seq \in spent'["server"]
    BY DEF UpRefusedWithCause
  <2>0. o.seq \in Nat
    BY <1>2, <1>5 DEF Typed, HistoryTyped, Sides, Datagram
  <2>1. TooOld(entry, o) \/ o.seq \in spent["server"]
    <3>1. CASE o \in refused["server"]
      BY <3>1 DEF Caused, UpRefusedWithCause
    <3>2. CASE o = m /\ ~admitted /\ m \notin got["server"]
      <4>1. TooOld(entry, m) \/ Received(entry.rx, m.seq)
        BY <1>2, <3>2, RefusedHasCause DEF admitted, TooOld
      <4>2. \A d \in got["server"] : d.seq # m.seq
        BY <3>2 DEF Typed, HistoryTyped, KeyedData, Numbered, UpNumbers
      <4> QED BY <1>2, <3>2, <4>1, <4>2 DEF Caused, ServerBitsHaveCause
    <3> QED BY <1>5, <3>1, <3>2
  <2>2. TooOld(entry, o) => TooOld(entry', o)
    BY <1>3, <2>0, WindowAssumption DEF TooOld
  <2> QED BY <1>5, <2>1, <2>2
<1>8. ClientBitsHaveCause' /\ DownRefusedWithCause'
  BY <1>1, <1>5, ClientCausesStay DEF Caused
<1> QED BY <1>6, <1>7, <1>8 DEF Caused

\* The client receives data: here another packet may have the number.
LEMMA ClientGetsDataCaused ==
  Typed /\ Numbered /\ Caused /\ ClientGetsData => Caused'
<1> SUFFICES ASSUME Typed, Numbered, Caused, ClientGetsData PROVE Caused'
  OBVIOUS
<1> PICK m \in down : /\ m.kind = "data" /\ Unpack("client", app, m)
                      /\ app' = Seen(app, m)
  BY DEF ClientGetsData
<1>1. UNCHANGED <<entry, down, raced>> /\ app.key # 0
  BY DEF ClientGetsData
<1>2. /\ app \in Packet /\ app.rx \in Window /\ m \in Datagram /\ m.seq \in Nat
      /\ app'.rx = Updated(app.rx, m.seq)
  BY SeenTyped DEF Typed, ObjectsTyped, DatagramsTyped, Packet, Datagram
<1>3. /\ app.rx.max_seq \in Nat /\ app'.rx.max_seq \in Nat
      /\ app'.rx.max_seq >= app.rx.max_seq
  BY <1>2, MaxSeqGrows, UpdatedTyped DEF Window
<1> DEFINE admitted == Admits(app.rx, m.seq)
           accepted == admitted /\ m.key = app.key
<1>4. /\ got' = IF accepted THEN [got EXCEPT !["client"] = @ \cup {m}] ELSE got
      /\ spent' = IF admitted /\ ~accepted
                  THEN [spent EXCEPT !["client"] = @ \cup {m.seq}] ELSE spent
      /\ refused' = IF ~admitted /\ m.key = app.key /\ m \notin got["client"]
                    THEN [refused EXCEPT !["client"] = @ \cup {m}] ELSE refused
  BY DEF Unpack
<1> HIDE DEF admitted
<1>5. /\ got'["server"] = got["server"] /\ got["client"] \subseteq got'["client"]
      /\ spent'["server"] = spent["server"] /\ spent["client"] \subseteq spent'["client"]
      /\ refused'["server"] = refused["server"]
      /\ accepted => m \in got'["client"]
      /\ admitted /\ ~accepted => m.seq \in spent'["client"]
      /\ \A o \in refused'["client"] : o \in refused["client"] \/
           (o = m /\ ~admitted /\ m.key = app.key /\ m \notin got["client"])
  BY <1>4 DEF Typed, HistoryTyped, Sides
<1>6. ClientBitsHaveCause'
  <2> SUFFICES ASSUME NEW n \in Nat, Received(app'.rx, n)
               PROVE  n \in spent'["client"] \/ \E o \in got'["client"] : o.seq = n
    BY DEF ClientBitsHaveCause
  <2>1. Received(app.rx, n) \/ (n = m.seq /\ admitted)
    BY <1>2, OnlyItsNumberIsReceived DEF admitted
  <2> QED BY <1>5, <2>1 DEF Caused, ClientBitsHaveCause
<1>7. DownRefusedWithCause'
  <2> SUFFICES ASSUME NEW o \in refused'["client"]
               PROVE  \/ TooOld(app', o) \/ o.seq \in spent'["client"]
                      \/ \E d \in down \ {o} :
                           d.seq = o.seq /\ (raced \/ d.key # o.key)
    BY <1>1 DEF DownRefusedWithCause
  <2>0. o.seq \in Nat
    BY <1>2, <1>5 DEF Typed, HistoryTyped, Sides, Datagram
  <2>1. \/ TooOld(app, o) \/ o.seq \in spent["client"]
        \/ \E d \in down \ {o} : d.seq = o.seq /\ (raced \/ d.key # o.key)
    <3>1. CASE o \in refused["client"]
      BY <3>1 DEF Caused, DownRefusedWithCause
    <3>2. CASE o = m /\ ~admitted /\ m.key = app.key /\ m \notin got["client"]
      <4>1. TooOld(app, m) \/ Received(app.rx, m.seq)
        BY <1>2, <3>2, RefusedHasCause DEF admitted, TooOld
      <4>2. ASSUME NEW d \in got["client"], d.seq = m.seq
            PROVE  d \in down \ {m} /\ (raced \/ d.key # m.key)
        <5>1. d \in down /\ d # m /\ m.key # 0
          BY <1>1, <3>2 DEF Typed, HistoryTyped, KeyedData
        <5> QED BY <4>2, <5>1 DEF Numbered, DownNumbers, OneAtATime
      <4> QED BY <1>2, <3>2, <4>1, <4>2 DEF Caused, ClientBitsHaveCause
    <3> QED BY <1>5, <3>1, <3>2
  <2>2. TooOld(app, o) => TooOld(app', o)
    BY <1>3, <2>0, WindowAssumption DEF TooOld
  <2> QED BY <1>5, <2>1, <2>2
<1>8. ServerBitsHaveCause' /\ UpRefusedWithCause'
  BY <1>1, <1>5, ServerCausesStay DEF Caused
<1> QED BY <1>6, <1>7, <1>8 DEF Caused

\* An acknowledgement's number counts as spent.
LEMMA ServerGetsAckCaused ==
  Typed /\ Caused /\ ServerGetsAck => Caused'
<1> SUFFICES ASSUME Typed, Caused, ServerGetsAck PROVE Caused'
  OBVIOUS
<1> PICK m \in up : /\ entry' = Seen(entry, m)
                    /\ spent' = [spent EXCEPT !["server"] = @ \cup {m.seq}]
  BY DEF ServerGetsAck
<1>1. UNCHANGED <<app, down, raced, got, refused>>
  BY DEF ServerGetsAck
<1>2. /\ entry \in Packet /\ entry.rx \in Window /\ m \in Datagram /\ m.seq \in Nat
      /\ entry'.rx = Updated(entry.rx, m.seq)
  BY SeenTyped DEF Typed, ObjectsTyped, DatagramsTyped, Packet, Datagram
<1>3. /\ entry.rx.max_seq \in Nat /\ entry'.rx.max_seq \in Nat
      /\ entry'.rx.max_seq >= entry.rx.max_seq
  BY <1>2, MaxSeqGrows, UpdatedTyped DEF Window
<1>4. /\ spent'["server"] = spent["server"] \cup {m.seq}
      /\ spent'["client"] = spent["client"]
  BY DEF Typed, HistoryTyped, Sides
<1>5. ServerBitsHaveCause'
  <2> SUFFICES ASSUME NEW n \in Nat, Received(entry'.rx, n)
               PROVE  n \in spent'["server"] \/ \E o \in got["server"] : o.seq = n
    BY <1>1 DEF ServerBitsHaveCause
  <2>1. Received(entry.rx, n) \/ n = m.seq
    BY <1>2, OnlyItsNumberIsReceived
  <2> QED BY <1>4, <2>1 DEF Caused, ServerBitsHaveCause
<1>6. UpRefusedWithCause'
  <2> SUFFICES ASSUME NEW o \in refused["server"]
               PROVE  TooOld(entry', o) \/ o.seq \in spent'["server"]
    BY <1>1 DEF UpRefusedWithCause
  <2>0. o.seq \in Nat
    BY DEF Typed, HistoryTyped, Sides, Datagram
  <2>1. TooOld(entry, o) => TooOld(entry', o)
    BY <1>3, <2>0, WindowAssumption DEF TooOld
  <2> QED BY <1>4, <2>1 DEF Caused, UpRefusedWithCause
<1>7. ClientBitsHaveCause' /\ DownRefusedWithCause'
  BY <1>1, <1>4, ClientCausesStay DEF Caused
<1> QED BY <1>5, <1>6, <1>7 DEF Caused

\* Every refusal has a cause in every reachable state.
THEOREM CausedHolds == Spec => []Caused
<1>1. Init => Caused
  <2> SUFFICES ASSUME Init PROVE Caused
    OBVIOUS
  <2>1. entry.rx = FreshWindow /\ app.rx = FreshWindow
    BY DEF Init, NewTunnelPacket
  <2>2. refused["server"] = {} /\ refused["client"] = {}
    BY DEF Init, Sides
  <2> QED BY <2>1, <2>2, FreshWindowTyped
          DEF Caused, ServerBitsHaveCause, ClientBitsHaveCause, UpRefusedWithCause,
              DownRefusedWithCause
<1>2. Typed /\ Numbered /\ Caused /\ [Next]_vars => Caused'
  <2> SUFFICES ASSUME Typed, Numbered, Caused, [Next]_vars PROVE Caused'
    OBVIOUS
  <2>1. CASE UNCHANGED vars
    BY <2>1, QuietStepCaused DEF vars
  <2>2. CASE ClientAnswersUnkeyed \/ ClientAnswersHeartbeat
    BY <2>2, QuietStepCaused
       DEF ClientAnswersUnkeyed, ClientAnswersHeartbeat, history
  <2> QED BY <2>1, <2>2, KeyStepCaused, SendStepCaused, ServerGetsDataCaused,
             ClientGetsDataCaused, ServerGetsAckCaused DEF Next, ReceiveStep
<1> QED BY <1>1, <1>2, TypesHold, NumberedHolds, PTL DEF Spec

\* The server turns away data it could decrypt and has never delivered only if
\* it is WINDOW_SIZE behind or something else took its number (unpack_data and
\* unpack_heartbeat of src/packet_encap.py, which share one window).
THEOREM UpRefusals == Spec => []UpRefusedWithCause
BY CausedHolds, PTL DEF Caused

\* The client does so only if the packet is too old, came under another key, or
\* shares its number with one of another key or of a thread that drew at the
\* same time (next_sequence of src/crypto_handshake.py has no lock).
THEOREM DownRefusals == Spec => []DownRefusedWithCause
BY CausedHolds, PTL DEF Caused
=============================================================================
