# A TLA+ model of the VPN

The repository is a layer-3 VPN in Python: clients and a server exchange
datagrams over UDP, shake hands (X25519, HKDF, a pre-shared key), encrypt IP
packets with AES-GCM, and move them between TUN devices. This directory models
the parts of it where threads, lost datagrams and long histories decide
whether it is correct, checks them with TLC, and proves the central facts with
TLAPS for every number of clients, pool size, window size, number of faults,
address width and length of the route table.

    tlc -workers 2 -config ServerSteady.cfg MCVPNServer     # one run
    tlapm VPNServerProofs.tla                               # one proof module

`PROJECT.json` lists the runs, the mutants that show each property can fail,
the source lines every definition stands for, the hazards of the code, and the
theorems.

## 1. Inventory

| component | source | state | operations |
|---|---|---|---|
| ReplayProtector | `crypto_handshake.py` | `next_seq`, `max_seq`, `window_bitmap` | `next_sequence`, `check_and_update` |
| Handshake | `crypto_handshake.py` | key pair, `shared_secret`, `session`, `handshake_done` | `create_client_hello`, `process_client_hello`, `process_server_hello`, `derive_session_key`, `create_finished`, `verify_finished` |
| CryptoSession | `crypto_handshake.py` | the key | `encrypt`, `decrypt` |
| TunnelPacket | `packet_encap.py` | `crypto`, one sending and one receiving ReplayProtector | `pack_data`, `unpack_data`, `pack_heartbeat`, `unpack_heartbeat`, `set_crypto_session` |
| TunnelTransport | `tunnel_transport.py` | socket, `_peers` (address -> `last_seen`, `tunnel_packet`, `handshake`, `handshake_done`, `tun_ip`) | receive loop, heartbeat loop, `send_to`, accessors of the table |
| IPAllocator | `router.py` | `_alloc_map`, `_allocated` | `allocate`, `release`, `get_ip` |
| RouteTable | `router.py` | `host_routes`, `routes` | `add_route`, `add_host_route`, `remove_peer_routes`, `lookup` |
| SystemRouteManager | `router.py` | `added_routes` | `add_route`, `remove_route`, `cleanup` (the `ip` command) |
| TunDevice | `tun_device.py` | descriptor, `_is_up`, the simulation's queues | `open`, `read`, `write`, `close` |
| VPNServer | `vpn_server.py` | owns a transport, an allocator, a route table, a TUN device | datagram handlers, `_tun_read_loop`, `disconnect_peer`, status calls |
| VPNClient | `vpn_client.py` | `handshake`, `tunnel_pkt`, `tun`, `tun_ip`, `_connected`, `_handshake_error` | `start`, `_do_handshake`, datagram handlers, `_tun_read_loop`, `stop` |
| DeliveryRecord, ClientDeliveryRecord | `vpn_server.py`, `vpn_client.py` | a list under a lock, an event | `record`, `wait_for`, `clear` |

**How they interact.** One receive thread per transport calls
`_handle_packet`, which refreshes the peer's entry and calls the owner's
`_on_transport_data`; every datagram handler of the server and of the client
runs in it. One heartbeat thread per transport walks `_peers`, sends
heartbeats and, through `on_peer_disconnected`, releases leases and routes.
A TUN thread reads packets of the host and routes them. An operator's thread
may call `disconnect_peer`; `start()` of the client polls what its receive
thread sets. The only lock is the one around `sendto`: `_peers`, the
allocator's two tables, `host_routes` and the sequence counters are shared
without one.

**What is hard, and what would make it correct.**

* *ReplayProtector*: one packet must not pass twice and a fresh one in the
  window must pass, whatever the order of arrival.
* *Allocator, peer table, route table*: three threads update them in several
  accesses. An address must belong to at most one client and never be lost;
  the tables must agree when a client is told its address; a time-out must
  clean up everything and must happen.
* *Handshake over UDP*: nothing is sent twice by the code, and the network
  loses, repeats and swaps. The server must not encrypt under a key the client
  never had; both ends must end with the same key; an assignment must not be
  acted on twice, and no lease must be stranded with a client that cannot set
  its address up.
* *Sequence numbers*: the client numbers data and heartbeat acknowledgements
  with two counters and the server checks them with one window; the window is
  updated before the message is authenticated and survives a new key.
* *Client life cycle*: the time-out of `start()` races the last answer, a TUN
  device may be opened twice, `stop()` does not wait for the receive thread,
  and a client never notices that the server has dropped it.
* *Routing*: a packet must go to the longest match, and a peer that is removed,
  in two assignments, must not divert anybody else's packets.
* *Delivery logs*: `wait_for` must not miss a record, although it clears its
  event outside the lock.

## 2. Modules

| module | models |
|---|---|
| `AntiReplay` | what a replay protector promises, with plain sets |
| `ReplayWindow` | the receiving half of ReplayProtector as operators on a record |
| `ReplayWindowProofs` | what `check_and_update` does to any window: lemmas for every module that has one |
| `ReplayProtector` | a sender and a receiver object and the network between them; refines `AntiReplay` |
| `ReplayProtectorProofs` | its theorems |
| `IPAllocator` | the allocator's tables, one operator per access |
| `RouteTable` | `host_routes`, read and write of `remove_peer_routes` apart |
| `PeerTable` | `TunnelTransport._peers` and its accessors |
| `VPNServer` | the four threads of the server over those three tables |
| `MCVPNServer` | two clients for TLC, with symmetry |
| `VPNServerProofs` | its theorems |
| `LeaseService` | what address allocation promises: grant a free address, take it back |
| `Handshake` | one client and the server, from ClientHello to IP_ASSIGN, over a faulty network |
| `HandshakeProofs` | its theorems |
| `VPNClient` | the client around it: TUN device, system routes, `start` and `stop` |
| `VPNClientProofs` | its theorems |
| `TunnelLink` | the three TunnelPackets between a client and the server: counters, windows, keys |
| `MCTunnelLink` | its bounds for TLC |
| `TunnelLinkProofs` | its theorems |
| `RouteLookup` | all of RouteTable as an algorithm, against a bitwise definition |
| `RouteLookupProofs` | its theorems |
| `DeliveryRecord` | the log, its lock and its event, and threads in `wait_for` |
| `DeliveryRecordProofs` | its theorems |

`VPNServer` EXTENDS `PeerTable`, which EXTENDS `RouteTable`, which EXTENDS
`IPAllocator`: the server composes the three tables, and each module keeps the
variables and accesses of one class, and INSTANCEs `LeaseService` with
`lease <- alloc_map`. `VPNClient` EXTENDS `Handshake`, and each of its steps is one of
the handshake's with what else happens in it, or leaves the handshake alone;
both it and `TunnelLink`
use `ReplayWindow` for every window they hold.

### ReplayWindow, ReplayProtector, AntiReplay

`window_bitmap` is a Python integer of any width; the model is the set of the
positions of its 1 bits, so a left shift adds to every position and nothing is
masked, because nothing in the code is. `Admits` is the value
`check_and_update` returns and `Updated` the object it leaves. A datagram may
be delivered in any order and any number of times: `check_and_update(seq)` is
enabled for every number drawn. `delivered` and `refused` are history.

### VPNServer

A thread is a record `thr[t]` with its program counter and its locals, and a
step is one access of a shared table. That is the grain at which Python can
switch threads between the accesses of one handler, and it is what separates
`if peer_key in self._alloc_map` from `self._alloc_map.pop(peer_key)`. In
particular

* `allocate` is `Allocate` (the first lookup, or the search and the `add`),
  `ReuseLease` (the second lookup) and `RecordLease`. Search and `add` are one
  step because the receive thread alone adds to `_allocated`: an address given
  back during the search counts as given back after it.
* `release` is `CheckLease`, `PopLease`, `DiscardAddress`;
  `remove_peer_routes` is `ReadRoutes` and `WriteRoutes`.
* The heartbeat loop is `BeginRound`, `Visit` per entry, `EndScan`, then for
  every late peer `Reap`, the clean-up and `DeletePeer`. `ScanRaises` is the
  RuntimeError of a dictionary that changed its size under an iterator. An
  exception in this thread ends it (`dead`); in the receive and TUN threads
  the loop reports it and goes on (`LookupRaises`, `Raise`).
* `FallSilent(a)` is the passing of `heartbeat_timeout` without a packet from
  `a`. The loop reads the clock once per round, so a peer that grows old
  during a round is old from the next one on.

Of an entry the model keeps whether it is late, whether its Handshake has a
session, whether `set_handshake_done` ran, and `tun_ip`. What it leaves out:
which key it is (module `Handshake` tells), the datagrams themselves (a
Finished may match or not, a data packet decrypts or not), handshake
datagrams of type 0x11 (the handler looks the entry up and does nothing, as
`Heartbeat` does), the lines that only log, `start` and `stop`, and the status
calls. Three simplifications of the grain: the two reads of `host_routes` in
`lookup` are one step; `ReadRoutes` takes the dictionary at one moment; and the
comprehension of `remove_peer_routes` may raise whenever a key has been added
since, also if another clean-up has assigned a new dictionary meanwhile, which
gives the model one exception more than the code and no step less.

### Handshake and VPNClient

A key is the number of the ClientHello the server made it from: the client
makes one key pair per object, the server a new one per ClientHello, so two
ends share a key exactly when the numbers are equal. Each side handles
datagrams in one thread, so a handler is one step. `start()` waits in a thread
of its own: `SendClientHello`, then `HandshakeSucceeds`, `HandshakeFails` or
`HandshakeTimesOut`, which is possible at any time because the network may
take 15 seconds for a datagram; the receive thread runs on after either.
`PoolMayBeEmpty` says whether `allocate` may return None. The network is
external: `up` and `down` are its two directions, and `Fault` loses, repeats or
swaps datagrams in them. Heartbeats are left to `TunnelLink`, and so is what
they do to the numbers; `_handshake_stage` only words an error.
`ServerForgets` is the end of the server's entry, by a time-out or by
`disconnect_peer`: session, key and counter go with it, and the lease. It may
come between any two datagrams, as often as `MaxForgets` says. That it takes
several accesses, and that a handler may run between them, is the subject of
`VPNServer`. `applied` and `verified` are history: the IP_ASSIGN messages the
client has acted on, and the keys whose Finished it has verified.

`VPNClient` spreads the end of the assignment handler over the steps that the
caller's thread can see half done: `TakeAssign` (`tun_ip` and `self.tun` are
set), `Attach` (`os.open` and TUNSETIFF), `Configure` (three `ip` commands, then
`is_up`, then a new SystemRouteManager), and per network `RouteCommand` (the
`ip` command has run) and `AppendRoute` (`added_routes` has it). `held` is the
set of devices whose descriptor has the TUN name, of which the kernel allows
one; `kernel` is what the system routes through it, and routes go with their
device. `healthy` is chosen at the start: on a system that is not, the
ioctl that attaches a device and each `ip` command, the removal of a route
included, may fail. `stop()` is `BeginStop` (`cleanup`
takes the list it will go through: `reversed` does not see what is appended
later), `RemoveRoute` per route, `ForgetRoutes` (the list of that manager is
emptied), `CloseTun`, `ClientStopTransport`; it may come at any time after
`start()` has returned or raised, and joins nobody, so any step of the receive
thread may fall between any two of these. `cleaning` is the manager that
`cleanup` runs on with the routes still to remove; `missed`, a history, has the
routes that were added too late for its list. The device is a kernel's: the
simulated one of other systems is never busy.

### TunnelLink

`entry` is the server's TunnelPacket for the client, `app` the client's own,
`beat` the one in the client's transport. Every datagram ever sent stays in
`up` or `down` and may be received at any time and any number of times, so
loss, repetition and reordering need no actions of their own.
`next_sequence` is three steps (`DrawSequence` reads the counter, `ReadAgain`
reads it for `+=`, `StoreAndSend` stores it and sends), because three threads
of the server draw from one counter; a client's counter belongs to one thread.
`Unpack` updates the window before it tries the key, as `unpack_data` does.
`ServerForgets` and `ClientForgets` are the time-outs of an entry at either
side: both counter and window go with it, and on the client the key of `beat`
too, after which it answers heartbeats it cannot check. `ServerForgets` waits
until no thread is inside `next_sequence`; a thread that goes on with an object
already dropped is left out. The handshake is its effects on the keys: a
server Finished may come through for any key derived so far, a client Finished
for one the client has verified, which is `ServerKeyIsConfirmed` of
`Handshake`. `got`, `twice`, `spent`, `refused` and `raced` are history.

### RouteLookup

Addresses are numbers of `Width` bits, and a network's host bits are cleared by
arithmetic, as `IPv4Network(strict=False)` does. The search is a fold over
`routes` with the code's comparison; the reference definition compares
addresses bit by bit and picks the longest, the first of equals. The list
comprehension of `remove_peer_routes` is a fold as well, and the powers of two
are a recursive function, because the provers know the equations of neither
`SelectSeq` nor `^`. The two
assignments of `remove_peer_routes` are two steps, with lookups in between.
Routes added during a removal are the subject of `VPNServer`.

### DeliveryRecord

`record` and `clear` are two steps under the lock, so that whoever sleeps on
the event can wake between them. `wait_for` is `Look`, `ClearAfterSearch`,
`Wait`, `PollIntervalEnds`, `LastLook`; each waiter looks for a record of its
own. The deadline may pass at any step. Both classes have the same code.

## 3. What is checked

| run | question | result |
|---|---|---|
| `replay` | does the bitmap do what plain sets would, under any delivery? | yes: `AtMostOnce`, `NoFalseRefusal`, and it implements `AntiReplay` |
| `server_churn` | is an address ever leased twice or lost while clients shake hands, time out and are disconnected? | no: `NoDoubleLease`, `PoolAccounting` |
| `server_timeouts` | does silence end in removal, and is nothing left behind? | yes, while the heartbeat thread lives: `SilenceEndsInRemoval`, `CleanupComplete`; and the allocator implements `LeaseService` |
| `server_steady` | do the tables agree while nobody goes away? | yes: `LeasedPeersAreRouted`, `AssignmentAgrees`, `HandshakeEndsInAssignment` |
| `client` | what becomes of keys, address, device and routes under any loss, repetition and swap, a dropped entry and a `stop()` at any time? | `ServerKeyIsConfirmed`, `AssignmentAppliedOnce`, `DeviceLostOnlyByReassignment`, `CleanupLeavesOnlyLateRoutes`, `StopTakesEverythingDown`; undisturbed, also `NoSpuriousFailure`, `KeysAgreeAtRest`, `LeaseIsTakenUp`, `HandshakeCompletes` |
| `tunnel_link` | is a packet ever delivered twice, and what can make a fresh one be refused? | never: `DataOnce`, `WindowCoversKey`; only the causes in `UpRefusedWithCause` and `DownRefusedWithCause` |
| `routes` | is `lookup` the longest match, and do updates move only what they should? | yes: `LookupIsLongestMatch`, `AddingOnlyRefines`, `RemovalOnlyWithdraws`, `RemovedIsUnreachable` |
| `delivery` | does a caller of `wait_for` ever miss a record? | no: `NothingInTimeIsMissed`, `RecordIsFound`, `DeadlineEndsTheCall` |

Four runs are expected to find a violation. Each states what the repository
says of itself and shows what the code does instead.

* `server_heartbeat_loop` - a first datagram from a new client during the
  heartbeat thread's iteration makes it raise RuntimeError, and the thread is
  gone: no heartbeats and no time-outs from then on
  (`tunnel_transport.py:183`, against the loop's own description at 167-169).
* `server_lost_route` - `remove_peer_routes` assigns a dictionary it built
  before another client's route was added (`router.py:56`, against
  `vpn_server.py:279`).
* `server_orphan_lease` - a client that returns while its time-out is being
  carried out gets a lease, then its entry is deleted; no later round knows
  of the lease, until a later datagram of the client makes a new entry whose
  time-out can release it (`tunnel_transport.py:199`, against `router.py:202`).
* `tunnel_fresh` - the client numbers heartbeat acknowledgements and data with
  two counters from 0 and the server checks both with one window: the first
  data packet is refused because an acknowledgement had its number
  (`vpn_client.py:148`, against `crypto_handshake.py:226`). An idle client
  that has acknowledged more than 64 heartbeats loses its next data packets
  until its data counter has caught up.

What holds is stated as strongly as the code allows, and the exemptions are
findings of their own. TLC refutes each of these, and no run is spent on them:

* `VPNClient!ConnectedClientHasTun` (`vpn_client.py:113-114`, 224-225): one
  repeated client Finished makes a second IP_ASSIGN, and the client replaces
  its open device by one that is refused as busy (`vpn_client.py:319`).
  `DeviceLostOnlyByReassignment` says that nothing else takes a device away.
* `VPNClient!ConnectedClientHasRoutes`: `start()` may return between
  `is_up` and the last `add_route`.
* `VPNClient!NothingLeftBehind`: `stop()` closes the device `self.tun` is, not
  the one it replaced, and nothing that the receive thread opens after that.
* `TunnelLink!NumbersAreUnique` (`crypto_handshake.py:226`): two server threads
  draw one number; the second packet is dropped by its receiver.
* `VPNServer!CleanupComplete` once an operator may call `disconnect_peer`
  (`router.py:56`): of two `remove_peer_routes` at a time, the later write puts
  back the route that the earlier one took out.
* `DeliveryRecord!NoLostWakeUp`: a record added between search and `clear()`
  of the event waits for the end of the poll interval.

`LeasedPeersAreRouted` holds in `server_steady` and fails in
`server_lost_route`: it is true as long as nobody goes away.
`ReplayProtector!BitmapHoldsOneWindow` states the comment at
`crypto_handshake.py:225-232` that the receiver forgets what is left of the
window. TLC refutes it, since the integer keeps every bit for ever; no answer
depends on those bits, so no run is spent on it.

**Bounds.** `replay`: window 3 and numbers 0..6, so a number can be in the
window, at its edge, and one and more places past it, and a jump can exceed the
window; the theorems remove the bound. Server runs: two clients, because every
hazard is between two clients or between one client and a thread. One address
in `server_churn` and `server_timeouts`, so that the clients compete and the
pool is empty when it matters; two in the runs about routes, so that both can
be connected. `server_churn` leaves out data and heartbeat datagrams, which
touch neither the allocator nor the routes; the theorems have no such
restriction. `Silent`, `Removable` and `HostTraffic` say who may go away and
where the host sends. Symmetry is used where only safety is checked and the
clients are interchangeable. `server_timeouts` has data packets of a client
without a lease, whose next hop may be dropped under way: its ghost entries are
among the entries that `SilenceEndsInRemoval` is about. Traffic of the server's
own host together with time-outs is left to the theorems.

`client`: `MaxFaults` is 3, enough for two ClientHellos with the answers of both
disturbed, or two assignments one of which comes late, and it bounds the number
of keys; `MaxForgets` is 1, so that an entry can go, and come back with another
key, a counter from 0 and the lease gone, while messages of the first are under
way; `WINDOW_SIZE` is 2, so late messages do fall out of the window; two
routes, so that one can be in place and the other not, or under way while
`cleanup` removes the first. `tunnel_link`: the
bounds are a set of scenarios, one of which each behaviour keeps within
(`MCTunnelLink`): two keys with an entry dropped on each side against the
client's two counters, the same against the server's one, and three threads,
two inside `next_sequence` at a time, for three numbers. Three numbers and a
window of 2 reach its edge. `tunnel_fresh` has one handshake and a window
nothing falls out of, so that age is no excuse. `routes`: addresses of 2 bits have prefixes of
length 0, 1 and 2, hence nested, equal and disjoint networks in any order among
three; two host routes, so that a removal takes one and leaves one. `delivery`:
three records, two calls of `clear`, so that a record can come, be cleared and
come again while a caller sleeps.

**Fairness.** `VPNServer!FairSpec` has weak fairness for each of the four
threads: the interpreter schedules every thread that can run. Nobody has to
send, fall silent or disconnect a peer. `VPNClient!FairClientSpec` has weak
fairness for both receive threads, for the poll of `start()` and for a `stop()`
that has begun: a datagram the network does not drop arrives, and it is
handled. Neither the 15-second time-out, nor a fault, nor a call of `stop()` has
to happen. `HandshakeCompletes` assumes what the code needs and cannot give: a
network that loses nothing and keeps the order, a system that works, and a
server that keeps its entry.
`DeliveryRecord!FairSpec` has it for the waiting threads, the end of a poll
interval included, and for whoever holds the lock; nobody has to record, and
the deadline need not pass. `SilenceEndsInRemoval` stops at the death of the
heartbeat thread, which the code does not prevent (`server_heartbeat_loop`).

**Deadlock.** A server without clients waits, but a datagram may always come,
so deadlock is checked in the server and replay runs, and in `tunnel_link` and
`routes`, where something can always be delivered or removed. A handshake ends,
and so do callers of `wait_for`: there it is not.

## 4. What is proved

`ReplayProtectorProofs`, for every `WINDOW_SIZE > 0` and `MaxSeq`
(`WindowAssumption`, `MaxSeqAssumption`):

* `NeverTwice`, `RefusesOnlyWithCause`, `TypeCorrect`: `AtMostOnce`,
  `NoFalseRefusal` and `TypeOK` are invariants of `Spec`.
* `Implementation`: `Spec` implements `AntiReplay!Spec`.

Neither property is inductive, since nothing in it says what the bits mean.
`BitmapIsReceived` adds that: relative to `max_seq`, the bitmap is exactly the
set of the numbers let through. `AdmitsIsFresh` derives from it that the answer
is the answer of plain sets; `AcceptedStep` and `RefusedStep` keep it.

`VPNServerProofs`, for every finite set of clients, pool size, kinds of
datagrams, and choice of who may go away (`PoolAssumption`,
`ClientAssumption`):

* `TypeCorrect`: the tables and the locals of every thread keep their types.
  This is more than bookkeeping: a lookup of a lease or a peer that another
  thread has removed must not hand None to the next step.
* `LeasesAreDistinct`: `NoDoubleLease` for all interleavings.
* `NothingIsLost`: `PoolAccounting` for all interleavings.

The argument: between `add` and the write of `_alloc_map`, and between `pop`
and `discard`, an address is in neither table or in one only. `HeldApart` says
that such an address is nobody's lease and in nobody else's hands;
`RecordedOnce` that the peer about to be recorded has no lease, which holds
because the receive thread alone records. `IInv` joins both to the two
properties. Most steps are `Quiet`: they leave the allocator and every full
hand alone (`QuietStep`); the four that do not have a lemma each
(`ReserveStep`, `RecordStep`, `PopStep`, `DiscardStep`).

* `Implementation`: `Spec` implements `LeaseService!Spec` with
  `lease <- alloc_map`. Of the steps of the four threads only two touch the
  leases. `RecordGrants`: the peer has none (`RecordedOnce`) and nobody has the
  address (`HeldApart`), so the step is a `Grant`; `OthersTakeBack`: a
  `PopLease` that does not raise is a `TakeBack`, and every other step stutters.

* `CleanupIsComplete`: `CleanupComplete`, provided that no operator
  disconnects a peer (`Removable = {}`). The invariant `TimeoutInv` says that
  what the heartbeat thread has taken from a peer that is still silent has not
  come back, because the receive thread serves only peers it has just heard
  from. With an operator it is false: two `remove_peer_routes` may overlap, and
  the second write puts back what the first one took out.
* `LeasesLeadHome`, `AssignmentsAgree`: `LeasedPeersAreRouted` and
  `AssignmentAgrees`, provided that nobody goes away (`Silent = {}` and
  `Removable = {}`); `server_lost_route` shows that the first needs it.
  `SteadyInv` follows the receive thread through the handler: which of lease,
  `tun_ip` and host route agree so far, and that a lease without a route is the
  one it is working on.

`ReplayWindowProofs`, for every window and `WINDOW_SIZE > 0`: `RefusedForGood`
(a number refused is refused after any other number too) and the lemmas that
`TunnelLinkProofs` and `HandshakeProofs` rest on: whose bit an update sets, why
a number is refused, that `max_seq` only grows.

`HandshakeProofs`, for every `WINDOW_SIZE`, number of faults and choice of
their kinds (`HandshakeAssumption`), hence over a network that loses, repeats
and swaps any number of datagrams, and a server that drops its entry any number
of times:

* `ServerKeyConfirmed`: `ServerKeyIsConfirmed`. Not inductive alone: a Finished
  that is under way may be for any key, so `Confirmed` says that whoever sent it
  had verified that key.
* `AppliedOnce`: `AssignmentAppliedOnce`. The server may count from 0 again, so
  its counter says nothing; `AppliedIsRefused` says instead that the client's
  window refuses the number of every assignment it has acted on, and a refused
  number stays refused (`RefusedForGood`).
* `NeverFailsSpuriously`, `KeysAgree`: `NoSpuriousFailure` and
  `KeysAgreeAtRest`, which speak of networks that only repeat. `InTheRightOrder`
  says that the keys in the channel to the client never decrease and that each
  Finished comes after its ServerHello; `KeyIsUnderWay` that the server's last
  key is on its way to the client, or back, or in place at both ends, unless the
  server has dropped its entry. A repeated
  datagram is inserted behind its original, which keeps both
  (`CameFrom` describes every change of a channel by the old positions).
* `LeaseTakenUp`: `LeaseIsTakenUp`. `LeaseIsUnderWay` says that the client
  has the key of every assignment that is on its way to it, that its window is
  new as long as it has no address, and that an address leased to it meanwhile is
  on its way.
* `TypesHold`: `Typed`, with `TypeCorrect` for `TypeOK`. Keys are numbered by
  ClientHello, and `HellosBounded` counts these against the faults.

`VPNClientProofs`, for every finite set of routes (`RoutesAssumption`):

* `HandshakeIsSafe`: the theorems above hold of the client with its threads,
  device and `stop()`, because its actions are written as the handshake's with
  more in them (`ClientSpecIsSpec`).
* `ClientTypeCorrect`, `CleanupIsComplete`, `DeviceStaysUp`, `StopIsComplete`:
  `ClientTypeOK`, `CleanupLeavesOnlyLateRoutes`, `DeviceLostOnlyByReassignment`
  and `StopTakesEverythingDown`. `DeviceInv` adds that the TUN name is held by
  one device, of this assignment or an earlier one; that routes go with their
  device; that until `stop()` every route is on the manager's list or its command
  has just run, and afterwards on the list that `cleanup` has still to go
  through, or was too late for it (`RoutesAccountedFor`); and that what `stop()`
  has closed stays closed unless the receive thread opens another.

`TunnelLinkProofs`, for every `WINDOW_SIZE` and every set of scenarios
(`WindowAssumption`, `TunnelAssumption`):

* `DeliveredOnce`, `WindowsCover`: `DataOnce` and `WindowCoversKey`. `Covered`
  adds the key that the server will take when the client's Finished comes: its
  numbers must be in the window before the key is.
* `UpRefusals`, `DownRefusals`: `UpRefusedWithCause` and `DownRefusedWithCause`.
  `Caused` traces each bit of a window to a datagram that set it, and `Numbered`
  says which datagrams can share a number: until two of the server's threads
  meet inside `next_sequence`, no two of one key.
* `TypeCorrect`: `TypeOK`.

`RouteLookupProofs`, for addresses of any `Width` and tables of any length
(`RouteAssumption`):

* `LongestMatch`: `LookupIsLongestMatch`. By induction on the prefix length,
  two addresses have one quotient by a power of two exactly when they begin with
  the same bits (`SameBits`, `MatchesIsCovers`); by induction on the list, the
  loop finds the first of the longest routes that match (`SearchFinds`).
* `AddingRefines`, `RemovalWithdraws`, `RemovedAreUnreachable`:
  `AddingOnlyRefines`, `RemovalOnlyWithdraws`, `RemovedIsUnreachable`.
  `SearchAppended` says what one more route changes, `OthersStay` that a search
  without one peer's routes finds the same unless it found that peer's.
  `RoutesInv` adds that between the two assignments of a removal the peer has no
  network left.

The library's induction rules take an operator as a parameter, which the
provers cannot instantiate. These inductions go through `WFMin` instead: a set
of numbers that lacks one lacks a smallest one (`Induct`).

`DeliveryRecordProofs`, for any threads and bounds (`DeliveryAssumption`):
`NothingMissed` is `NothingInTimeIsMissed`. The invariant needs that a record
which counts as in time is in the log (`InTimeIsLogged`: the log and the history
are cleared together) and that the last look comes after the deadline
(`LastLookIsLate`).

The assumptions are on the constants only: what is finite, a number, positive,
and that None is none of the things it stands in for (`EntryAssumption` says so
of the entries of the peer table). TLC evaluates each of them in some run.

**Only model-checked**: the liveness properties `SilenceEndsInRemoval`,
`HandshakeEndsInAssignment`, `HandshakeCompletes`, `RecordIsFound` and
`DeadlineEndsTheCall`, since fairness and ENABLED are outside the prover's
reach, and the four violations, which are counterexamples. Every safety property
that a passing run checks is a theorem, `CleanupComplete`, `LeasedPeersAreRouted` and
`AssignmentAgrees` under the restrictions given above, which are those of their
runs.

## 5. What is not modelled

* Cryptography (taken to work; `CryptoSession` has no state but its key), the
  bytes of messages, logs and headers (`parse_ip_header`, `_prefix_len`,
  `extract_fields`), the command line, `run_forever`.
* Sockets and the kernel, except where the client meets them: a TUN name held by
  one descriptor, `ip` commands that fail, a socket that is closed.
* `TunDevice.read` and `write` and the simulated device's two lists.
* `VPNServer.stop`, which ends the process and touches none of the tables;
  `get_client_status`, `get_connected_clients`, `wait_for_client`, which read
  (and may raise, see the hazards); `send_ip_packet`, which only tests call and
  which is `Route` and `Forward` in the caller's thread.
* A second `start()` on one VPNClient, which no caller makes; a client process
  that restarts at the same address, which to the server is a second
  ClientHello with counters from 0.

## 6. Plan

Done: (1) replay window with its refinement and proofs; (2) the server's tables
and threads; (3) their accounting, proved; (4) the handshake; (5) `TunnelLink`;
(6) `RouteLookup`; (7) `VPNClient`; (8) `DeliveryRecord`; (9) `LeaseService`,
checked and proved; (10) the safety properties of every run, proved.

11. The server when peers do go away: which of `CleanupComplete`,
    `LeasedPeersAreRouted` and `AssignmentAgrees` survives for the peers that
    nobody disconnects, and the weakest restriction under which each is a
    theorem.
12. `TunnelLink` under the keys of `Handshake`: that the effects on keys which
    `TunnelLink` takes for granted are those of `Handshake`, as a refinement.
