----------------------------- MODULE VPNClient ------------------------------
(***************************************************************************)
(* The life of one VPNClient object (src/vpn_client.py) around the         *)
(* handshake: what the receive thread does with its address - a TunDevice  *)
(* (src/tun_device.py) is opened and configured, a SystemRouteManager      *)
(* (src/router.py) adds routes through it - while start() waits in one     *)
(* thread for a device that is up, and stop() takes everything down.       *)
(*                                                                         *)
(* The handlers are those of Handshake; here the end of HandleAssign is    *)
(* spread over the steps at which another thread can see it half done.     *)
(* Devices are the kernel's (the simulated one of other systems is never   *)
(* busy) and numbered by the assignment they were made for.  A TUN name    *)
(* belongs to one open descriptor, and routes through a device go with it. *)
(***************************************************************************)
EXTENDS Handshake

CONSTANT Routes       \* the networks the client was told to route

ASSUME RoutesAssumption == IsFiniteSet(Routes)

VARIABLES
  recv,       \* the receive thread: where it is in _handle_ip_assignment
  tun,        \* self.tun: the device's number, 0 for None, and is_up
  held,       \* the devices whose descriptor is open and has the TUN name
  manager,    \* self.route_manager: its number, 0 for None, and added_routes
  kernel,     \* the system's routes through the TUN device
  stop,       \* where stop() is
  cleaning,   \* the manager that cleanup runs on, and the routes still to remove
  healthy,    \* the system has a TUN driver, and the ip command works
  late,       \* history: a device was opened when stop() was past closing it
  missed      \* history: the routes added that cleanup did not find in its list

systemVars == <<held, kernel>>
stopVars   == <<stop, cleaning, healthy>>
deviceVars == <<recv, tun, manager, systemVars, stop, cleaning, late, missed>>
clientVars == <<vars, deviceVars, healthy>>

ClientInit ==
  /\ Init
  /\ recv = [pc |-> "idle", todo |-> {}, adding |-> {}]
  /\ tun = [number |-> 0, is_up |-> FALSE]
  /\ manager = [number |-> 0, added |-> {}]
  /\ held = {} /\ kernel = {}
  /\ stop = "no" /\ cleaning = [number |-> 0, todo |-> {}]
  /\ healthy \in BOOLEAN
  /\ late = FALSE /\ missed = {}

-----------------------------------------------------------------------------
(* The receive thread: _handle_ip_assignment, TunDevice.open, add_route.   *)

\* Every datagram but an assignment that counts, and the end of the loop.
HandleOther ==
  /\ recv.pc = "idle"
  /\ \/ HandleServerHello \/ HandleServerFinished \/ ReceiveEnds
     \/ HandleAssign /\ client'.assigned = client.assigned
  /\ UNCHANGED <<deviceVars, healthy>>

\* Mutant: the manager is made anew together with the device.
TakeAssignWithManager ==
  /\ recv.pc = "idle"
  /\ HandleAssign /\ client'.assigned # client.assigned
  /\ tun' = [number |-> client'.assigned, is_up |-> FALSE]
  /\ manager' = [number |-> client'.assigned, added |-> {}]
  /\ recv' = [recv EXCEPT !.pc = "attach"]
  /\ UNCHANGED <<systemVars, stopVars, late, missed>>

\* tun_ip is set and self.tun is a new device, which is not open yet.
TakeAssign ==
  /\ recv.pc = "idle"
  /\ HandleAssign /\ client'.assigned # client.assigned
  /\ tun' = [number |-> client'.assigned, is_up |-> FALSE]
  /\ recv' = [recv EXCEPT !.pc = "attach"]
  /\ UNCHANGED <<manager, systemVars, stopVars, late, missed>>

\* The end of the handler, also by an exception: the receive loop goes on.
LeaveAssign == recv' = [pc |-> "idle", todo |-> {}, adding |-> {}]

\* os.open and TUNSETIFF, which answers EBUSY if the name is taken.
Attach ==
  /\ recv.pc = "attach"
  /\ \/ /\ held # {} \/ ~healthy
        /\ LeaveAssign
        /\ UNCHANGED <<held, late>>
     \/ /\ held = {}
        /\ held' = {tun.number}
        /\ recv' = [recv EXCEPT !.pc = "configure"]
        /\ late' = (stop \in {"closed", "done"})
  /\ UNCHANGED <<vars, tun, manager, kernel, stopVars, missed>>

\* The ip commands of the device: one that was closed meanwhile is not found.
\* Then the manager is made, for this device.
Configure ==
  /\ recv.pc = "configure"
  /\ \/ /\ held = {} \/ ~healthy
        /\ LeaveAssign
        /\ UNCHANGED <<tun, manager>>
     \/ /\ held # {}
        /\ tun' = [tun EXCEPT !.is_up = TRUE]
        /\ manager' = [number |-> tun.number, added |-> {}]
        /\ recv' = [pc |-> "routes", todo |-> Routes, adding |-> {}]
  /\ UNCHANGED <<vars, systemVars, stopVars, late, missed>>

\* add_route: the ip command adds the route or refuses to.
RouteCommand ==
  /\ recv.pc = "routes" /\ recv.adding = {}
  /\ \E r \in recv.todo :
       \/ /\ held = {} \/ ~healthy
          /\ recv' = [recv EXCEPT !.todo = @ \ {r}]
          /\ UNCHANGED <<kernel, missed>>
       \/ /\ held # {}
          /\ recv' = [recv EXCEPT !.todo = @ \ {r}, !.adding = {r}]
          /\ kernel' = kernel \cup {r}
          /\ missed' = IF stop = "no" THEN missed ELSE missed \cup {r}
  /\ UNCHANGED <<vars, tun, held, manager, stopVars, late>>

\* The command has returned, and only now the manager knows of the route.
AppendRoute ==
  /\ recv.adding # {}
  /\ recv' = [recv EXCEPT !.adding = {}]
  /\ manager' = [manager EXCEPT !.added = @ \cup recv.adding]
  /\ UNCHANGED <<vars, tun, systemVars, stopVars, late, missed>>

EndAssign ==
  /\ recv.pc = "routes" /\ recv.todo = {} /\ recv.adding = {}
  /\ LeaveAssign
  /\ UNCHANGED <<vars, tun, manager, systemVars, stopVars, late, missed>>

-----------------------------------------------------------------------------
(* start() and stop(), in the caller's thread.                             *)

\* Mutant: a device that is there is enough, up or not.
HasDevice == tun.number > 0

\* What _do_handshake takes for one.
DeviceIsUp == tun.is_up

ClientSendClientHello ==
  SendClientHello /\ UNCHANGED <<deviceVars, healthy>>

StartFails ==
  HandshakeFails \/ HandshakeTimesOut

ClientStartFails ==
  StartFails /\ UNCHANGED <<deviceVars, healthy>>

StartSucceeds ==
  /\ HandshakeSucceeds /\ DeviceIsUp
  /\ UNCHANGED <<deviceVars, healthy>>

\* _running is cleared, and cleanup goes through what added_routes holds now.
BeginStop ==
  /\ StartIsOver /\ stop = "no"
  /\ stop' = "removing"
  /\ cleaning' = [number |-> manager.number, todo |-> manager.added]
  /\ missed' = recv.adding
  /\ UNCHANGED <<vars, recv, tun, manager, systemVars, healthy, late>>

\* remove_route, whose failure nobody looks at.
RemoveRoute ==
  /\ \E r \in cleaning.todo :
       /\ cleaning' = [cleaning EXCEPT !.todo = @ \ {r}]
       /\ kernel' = kernel \ {r} \/ (~healthy /\ UNCHANGED kernel)
  /\ UNCHANGED <<vars, recv, tun, held, manager, stop, healthy, late, missed>>

\* The end of cleanup: its manager's added_routes is emptied, which may not be
\* the client's any more.
ForgetRoutes ==
  /\ stop = "removing" /\ cleaning.todo = {}
  /\ stop' = "forgotten"
  /\ manager' = IF manager.number = cleaning.number
                THEN [manager EXCEPT !.added = {}] ELSE manager
  /\ UNCHANGED <<vars, recv, tun, systemVars, cleaning, healthy, late, missed>>

\* Mutant: a device that did not come up is not closed.
CloseTunIfUp ==
  /\ stop = "forgotten"
  /\ stop' = "closed"
  /\ tun' = [tun EXCEPT !.is_up = FALSE]
  /\ held' = IF tun.is_up THEN held \ {tun.number} ELSE held
  /\ kernel' = IF held' = {} THEN {} ELSE kernel
  /\ UNCHANGED <<vars, recv, manager, cleaning, healthy, late, missed>>

\* TunDevice.close, of the device self.tun is now; without one, nothing.
CloseTun ==
  /\ stop = "forgotten"
  /\ stop' = "closed"
  /\ tun' = [tun EXCEPT !.is_up = FALSE]
  /\ held' = held \ {tun.number}
  /\ kernel' = IF held' = {} THEN {} ELSE kernel
  /\ UNCHANGED <<vars, recv, manager, cleaning, healthy, late, missed>>

ClientStopTransport ==
  /\ stop = "closed"
  /\ stop' = "done"
  /\ StopTransport
  /\ UNCHANGED <<recv, tun, manager, systemVars, cleaning, healthy, late, missed>>

-----------------------------------------------------------------------------

Environment ==
  /\ ServerStep \/ ServerForgets \/ Fault
  /\ UNCHANGED <<deviceVars, healthy>>

AssignStep  ==
  TakeAssign \/ Attach \/ Configure \/ RouteCommand \/ AppendRoute \/ EndAssign
CallerStep  == ClientSendClientHello \/ StartSucceeds \/ ClientStartFails
StopStep    == RemoveRoute \/ ForgetRoutes \/ CloseTun \/ ClientStopTransport

ClientNext ==
  Environment \/ HandleOther \/ AssignStep \/ CallerStep \/ BeginStop \/ StopStep

ClientSpec == ClientInit /\ [][ClientNext]_clientVars

\* A datagram the network does not drop arrives; every thread that can run is
\* scheduled.  Neither a fault, nor a time-out, nor a call of stop() has to
\* happen; a stop() that has begun goes on.
FairClientSpec ==
  /\ ClientSpec
  /\ WF_clientVars(ServerStep /\ UNCHANGED <<deviceVars, healthy>>)
  /\ WF_clientVars(HandleOther \/ AssignStep)
  /\ WF_clientVars(ClientSendClientHello \/ StartSucceeds)
  /\ WF_clientVars(StopStep)

-----------------------------------------------------------------------------
(* Properties.                                                             *)

ClientTypeOK ==
  /\ TypeOK
  /\ recv.pc \in {"idle", "attach", "configure", "routes"}
  /\ recv.todo \subseteq Routes /\ recv.adding \subseteq Routes
  /\ tun.number \in 0..client.assigned /\ tun.is_up \in BOOLEAN
  /\ held \subseteq 1..tun.number /\ Cardinality(held) <= 1
  /\ manager.number \in 0..tun.number /\ manager.added \subseteq Routes
  /\ kernel \subseteq Routes /\ missed \subseteq Routes
  /\ stop \in {"no", "removing", "forgotten", "closed", "done"}
  /\ cleaning.number \in 0..tun.number /\ cleaning.todo \subseteq Routes

\* start() (vpn_client.py:224) returns with a device that is up.  It stays up
\* until stop() unless a second IP_ASSIGN replaces it, which takes a client
\* Finished that the network has repeated: nothing else takes it down.
DeviceLostOnlyByReassignment ==
  start = "connected" /\ stop = "no" /\ ~tun.is_up => client.assigned > 1

\* On a healthy system cleanup leaves no route behind but those whose ip
\* command ran when its list was already taken, or had just run and was not on
\* it yet: a second assignment or not, no earlier route is forgotten.
CleanupLeavesOnlyLateRoutes ==
  healthy /\ stop \in {"forgotten", "closed", "done"} => kernel \subseteq missed

\* After stop() no descriptor of the client's holds the TUN name and no route
\* leads through it - unless a second assignment had replaced the device that
\* holds it, or the receive thread opened it when stop() had already closed
\* what was there (vpn_client.py:184-192 does not wait for that thread).
StopTakesEverythingDown ==
  stop = "done" /\ ~late /\ client.assigned <= 1 => held = {} /\ kernel = {}

\* On a healthy system and a network that loses nothing and keeps the order, a
\* client that is not stopped, and that the server does not drop, is connected
\* in the end, with a key the server shares, and, if it was leased an address,
\* with all its routes in place.
HandshakeCompletes ==
  [](healthy /\ ~disturbed /\ stop = "no" /\ server.forgotten = 0) =>
    <>[](/\ client.connected
         /\ client.tunnel_key = server.tunnel_key
         /\ server.leased => held # {} /\ kernel = Routes)

-----------------------------------------------------------------------------
(* Stronger than what the code does.                                       *)

\* A connected client has a device that is up until it is stopped (see
\* vpn_client.py:113-114, 224-226).
ConnectedClientHasTun == start = "connected" /\ stop = "no" => tun.is_up

\* A client whose start() has returned has its routes (its message at
\* vpn_client.py:225 says that configuration is complete).
ConnectedClientHasRoutes ==
  start = "connected" /\ stop = "no" /\ healthy => kernel = Routes

\* stop() leaves nothing behind.
NothingLeftBehind == stop = "done" => held = {}
=============================================================================
