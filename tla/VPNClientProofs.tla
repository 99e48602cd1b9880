-------------------------- MODULE VPNClientProofs ---------------------------
(***************************************************************************)
(* What the life of a VPNClient guarantees, whatever the network does, the *)
(* system refuses and the threads' order is: what HandshakeProofs shows of *)
(* every handshake; that the cleanup of stop() overlooks no route but one  *)
(* that was being added meanwhile; and that stop() leaves something behind *)
(* only in the two cases its property names.                               *)
(***************************************************************************)
EXTENDS VPNClient, HandshakeProofs

-----------------------------------------------------------------------------
(* The client's steps are the handshake's.                                 *)

\* The steps that the handshake does not see.
Hidden ==
  \/ Attach \/ Configure \/ RouteCommand \/ AppendRoute \/ EndAssign
  \/ BeginStop \/ RemoveRoute \/ ForgetRoutes \/ CloseTun

\* A step of the client's threads or of its environment is a step of the
\* handshake, or one that leaves the handshake alone: so the actions are
\* written, and so what holds of every handshake holds of the client's.
LEMMA ClientStepIsStep == [ClientNext]_clientVars => [Next]_vars
<1> SUFFICES ASSUME [ClientNext]_clientVars PROVE [Next]_vars
  OBVIOUS
<1>1. CASE Environment
  BY <1>1 DEF Environment, Next
<1>2. CASE HandleOther
  BY <1>2 DEF HandleOther, Next, ClientStep
<1>3. CASE TakeAssign
  BY <1>3 DEF TakeAssign, Next, ClientStep
<1>4. CASE Hidden
  BY <1>4 DEF Hidden, Attach, Configure, RouteCommand, AppendRoute, EndAssign,
              BeginStop, RemoveRoute, ForgetRoutes, CloseTun
<1>5. CASE CallerStep
  BY <1>5 DEF CallerStep, ClientSendClientHello, StartSucceeds, ClientStartFails, StartFails,
              Next, StartStep
<1>6. CASE ClientStopTransport
  BY <1>6 DEF ClientStopTransport, Next
<1>7. CASE UNCHANGED clientVars
  BY <1>7 DEF clientVars
<1> QED BY <1>1, <1>2, <1>3, <1>4, <1>5, <1>6, <1>7
        DEF ClientNext, AssignStep, StopStep, Hidden

LEMMA ClientSpecIsSpec == ClientSpec => Spec
<1>1. ClientInit => Init
  BY DEF ClientInit
<1> QED BY <1>1, ClientStepIsStep, PTL DEF ClientSpec, Spec

\* What the handshake guarantees holds while the receive thread sets devices
\* up and stop() takes them down (_do_handshake, _handle_ip_assignment and
\* stop of src/vpn_client.py).
THEOREM HandshakeIsSafe ==
  ClientSpec => /\ []ServerKeyIsConfirmed /\ []AssignmentAppliedOnce
                /\ []NoSpuriousFailure /\ []KeysAgreeAtRest /\ []LeaseIsTakenUp
BY ClientSpecIsSpec, ServerKeyConfirmed, AppliedOnce, NeverFailsSpuriously, KeysAgree,
   LeaseTakenUp, PTL

-----------------------------------------------------------------------------
(* Devices and routes.                                                     *)

RecvRecord ==
  [pc : {"idle", "attach", "configure", "routes"}, todo : SUBSET Routes,
   adding : SUBSET Routes]

\* The type of the client's own variables.  The device self.tun is the one
\* of the last assignment; the TUN name is held by one device, that or an
\* earlier one.
DevicesTyped ==
  /\ recv \in RecvRecord
  /\ tun \in [number : Nat, is_up : BOOLEAN] /\ tun.number = client.assigned
  /\ recv.pc # "idle" => tun.number > 0
  /\ held = {} \/ \E n \in 1..tun.number : held = {n}
  /\ manager \in [number : Nat, added : SUBSET Routes] /\ manager.number <= tun.number
  /\ cleaning \in [number : Nat, todo : SUBSET Routes] /\ cleaning.number <= tun.number
  /\ kernel \subseteq Routes /\ missed \subseteq Routes
  /\ stop \in {"no", "removing", "forgotten", "closed", "done"}

\* Routes go with the device; a device that is being configured has none yet.
RoutesFollowDevice ==
  /\ held = {} => kernel = {}
  /\ recv.pc = "configure" => kernel = {}

\* Until stop() every route of the system's is on the manager's list, or its ip
\* command has just run; from then on it is on the list that cleanup goes
\* through, or was too late for it.
RoutesAccountedFor ==
  /\ recv.adding # {} => recv.pc = "routes"
  /\ stop = "no" => kernel \subseteq manager.added \cup recv.adding
  /\ stop # "no" /\ healthy => kernel \subseteq cleaning.todo \cup missed
  /\ stop # "removing" => cleaning.todo = {}

\* Who is connected has been assigned an address.
ConnectedIsAssigned ==
  /\ start = "connected" => client.assigned > 0
  /\ DeviceLostOnlyByReassignment

\* What stop() has closed stays closed.
ClosedStaysClosed ==
  stop \in {"closed", "done"} /\ ~late /\ client.assigned <= 1 => held = {}

DeviceInv ==
  /\ DevicesTyped /\ RoutesFollowDevice /\ RoutesAccountedFor
  /\ ConnectedIsAssigned /\ ClosedStaysClosed

\* How many assignments a step of the handshake applies.
LEMMA AssignmentsCounted ==
  ASSUME Typed
  PROVE  /\ HandleAssign => client'.assigned \in {client.assigned, client.assigned + 1}
         /\ HandleServerHello \/ HandleServerFinished \/ ReceiveEnds \/ StopTransport
              => client'.assigned = client.assigned
<1>0. client \in ClientRecord /\ Handled \in ClientRecord /\ Handled.assigned = client.assigned
  BY DEF Typed, Handled, ClientRecord
<1>1. HandleAssign => client'.assigned \in {client.assigned, client.assigned + 1}
  BY <1>0 DEF HandleAssign, IgnoreAssign, BurnNumber, ApplyAssign, ClientRecord
<1> QED BY <1>1, OnlyAssignsCount

\* A step that leaves the client's own variables alone and applies nothing:
\* start() may return, with a device that is up.
LEMMA QuietStep ==
  ASSUME DeviceInv, UNCHANGED <<deviceVars, healthy>>, client'.assigned = client.assigned,
         start' = "connected" => start = "connected" \/ (tun.is_up /\ client.assigned > 0)
  PROVE  DeviceInv'
<1>1. UNCHANGED <<recv, tun, manager, held, kernel, stop, cleaning, late, missed, healthy>>
  BY DEF deviceVars, systemVars
<1>2. DevicesTyped' /\ RoutesFollowDevice' /\ RoutesAccountedFor'
  BY <1>1 DEF DeviceInv, DevicesTyped, RoutesFollowDevice, RoutesAccountedFor
<1>3. ConnectedIsAssigned' /\ ClosedStaysClosed'
  BY <1>1 DEF DeviceInv, ConnectedIsAssigned, DeviceLostOnlyByReassignment, ClosedStaysClosed
<1> QED BY <1>2, <1>3 DEF DeviceInv

\* Which steps are.
LEMMA QuietSteps ==
  ASSUME Typed, DeviceInv, Environment \/ HandleOther \/ CallerStep \/ UNCHANGED clientVars
  PROVE  DeviceInv'
<1>1. CASE Environment
  <2>1. UNCHANGED <<deviceVars, healthy>> /\ UNCHANGED <<client, start>>
    BY <1>1
       DEF Environment, ServerStep, HandleClientHello, HandleClientFinished, ServerForgets, Fault
  <2>2. /\ client'.assigned = client.assigned
        /\ start' = "connected" => start = "connected" \/ (tun.is_up /\ client.assigned > 0)
    BY <2>1
  <2> QED BY <2>1, <2>2, QuietStep
<1>2. CASE HandleOther
  <2>1. /\ UNCHANGED <<deviceVars, healthy>> /\ UNCHANGED start
        /\ client'.assigned = client.assigned
    BY <1>2, AssignmentsCounted
       DEF HandleOther, HandleServerHello, HandleServerFinished, ReceiveEnds, HandleAssign
  <2>2. /\ client'.assigned = client.assigned
        /\ start' = "connected" => start = "connected" \/ (tun.is_up /\ client.assigned > 0)
    BY <2>1
  <2> QED BY <2>1, <2>2, QuietStep
<1>3. CASE CallerStep
  <2>1. /\ UNCHANGED <<deviceVars, healthy>> /\ UNCHANGED client
        /\ start' = "connected" => tun.is_up /\ client.assigned > 0
    BY <1>3 DEF CallerStep, ClientSendClientHello, StartSucceeds, ClientStartFails, StartFails,
                SendClientHello, HandshakeSucceeds, HandshakeFails, HandshakeTimesOut, DeviceIsUp
  <2>2. /\ client'.assigned = client.assigned
        /\ start' = "connected" => start = "connected" \/ (tun.is_up /\ client.assigned > 0)
    BY <2>1
  <2> QED BY <2>1, <2>2, QuietStep
<1>4. CASE UNCHANGED clientVars
  <2>1. UNCHANGED <<deviceVars, healthy>> /\ UNCHANGED <<client, start>>
    BY <1>4 DEF clientVars, vars
  <2>2. /\ client'.assigned = client.assigned
        /\ start' = "connected" => start = "connected" \/ (tun.is_up /\ client.assigned > 0)
    BY <2>1
  <2> QED BY <2>1, <2>2, QuietStep
<1> QED BY <1>1, <1>2, <1>3, <1>4

\* A step of the receive thread or of stop() that neither makes a device nor
\* takes one down keeps what is said of devices.
LEMMA SameDevice ==
  ASSUME DeviceInv, UNCHANGED <<tun, held, late, client, start>>,
         (stop = "no") = (stop' = "no"), stop' \in {"closed", "done"} => stop \in {"closed", "done"}
  PROVE  ConnectedIsAssigned' /\ ClosedStaysClosed'
BY DEF DeviceInv, ConnectedIsAssigned, DeviceLostOnlyByReassignment, ClosedStaysClosed

\* The receive thread's assignment, step by step.
LEMMA AssignSteps ==
  ASSUME Typed, DeviceInv, AssignStep
  PROVE  DeviceInv'
<1>0. /\ recv \in RecvRecord
      /\ tun \in [number : Nat, is_up : BOOLEAN] /\ tun.number = client.assigned
      /\ client.assigned \in Nat /\ manager \in [number : Nat, added : SUBSET Routes]
      /\ manager.number <= tun.number
      /\ cleaning \in [number : Nat, todo : SUBSET Routes] /\ cleaning.number <= tun.number
      /\ DevicesTyped /\ RoutesFollowDevice /\ RoutesAccountedFor
      /\ recv.pc # "routes" => recv.adding = {}
  BY DEF DeviceInv, DevicesTyped, RoutesAccountedFor
<1>1. CASE TakeAssign
  <2>1. /\ recv' = [recv EXCEPT !.pc = "attach"] /\ recv.pc = "idle"
        /\ tun' = [number |-> client'.assigned, is_up |-> FALSE]
        /\ client'.assigned = client.assigned + 1
        /\ UNCHANGED <<held, manager, kernel, stop, cleaning, healthy, late, missed, start>>
    BY <1>0, <1>1, AssignmentsCounted DEF TakeAssign, HandleAssign, systemVars, stopVars
  <2>2. recv' \in RecvRecord /\ recv'.pc = "attach" /\ recv'.adding = recv.adding
    BY <1>0, <2>1 DEF RecvRecord
  <2>3. DevicesTyped'
    <3>1. tun' \in [number : Nat, is_up : BOOLEAN] /\ tun'.number = client.assigned + 1
      BY <1>0, <2>1
    <3>2. held' = {} \/ \E n \in 1..tun'.number : held' = {n}
      BY <1>0, <2>1, <3>1 DEF DevicesTyped
    <3>3. manager.number <= tun'.number /\ cleaning.number <= tun'.number /\ tun'.number > 0
      BY <1>0, <3>1
    <3> QED BY <1>0, <2>1, <2>2, <3>1, <3>2, <3>3 DEF DevicesTyped
  <2>4. RoutesFollowDevice' /\ RoutesAccountedFor'
    BY <1>0, <2>1, <2>2 DEF RoutesFollowDevice, RoutesAccountedFor
  <2>5. ConnectedIsAssigned' /\ ClosedStaysClosed'
    BY <1>0, <2>1
       DEF DeviceInv, ConnectedIsAssigned, DeviceLostOnlyByReassignment, ClosedStaysClosed
  <2> QED BY <2>3, <2>4, <2>5 DEF DeviceInv
<1>2. CASE Attach
  <2>1. /\ recv.pc = "attach"
        /\ UNCHANGED <<tun, manager, kernel, stop, cleaning, healthy, missed, client, start>>
        /\ \/ recv' = [pc |-> "idle", todo |-> {}, adding |-> {}] /\ UNCHANGED <<held, late>>
           \/ /\ held = {} /\ held' = {tun.number}
              /\ recv' = [recv EXCEPT !.pc = "configure"]
              /\ late' = (stop \in {"closed", "done"})
    BY <1>2 DEF Attach, LeaveAssign, vars, stopVars
  <2>2. /\ recv' \in RecvRecord /\ recv'.pc # "routes" /\ recv'.adding = {}
        /\ recv'.pc = "configure" => held = {}
    BY <1>0, <2>1 DEF RecvRecord
  <2>3. tun.number > 0 /\ tun.number \in 1..tun.number
    BY <1>0, <2>1 DEF DevicesTyped
  <2>4. DevicesTyped'
    BY <1>0, <2>1, <2>2, <2>3 DEF DevicesTyped
  <2>5. RoutesFollowDevice'
    BY <1>0, <2>1, <2>2 DEF RoutesFollowDevice
  <2>6. RoutesAccountedFor'
    BY <1>0, <2>1, <2>2 DEF RoutesAccountedFor
  <2>7. ConnectedIsAssigned' /\ ClosedStaysClosed'
    BY <2>1 DEF DeviceInv, ConnectedIsAssigned, DeviceLostOnlyByReassignment, ClosedStaysClosed
  <2> QED BY <2>4, <2>5, <2>6, <2>7 DEF DeviceInv
<1>3. CASE Configure
  <2>1. /\ recv.pc = "configure"
        /\ UNCHANGED <<held, kernel, stop, cleaning, healthy, late, missed, client, start>>
        /\ \/ recv' = [pc |-> "idle", todo |-> {}, adding |-> {}] /\ UNCHANGED <<tun, manager>>
           \/ /\ tun' = [tun EXCEPT !.is_up = TRUE]
              /\ manager' = [number |-> tun.number, added |-> {}]
              /\ recv' = [pc |-> "routes", todo |-> Routes, adding |-> {}]
    BY <1>3 DEF Configure, LeaveAssign, vars, systemVars, stopVars
  <2>2. recv' \in RecvRecord /\ recv'.pc # "configure" /\ recv'.adding = {}
    BY <2>1 DEF RecvRecord
  <2>3. /\ tun' \in [number : Nat, is_up : BOOLEAN] /\ tun'.number = tun.number
        /\ tun.is_up => tun'.is_up
    BY <1>0, <2>1
  <2>4. kernel = {} /\ tun.number > 0
    BY <1>0, <2>1 DEF DevicesTyped, RoutesFollowDevice
  <2>5. manager' \in [number : Nat, added : SUBSET Routes] /\ manager'.number <= tun.number
    BY <1>0, <2>1
  <2>6. DevicesTyped'
    BY <1>0, <2>1, <2>2, <2>3, <2>4, <2>5 DEF DevicesTyped
  <2>7. RoutesFollowDevice' /\ RoutesAccountedFor'
    BY <1>0, <2>1, <2>2, <2>4 DEF RoutesFollowDevice, RoutesAccountedFor
  <2>8. ConnectedIsAssigned' /\ ClosedStaysClosed'
    BY <2>1, <2>3
       DEF DeviceInv, ConnectedIsAssigned, DeviceLostOnlyByReassignment, ClosedStaysClosed
  <2> QED BY <2>6, <2>7, <2>8 DEF DeviceInv
<1>4. CASE RouteCommand
  <2>0. /\ recv.pc = "routes" /\ recv.adding = {}
        /\ UNCHANGED <<tun, held, manager, stop, cleaning, healthy, late, client, start>>
    BY <1>4 DEF RouteCommand, vars, stopVars
  <2>1. PICK r \in recv.todo :
          \/ /\ recv' = [recv EXCEPT !.todo = @ \ {r}]
             /\ UNCHANGED <<kernel, missed>>
          \/ /\ held # {} /\ recv' = [recv EXCEPT !.todo = @ \ {r}, !.adding = {r}]
             /\ kernel' = kernel \cup {r}
             /\ missed' = IF stop = "no" THEN missed ELSE missed \cup {r}
    BY <1>4 DEF RouteCommand
  <2>2. r \in Routes /\ recv' \in RecvRecord /\ recv'.pc = "routes"
    <3>1. r \in Routes
      BY <1>0, <2>1 DEF RecvRecord
    <3>2. [recv EXCEPT !.todo = @ \ {r}] \in RecvRecord
      BY <1>0 DEF RecvRecord
    <3>3. [recv EXCEPT !.todo = @ \ {r}, !.adding = {r}] \in RecvRecord
      BY <1>0, <3>1 DEF RecvRecord
    <3>4. recv'.pc = recv.pc
      BY <1>0, <2>1 DEF RecvRecord
    <3> QED BY <2>0, <2>1, <3>1, <3>2, <3>3, <3>4
  <2>3. \/ UNCHANGED <<kernel, missed>> /\ recv'.adding = {}
        \/ /\ held # {} /\ recv'.adding = {r} /\ kernel' = kernel \cup {r}
           /\ missed' = IF stop = "no" THEN missed ELSE missed \cup {r}
    BY <1>0, <2>0, <2>1 DEF RecvRecord
  <2>4. DevicesTyped'
    BY <1>0, <2>0, <2>2, <2>3 DEF DevicesTyped
  <2>5. RoutesFollowDevice'
    BY <1>0, <2>0, <2>2, <2>3 DEF RoutesFollowDevice
  <2>6. RoutesAccountedFor'
    BY <1>0, <2>0, <2>2, <2>3 DEF RoutesAccountedFor
  <2>7. ConnectedIsAssigned' /\ ClosedStaysClosed'
    BY <2>0, SameDevice
  <2> QED BY <2>4, <2>5, <2>6, <2>7 DEF DeviceInv
<1>5. CASE AppendRoute
  <2>1. /\ recv.adding # {} /\ recv' = [recv EXCEPT !.adding = {}]
        /\ manager' = [manager EXCEPT !.added = @ \cup recv.adding]
        /\ UNCHANGED <<tun, held, kernel, stop, cleaning, healthy, late, missed, client, start>>
    BY <1>5 DEF AppendRoute, vars, systemVars, stopVars
  <2>2. /\ recv' \in RecvRecord /\ recv'.pc = recv.pc /\ recv'.adding = {}
        /\ manager' \in [number : Nat, added : SUBSET Routes]
        /\ manager'.number = manager.number /\ manager'.added = manager.added \cup recv.adding
    BY <1>0, <2>1 DEF RecvRecord
  <2>3. DevicesTyped'
    BY <1>0, <2>1, <2>2 DEF DevicesTyped
  <2>4. RoutesFollowDevice' /\ RoutesAccountedFor'
    BY <1>0, <2>1, <2>2 DEF RoutesFollowDevice, RoutesAccountedFor
  <2>5. ConnectedIsAssigned' /\ ClosedStaysClosed'
    BY <2>1, SameDevice
  <2> QED BY <2>3, <2>4, <2>5 DEF DeviceInv
<1>6. CASE EndAssign
  <2>1. /\ recv' = [pc |-> "idle", todo |-> {}, adding |-> {}] /\ recv.adding = {}
        /\ UNCHANGED <<tun, held, manager, kernel, stop, cleaning, healthy, late, missed>>
        /\ UNCHANGED <<client, start>>
    BY <1>6 DEF EndAssign, LeaveAssign, vars, systemVars, stopVars
  <2>2. recv' \in RecvRecord /\ recv'.pc = "idle" /\ recv'.adding = {}
    BY <2>1 DEF RecvRecord
  <2>3. DevicesTyped' /\ RoutesFollowDevice' /\ RoutesAccountedFor'
    BY <1>0, <2>1, <2>2 DEF DevicesTyped, RoutesFollowDevice, RoutesAccountedFor
  <2>4. ConnectedIsAssigned' /\ ClosedStaysClosed'
    BY <2>1, SameDevice
  <2> QED BY <2>3, <2>4 DEF DeviceInv
<1> QED BY <1>1, <1>2, <1>3, <1>4, <1>5, <1>6 DEF AssignStep

\* stop(), step by step.
LEMMA StopSteps ==
  ASSUME Typed, DeviceInv, BeginStop \/ StopStep
  PROVE  DeviceInv'
<1>0. /\ tun \in [number : Nat, is_up : BOOLEAN] /\ tun.number = client.assigned
      /\ client.assigned \in Nat /\ manager \in [number : Nat, added : SUBSET Routes]
      /\ manager.number <= tun.number /\ recv \in RecvRecord
      /\ cleaning \in [number : Nat, todo : SUBSET Routes] /\ cleaning.number <= tun.number
      /\ DevicesTyped /\ RoutesFollowDevice /\ RoutesAccountedFor
  BY DEF DeviceInv, DevicesTyped
<1>1. CASE BeginStop
  <2>1. /\ stop = "no" /\ stop' = "removing" /\ missed' = recv.adding
        /\ cleaning' = [number |-> manager.number, todo |-> manager.added]
        /\ UNCHANGED <<recv, tun, held, manager, kernel, healthy, late, client, start>>
    BY <1>1 DEF BeginStop, vars, systemVars
  <2>2. /\ cleaning' \in [number : Nat, todo : SUBSET Routes] /\ recv.adding \subseteq Routes
        /\ cleaning'.number = manager.number /\ cleaning'.todo = manager.added
    BY <1>0, <2>1 DEF RecvRecord
  <2>3. DevicesTyped'
    BY <1>0, <2>1, <2>2 DEF DevicesTyped
  <2>4. RoutesFollowDevice' /\ RoutesAccountedFor'
    BY <1>0, <2>1, <2>2 DEF RoutesFollowDevice, RoutesAccountedFor
  <2>5. ConnectedIsAssigned' /\ ClosedStaysClosed'
    BY <2>1 DEF DeviceInv, ConnectedIsAssigned, DeviceLostOnlyByReassignment, ClosedStaysClosed
  <2> QED BY <2>3, <2>4, <2>5 DEF DeviceInv
<1>2. CASE RemoveRoute
  <2>0. UNCHANGED <<recv, tun, held, manager, stop, healthy, late, missed, client, start>>
    BY <1>2 DEF RemoveRoute, vars
  <2>1. PICK r \in cleaning.todo :
          /\ cleaning' = [cleaning EXCEPT !.todo = @ \ {r}]
          /\ kernel' = kernel \ {r} \/ (~healthy /\ UNCHANGED kernel)
    BY <1>2 DEF RemoveRoute
  <2>2. /\ cleaning' \in [number : Nat, todo : SUBSET Routes]
        /\ cleaning'.number = cleaning.number /\ cleaning'.todo = cleaning.todo \ {r}
        /\ stop = "removing"
    BY <1>0, <2>1 DEF RoutesAccountedFor
  <2>3. DevicesTyped'
    BY <1>0, <2>0, <2>1, <2>2 DEF DevicesTyped
  <2>4. RoutesFollowDevice' /\ RoutesAccountedFor'
    BY <1>0, <2>0, <2>1, <2>2 DEF RoutesFollowDevice, RoutesAccountedFor
  <2>5. ConnectedIsAssigned' /\ ClosedStaysClosed'
    BY <2>0, SameDevice
  <2> QED BY <2>3, <2>4, <2>5 DEF DeviceInv
<1>3. CASE ForgetRoutes
  <2>1. /\ stop = "removing" /\ cleaning.todo = {} /\ stop' = "forgotten"
        /\ manager' = IF manager.number = cleaning.number
                      THEN [manager EXCEPT !.added = {}] ELSE manager
        /\ UNCHANGED <<recv, tun, held, kernel, cleaning, healthy, late, missed, client, start>>
    BY <1>3 DEF ForgetRoutes, vars, systemVars
  <2>2. /\ manager' \in [number : Nat, added : SUBSET Routes]
        /\ manager'.number = manager.number
    BY <1>0, <2>1
  <2>3. DevicesTyped'
    BY <1>0, <2>1, <2>2 DEF DevicesTyped
  <2>4. RoutesFollowDevice' /\ RoutesAccountedFor'
    BY <1>0, <2>1 DEF RoutesFollowDevice, RoutesAccountedFor
  <2>5. ConnectedIsAssigned' /\ ClosedStaysClosed'
    BY <2>1, SameDevice
  <2> QED BY <2>3, <2>4, <2>5 DEF DeviceInv
<1>4. CASE CloseTun
  <2>1. /\ stop = "forgotten" /\ stop' = "closed" /\ held' = held \ {tun.number}
        /\ kernel' = (IF held' = {} THEN {} ELSE kernel)
        /\ UNCHANGED <<recv, manager, cleaning, healthy, late, missed, client, start>>
    BY <1>4 DEF CloseTun, vars
  <2>2. tun' \in [number : Nat, is_up : BOOLEAN] /\ tun'.number = tun.number
    BY <1>0, <1>4 DEF CloseTun
  <2>3. held' = {} \/ held' = held
    BY <1>0, <2>1 DEF DevicesTyped
  <2>4. DevicesTyped'
    BY <1>0, <2>1, <2>2, <2>3 DEF DevicesTyped
  <2>5. RoutesFollowDevice' /\ RoutesAccountedFor'
    BY <1>0, <2>1, <2>3 DEF RoutesFollowDevice, RoutesAccountedFor
  <2>6. client.assigned <= 1 => held' = {}
    BY <1>0, <2>1 DEF DevicesTyped
  <2>7. ConnectedIsAssigned' /\ ClosedStaysClosed'
    BY <2>1, <2>6
       DEF DeviceInv, ConnectedIsAssigned, DeviceLostOnlyByReassignment, ClosedStaysClosed
  <2> QED BY <2>4, <2>5, <2>7 DEF DeviceInv
<1>5. CASE ClientStopTransport
  <2>1. /\ stop = "closed" /\ stop' = "done" /\ client'.assigned = client.assigned
        /\ UNCHANGED <<recv, tun, held, manager, kernel, cleaning, healthy, late, missed, start>>
    BY <1>5, AssignmentsCounted DEF ClientStopTransport, StopTransport, systemVars
  <2>2. DevicesTyped' /\ RoutesFollowDevice' /\ RoutesAccountedFor'
    BY <1>0, <2>1 DEF DevicesTyped, RoutesFollowDevice, RoutesAccountedFor
  <2>3. ConnectedIsAssigned' /\ ClosedStaysClosed'
    BY <2>1 DEF DeviceInv, ConnectedIsAssigned, DeviceLostOnlyByReassignment, ClosedStaysClosed
  <2> QED BY <2>2, <2>3 DEF DeviceInv
<1> QED BY <1>1, <1>2, <1>3, <1>4, <1>5 DEF StopStep

\* The client's devices and routes in every reachable state.
THEOREM DeviceInvHolds == ClientSpec => []DeviceInv
<1>1. ClientInit => DeviceInv
  BY DEF ClientInit, Init, DeviceInv, DevicesTyped, RecvRecord, RoutesFollowDevice,
         RoutesAccountedFor, ConnectedIsAssigned, DeviceLostOnlyByReassignment, ClosedStaysClosed
<1>2. Typed /\ DeviceInv /\ [ClientNext]_clientVars => DeviceInv'
  BY QuietSteps, AssignSteps, StopSteps DEF ClientNext
<1>3. ClientSpec => []Typed
  BY ClientSpecIsSpec, TypesHold, PTL
<1> QED BY <1>1, <1>2, <1>3, PTL DEF ClientSpec

\* The type invariant.
THEOREM ClientTypeCorrect == ClientSpec => []ClientTypeOK
<1>1. TypeOK /\ DeviceInv => ClientTypeOK
  <2> SUFFICES ASSUME TypeOK, DeviceInv PROVE ClientTypeOK
    OBVIOUS
  <2>1. Cardinality(held) <= 1
    <3>1. CASE held = {}
      BY <3>1, FS_EmptySet
    <3>2. ASSUME NEW n, held = {n} PROVE Cardinality(held) <= 1
      BY <3>2, FS_Singleton
    <3> QED BY <3>1, <3>2 DEF DeviceInv, DevicesTyped
  <2>2. /\ held \subseteq 1..tun.number /\ tun.number \in 0..client.assigned
        /\ manager.number \in 0..tun.number /\ cleaning.number \in 0..tun.number
    BY DEF DeviceInv, DevicesTyped
  <2> QED BY <2>1, <2>2 DEF DeviceInv, DevicesTyped, RecvRecord, ClientTypeOK
<1> QED BY <1>1, ClientSpecIsSpec, TypeCorrect, DeviceInvHolds, PTL

\* Of the routes through the client's device the cleanup of stop() overlooks
\* only one that the receive thread was adding meanwhile, whichever of the two
\* threads runs between the ip command of add_route, its append and the steps
\* of cleanup (SystemRouteManager of src/router.py), and however many
\* assignments make a new manager.
THEOREM CleanupIsComplete == ClientSpec => []CleanupLeavesOnlyLateRoutes
<1>1. DeviceInv => CleanupLeavesOnlyLateRoutes
  BY DEF DeviceInv, RoutesAccountedFor, CleanupLeavesOnlyLateRoutes
<1> QED BY <1>1, DeviceInvHolds, PTL

\* A connected client's device goes down before stop() only when another
\* assignment replaces it (_handle_ip_assignment of src/vpn_client.py).
THEOREM DeviceStaysUp == ClientSpec => []DeviceLostOnlyByReassignment
BY DeviceInvHolds, PTL DEF DeviceInv, ConnectedIsAssigned

\* stop() of src/vpn_client.py leaves a device or a route behind only if the
\* receive thread opened it after close() or a later assignment had replaced
\* the device by then.
THEOREM StopIsComplete == ClientSpec => []StopTakesEverythingDown
<1>1. DeviceInv => StopTakesEverythingDown
  BY DEF DeviceInv, RoutesFollowDevice, ClosedStaysClosed, StopTakesEverythingDown
<1> QED BY <1>1, DeviceInvHolds, PTL
=============================================================================
