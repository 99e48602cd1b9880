---------------------------- MODULE LeaseService ----------------------------
(***************************************************************************)
(* What the address allocation of the server promises its clients, with no *)
(* pool, no threads and no tables in it: a client without an address may   *)
(* be granted one that no other client has, keeps exactly that one, and    *)
(* may lose it again.  An address never moves from a client to another     *)
(* in one step, and a client's address is never exchanged for another.     *)
(***************************************************************************)

CONSTANTS Clients, Addresses, None

VARIABLE lease              \* client -> its address, None if it has none

Init == lease = [c \in Clients |-> None]

Grant(c, ip) ==
  /\ lease[c] = None
  /\ \A d \in Clients : lease[d] # ip
  /\ lease' = [lease EXCEPT ![c] = ip]

TakeBack(c) ==
  /\ lease[c] # None
  /\ lease' = [lease EXCEPT ![c] = None]

Next == \E c \in Clients : TakeBack(c) \/ \E ip \in Addresses : Grant(c, ip)

Spec == Init /\ [][Next]_lease
=============================================================================
