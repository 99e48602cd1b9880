---------------------------- MODULE IPAllocator -----------------------------
(***************************************************************************)
(* Class IPAllocator (src/router.py).  No lock guards it, and the receive  *)
(* thread, the heartbeat thread and an operator's thread all call it, so   *)
(* each operator below is one step of allocate or release rather than a    *)
(* whole call; VPNServer strings them together.                            *)
(*                                                                         *)
(* The pool is 1..PoolSize: self._hosts in its own order, which is the     *)
(* order allocate searches, with exclude_ips already left out.             *)
(***************************************************************************)
EXTENDS Integers

CONSTANTS
  Addr,         \* UDP addresses of clients: the peer_id of every call
  PoolSize,     \* how many addresses the pool has
  None          \* Python's None; also "no such key"

ASSUME PoolAssumption ==
  /\ PoolSize \in Nat
  /\ None \notin Addr
  /\ None \notin Int

VARIABLES
  alloc_map,    \* self._alloc_map: peer -> its address, None if absent
  allocated     \* self._allocated: the addresses in use

allocVars == <<alloc_map, allocated>>

Hosts == 1..PoolSize

AllocInit ==
  /\ alloc_map = [a \in Addr |-> None]
  /\ allocated = {}

-----------------------------------------------------------------------------

get_ip(a) == alloc_map[a]

FreeHosts == Hosts \ allocated

\* The first entry of self._hosts that is not in self._allocated.
FirstFree(ip) == ip \in FreeHosts /\ \A other \in FreeHosts : ip <= other

\* self._allocated.add(ip)
Reserve(ip) ==
  /\ allocated' = allocated \cup {ip}
  /\ UNCHANGED alloc_map

\* self._alloc_map[peer] = ip
Record(a, ip) ==
  /\ alloc_map' = [alloc_map EXCEPT ![a] = ip]
  /\ UNCHANGED allocated

\* Mutant: release gives the address back before it forgets the lease.
PopAndDiscard(a) ==
  /\ allocated' = allocated \ {alloc_map[a]}
  /\ UNCHANGED alloc_map

\* ip = self._alloc_map.pop(peer)
Pop(a) ==
  /\ alloc_map' = [alloc_map EXCEPT ![a] = None]
  /\ UNCHANGED allocated

\* Mutant: release forgets the lease and never gives the address back.
KeepReserved(ip) == UNCHANGED allocVars

\* self._allocated.discard(ip)
Discard(ip) ==
  /\ allocated' = allocated \ {ip}
  /\ UNCHANGED alloc_map
=============================================================================
