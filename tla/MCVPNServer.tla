---------------------------- MODULE MCVPNServer -----------------------------
(***************************************************************************)
(* VPNServer for TLC.  The clients are interchangeable in every run that   *)
(* checks no liveness: Silent and Removable are then all of them or none.  *)
(***************************************************************************)
EXTENDS VPNServer, TLC

CONSTANTS a1, a2

MCAddr == {a1, a2}
NoClients == {}

\* Where the server's host sends: nowhere, or to the first client's address.
NoTraffic == {}
FirstHost == {1}

Symmetry == Permutations(Addr)
=============================================================================
