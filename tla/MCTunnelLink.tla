---------------------------- MODULE MCTunnelLink ----------------------------
(* Bounds for TunnelLink: a scenario stresses one direction of the tunnel. *)
EXTENDS TunnelLink

Within(h, u, d, t, s, c) ==
  [hellos |-> h, up |-> u, down |-> d, drawing |-> t,
   server_forgets |-> s, client_forgets |-> c]

\* Two handshakes, with an entry dropped on each side, against the client's two
\* counters; then against the server's one; three threads that draw two at a
\* time.
Upward   == Within(2, 2, 1, 1, 1, 1)
Downward == Within(2, 0, 2, 1, 1, 0)
Drawing  == Within(1, 0, 3, 2, 0, 0)

AllScenarios == {Upward, Downward, Drawing}

\* One handshake and nothing lost in time-outs.
OneHandshake == {Within(1, 2, 1, 1, 0, 0)}
=============================================================================
