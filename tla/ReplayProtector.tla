--------------------------- MODULE ReplayProtector --------------------------
(***************************************************************************)
(* One sender and one receiver of class ReplayProtector                    *)
(* (src/crypto_handshake.py) with a UDP path between them: a number the    *)
(* sender has drawn may reach the receiver in any order, any number of     *)
(* times, or never.                                                        *)
(***************************************************************************)
EXTENDS ReplayWindow

CONSTANT MaxSeq             \* bound: the sender draws 0..MaxSeq

ASSUME MaxSeqAssumption == MaxSeq \in Nat

VARIABLES
  next_seq,     \* the sender's self.next_seq
  rx,           \* the receiver's max_seq and window_bitmap
  delivered,    \* history: how often check_and_update(s) returned True
  refused       \* history: the s for which it returned False

vars == <<next_seq, rx, delivered, refused>>

Seqs == 0..MaxSeq

Init ==
  /\ next_seq = 0
  /\ rx = FreshWindow
  /\ delivered = [s \in Seqs |-> 0]
  /\ refused = {}

next_sequence ==
  /\ next_seq <= MaxSeq
  /\ next_seq' = next_seq + 1
  /\ UNCHANGED <<rx, delivered, refused>>

\* A datagram numbered seq comes off the network.
check_and_update(seq) ==
  /\ seq < next_seq
  /\ rx' = Updated(rx, seq)
  /\ IF Admits(rx, seq)
       THEN /\ delivered' = [delivered EXCEPT ![seq] = @ + 1]
            /\ UNCHANGED refused
       ELSE /\ refused' = refused \cup {seq}
            /\ UNCHANGED delivered
  /\ UNCHANGED next_seq

Next ==
  \/ next_sequence
  \/ \E seq \in Seqs : check_and_update(seq)

Spec == Init /\ [][Next]_vars

-----------------------------------------------------------------------------
(* Properties.                                                             *)

Received == {s \in Seqs : delivered[s] > 0}

TypeOK ==
  /\ next_seq \in 0..(MaxSeq + 1)
  /\ rx.max_seq \in Seqs
  /\ rx.window_bitmap \subseteq Seqs
  /\ rx = [max_seq |-> rx.max_seq, window_bitmap |-> rx.window_bitmap]
  /\ delivered \in [Seqs -> Nat]
  /\ refused \subseteq Seqs

\* However the path duplicates and reorders, no number passes the check
\* twice: the bitmap keeps its meaning through every shift.
AtMostOnce == \A s \in Seqs : delivered[s] <= 1

\* check_and_update turns a number away only if that number has already
\* passed or has fallen WINDOW_SIZE or more behind the newest one: a late
\* packet inside the window is never lost to somebody else's bit.
NoFalseRefusal ==
  \A s \in refused : delivered[s] > 0 \/ rx.max_seq - s >= WINDOW_SIZE

\* The strengthening both facts follow from: read relative to max_seq, the
\* bitmap is exactly the set of the numbers let through so far.
BitmapIsReceived ==
  /\ rx.window_bitmap = {rx.max_seq - s : s \in Received}
  /\ \A s \in Received : s <= rx.max_seq

IInv == TypeOK /\ AtMostOnce /\ NoFalseRefusal /\ BitmapIsReceived

\* The code implements the protector that keeps plain sets: every call gives
\* the answer AntiReplay gives.
Abstract == INSTANCE AntiReplay WITH highest <- rx.max_seq
ImplementsAntiReplay == Abstract!Spec

-----------------------------------------------------------------------------
(* What the comment on the class says of its state.                        *)

\* src/crypto_handshake.py:225-232 describe a window: the receiver keeps the
\* numbers inside it and forgets those left of it.  The bitmap would then
\* need no bit at position WINDOW_SIZE or above.
BitmapHoldsOneWindow == \A d \in rx.window_bitmap : d < WINDOW_SIZE

=============================================================================
