------------------------- MODULE ReplayWindowProofs -------------------------
(***************************************************************************)
(* What check_and_update does to a window, as facts about the operators of *)
(* ReplayWindow, for the proofs about the modules that carry windows in    *)
(* their state.  They hold for a bitmap of any width.                      *)
(***************************************************************************)
EXTENDS ReplayWindow, TLAPS

Window == [max_seq : Nat, window_bitmap : SUBSET Nat]

\* The window has the bit of number n.
Received(w, n) == n <= w.max_seq /\ (w.max_seq - n) \in w.window_bitmap

\* The object that __init__ makes is a window, and has received nothing.
LEMMA FreshWindowTyped ==
  FreshWindow \in Window /\ \A n \in Nat : ~Received(FreshWindow, n)
BY DEF FreshWindow, Window, Received

\* A call of check_and_update leaves a window.
LEMMA UpdatedTyped ==
  ASSUME NEW w \in Window, NEW seq \in Nat
  PROVE  Updated(w, seq) \in Window
<1>1. CASE seq > w.max_seq
  <2>1. ShiftLeft(w.window_bitmap, seq - w.max_seq) \subseteq Nat
    BY <1>1 DEF ShiftLeft, Window
  <2> QED BY <1>1, <2>1 DEF Updated, Slide, Window
<1>2. CASE ~(seq > w.max_seq)
  <2>1. w.max_seq - seq \in Nat
    BY <1>2 DEF Window
  <2>2. Mark(w, seq) \in Window
    BY <2>1 DEF Mark, Window
  <2> QED BY <1>2, <2>2 DEF Updated
<1> QED BY <1>1, <1>2

\* max_seq never falls.
LEMMA MaxSeqGrows ==
  ASSUME NEW w \in Window, NEW seq \in Nat
  PROVE  Updated(w, seq).max_seq >= w.max_seq
BY DEF Updated, Slide, Mark, Window

\* What a call adds to the received numbers is its own number, and that only
\* if it returns True.
LEMMA OnlyItsNumberIsReceived ==
  ASSUME NEW w \in Window, NEW seq \in Nat, NEW n \in Nat,
         Received(Updated(w, seq), n)
  PROVE  Received(w, n) \/ (n = seq /\ Admits(w, seq))
<1>1. CASE seq > w.max_seq
  <2>1. n <= seq /\ (seq - n) \in ShiftLeft(w.window_bitmap, seq - w.max_seq) \cup {0}
    BY <1>1 DEF Received, Updated, Slide
  <2>2. CASE seq - n = 0
    BY <1>1, <2>1, <2>2 DEF Admits
  <2>3. CASE (seq - n) \in ShiftLeft(w.window_bitmap, seq - w.max_seq)
    <3>1. PICK d \in w.window_bitmap : seq - n = d + (seq - w.max_seq)
      BY <2>3 DEF ShiftLeft
    <3>2. d \in Nat /\ w.max_seq \in Nat
      BY DEF Window
    <3>3. d = w.max_seq - n /\ n <= w.max_seq
      BY <3>1, <3>2
    <3> QED BY <3>3 DEF Received
  <2> QED BY <2>1, <2>2, <2>3
<1>2. CASE ~(seq > w.max_seq) /\ Admits(w, seq)
  <2>1. n <= w.max_seq /\ (w.max_seq - n) \in w.window_bitmap \cup {w.max_seq - seq}
    BY <1>2 DEF Received, Updated, Mark, Window
  <2>2. w.max_seq \in Nat
    BY DEF Window
  <2> QED BY <1>2, <2>1, <2>2 DEF Received
<1>3. CASE ~Admits(w, seq)
  BY <1>3 DEF Updated, Admits
<1> QED BY <1>1, <1>2, <1>3

\* A number is refused only if it is WINDOW_SIZE behind, or was received.
LEMMA RefusedHasCause ==
  ASSUME NEW w \in Window, NEW n \in Nat, ~Admits(w, n)
  PROVE  w.max_seq - n >= WINDOW_SIZE \/ Received(w, n)
<1>1. w.max_seq \in Nat
  BY DEF Window
<1> QED BY <1>1, WindowAssumption DEF Admits, Received

\* A received number, and one that is too old, is refused.
LEMMA CauseIsRefused ==
  ASSUME NEW w \in Window, NEW n \in Nat, n <= w.max_seq,
         w.max_seq - n >= WINDOW_SIZE \/ Received(w, n)
  PROVE  ~Admits(w, n)
<1>1. w.max_seq \in Nat
  BY DEF Window
<1> QED BY <1>1, WindowAssumption DEF Admits, Received

\* A number that a call has been made with is refused from then on.
LEMMA ItsNumberIsRefused ==
  ASSUME NEW w \in Window, NEW seq \in Nat
  PROVE  ~Admits(Updated(w, seq), seq)
<1>1. w.max_seq \in Nat
  BY DEF Window
<1>2. CASE seq > w.max_seq
  BY <1>2 DEF Updated, Slide, Admits
<1>3. CASE ~(seq > w.max_seq) /\ Admits(w, seq)
  BY <1>1, <1>3 DEF Updated, Mark, Admits, Window
<1>4. CASE ~Admits(w, seq)
  BY <1>4 DEF Updated, Admits
<1> QED BY <1>2, <1>3, <1>4

\* What is refused stays refused, whatever other numbers come: a window that
\* slides drops no bit that it still needs.
THEOREM RefusedForGood ==
  ASSUME NEW w \in Window, NEW seq \in Nat, NEW n \in Nat, ~Admits(w, n)
  PROVE  ~Admits(Updated(w, seq), n)
<1>0. w.max_seq \in Nat /\ n <= w.max_seq
  BY DEF Window, Admits
<1>1. CASE seq > w.max_seq
  <2>1. Updated(w, seq) \in Window /\ Updated(w, seq).max_seq = seq
    BY <1>1, UpdatedTyped DEF Updated, Slide
  <2>2. CASE w.max_seq - n >= WINDOW_SIZE
    <3>1. n <= seq /\ seq - n >= WINDOW_SIZE
      BY <1>0, <1>1, <2>2, WindowAssumption
    <3> QED BY <2>1, <3>1, CauseIsRefused
  <2>3. CASE Received(w, n)
    <3>1. seq - n = (w.max_seq - n) + (seq - w.max_seq)
      BY <1>0
    <3>2. (seq - n) \in ShiftLeft(w.window_bitmap, seq - w.max_seq)
      BY <2>3, <3>1 DEF Received, ShiftLeft
    <3>3. n <= seq /\ (seq - n) \in Updated(w, seq).window_bitmap
      BY <1>0, <1>1, <3>2 DEF Updated, Slide
    <3> QED BY <2>1, <3>3, CauseIsRefused DEF Received
  <2> QED BY <2>2, <2>3, RefusedHasCause
<1>2. CASE ~(seq > w.max_seq)
  BY <1>2 DEF Updated, Mark, Admits, Window
<1> QED BY <1>1, <1>2
=============================================================================
