---------------------------- MODULE ReplayWindow ----------------------------
(***************************************************************************)
(* The receive side of class ReplayProtector (src/crypto_handshake.py) as  *)
(* operators on a record, so that every module that owns such an object    *)
(* can carry it in its own state.                                          *)
(*                                                                         *)
(* window_bitmap is a Python integer of unbounded width.  It is modelled   *)
(* by the set of the positions of its 1 bits: bit d stands for sequence    *)
(* number max_seq - d, a left shift adds to every position, and nothing    *)
(* masks the integer to WINDOW_SIZE bits because nothing in the code does. *)
(***************************************************************************)
EXTENDS Integers

CONSTANT WINDOW_SIZE        \* how far behind max_seq a packet may arrive

ASSUME WindowAssumption == WINDOW_SIZE \in Nat \ {0}

\* The object __init__ makes.
FreshWindow == [max_seq |-> 0, window_bitmap |-> {}]

\* self.window_bitmap <<= n
ShiftLeft(bitmap, n) == {d + n : d \in bitmap}

\* Mutants: plausible mistakes in check_and_update.
AdmitsWithoutTheBit(w, seq) == seq > w.max_seq \/ w.max_seq - seq < WINDOW_SIZE
AdmitsOneTooOld(w, seq) ==
  seq > w.max_seq \/ ( /\ w.max_seq - seq <= WINDOW_SIZE
                       /\ (w.max_seq - seq) \notin w.window_bitmap )
SlideWithoutShift(w, seq) ==
  [max_seq |-> seq, window_bitmap |-> w.window_bitmap \cup {0}]
SlideTooFar(w, seq) ==
  [max_seq       |-> seq,
   window_bitmap |-> ShiftLeft(w.window_bitmap, seq - w.max_seq + 1) \cup {0}]

\* The value check_and_update(seq) returns.
Admits(w, seq) ==
  \/ seq > w.max_seq
  \/ /\ w.max_seq - seq < WINDOW_SIZE
     /\ (w.max_seq - seq) \notin w.window_bitmap

\* The object after a check_and_update(seq) that returned True.
Slide(w, seq) ==
  [max_seq       |-> seq,
   window_bitmap |-> ShiftLeft(w.window_bitmap, seq - w.max_seq) \cup {0}]

Mark(w, seq) ==
  [w EXCEPT !.window_bitmap = @ \cup {w.max_seq - seq}]

\* The object after any check_and_update(seq).
Updated(w, seq) ==
  IF seq > w.max_seq THEN Slide(w, seq)
  ELSE IF Admits(w, seq) THEN Mark(w, seq)
  ELSE w
=============================================================================
