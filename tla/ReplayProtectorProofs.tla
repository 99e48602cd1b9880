----------------------- MODULE ReplayProtectorProofs ------------------------
(***************************************************************************)
(* For every WINDOW_SIZE and every bound MaxSeq: ReplayProtector keeps its *)
(* bitmap exact, lets no number through twice, refuses none without cause, *)
(* and implements AntiReplay.                                              *)
(***************************************************************************)
EXTENDS ReplayProtector, TLAPS

\* When the bitmap is exactly the numbers let through, the answer of
\* check_and_update is the answer of the protector that keeps plain sets.
LEMMA AdmitsIsFresh ==
  ASSUME IInv, NEW s \in Seqs
  PROVE  Admits(rx, s) <=> (delivered[s] = 0 /\ s + WINDOW_SIZE > rx.max_seq)
<1>1. rx.max_seq \in Nat /\ s \in Nat /\ WINDOW_SIZE \in Nat \ {0}
  BY WindowAssumption, MaxSeqAssumption DEF IInv, TypeOK, Seqs
<1>2. delivered[s] \in Nat
  BY DEF IInv, TypeOK
<1>3. (rx.max_seq - s) \in rx.window_bitmap <=> s \in Received
  <2>1. ASSUME (rx.max_seq - s) \in rx.window_bitmap PROVE s \in Received
    <3>1. PICK t \in Received : rx.max_seq - s = rx.max_seq - t
      BY <2>1 DEF IInv, BitmapIsReceived
    <3>2. t \in Nat
      BY MaxSeqAssumption DEF Received, Seqs
    <3>3. s = t
      BY <1>1, <3>1, <3>2
    <3> QED BY <3>1, <3>3
  <2>2. ASSUME s \in Received PROVE (rx.max_seq - s) \in rx.window_bitmap
    BY <2>2 DEF IInv, BitmapIsReceived
  <2> QED BY <2>1, <2>2
<1>4. s \in Received <=> delivered[s] > 0
  BY DEF Received
<1>5. s > rx.max_seq => s \notin Received
  BY <1>1 DEF IInv, BitmapIsReceived
<1> QED BY <1>1, <1>2, <1>3, <1>4, <1>5 DEF Admits

-----------------------------------------------------------------------------
(* One call of check_and_update that returns True.                         *)

\* An accepted number keeps the bitmap exact and passes for the first time.
LEMMA AcceptedStep ==
  ASSUME IInv, NEW s \in Seqs, check_and_update(s), Admits(rx, s)
  PROVE  /\ delivered[s] = 0
         /\ delivered' = [delivered EXCEPT ![s] = 1]
         /\ refused' = refused
         /\ Received' = Received \cup {s}
         /\ rx'.max_seq = IF s > rx.max_seq THEN s ELSE rx.max_seq
         /\ rx' = [max_seq |-> rx'.max_seq, window_bitmap |-> rx'.window_bitmap]
         /\ rx'.window_bitmap = {rx'.max_seq - t : t \in Received'}
         /\ \A t \in Received' : t <= rx'.max_seq
<1>1. rx.max_seq \in Nat /\ s \in Nat /\ WINDOW_SIZE \in Nat \ {0}
  BY WindowAssumption, MaxSeqAssumption DEF IInv, TypeOK, Seqs
<1>2. delivered[s] = 0 /\ delivered \in [Seqs -> Nat]
  BY AdmitsIsFresh DEF IInv, TypeOK
<1>3. delivered' = [delivered EXCEPT ![s] = 1] /\ refused' = refused
  BY <1>2 DEF check_and_update
<1>4. Received' = Received \cup {s}
  BY <1>2, <1>3 DEF Received
<1>5. \A t \in Received : t \in Nat /\ t <= rx.max_seq
  BY MaxSeqAssumption DEF IInv, BitmapIsReceived, Received, Seqs
<1>6. rx.window_bitmap = {rx.max_seq - t : t \in Received}
  BY DEF IInv, BitmapIsReceived
<1>7. CASE s > rx.max_seq
  <2>1. rx' = Slide(rx, s)
    BY <1>7 DEF check_and_update, Updated
  <2>2. rx'.max_seq = s
    BY <2>1 DEF Slide
  <2>3. rx'.window_bitmap = ShiftLeft(rx.window_bitmap, s - rx.max_seq) \cup {0}
    BY <2>1 DEF Slide
  <2>4. ShiftLeft(rx.window_bitmap, s - rx.max_seq) = {s - t : t \in Received}
    <3>1. \A t \in Received : (rx.max_seq - t) + (s - rx.max_seq) = s - t
      BY <1>1, <1>5
    <3> QED BY <1>6, <3>1 DEF ShiftLeft
  <2>5. s - s = 0
    BY <1>1
  <2>6. rx'.window_bitmap = {rx'.max_seq - t : t \in Received'}
    BY <1>4, <2>2, <2>3, <2>4, <2>5
  <2>7. \A t \in Received' : t <= rx'.max_seq
    BY <1>1, <1>4, <1>5, <1>7, <2>2
  <2>8. rx' = [max_seq |-> rx'.max_seq, window_bitmap |-> rx'.window_bitmap]
    BY <2>1 DEF Slide
  <2> QED BY <1>2, <1>3, <1>4, <1>7, <2>2, <2>6, <2>7, <2>8
<1>8. CASE ~(s > rx.max_seq)
  <2>1. rx' = Mark(rx, s)
    BY <1>8 DEF check_and_update, Updated
  <2>2. rx = [max_seq |-> rx.max_seq, window_bitmap |-> rx.window_bitmap]
    BY DEF IInv, TypeOK
  <2>3. rx' = [max_seq |-> rx.max_seq,
               window_bitmap |-> rx.window_bitmap \cup {rx.max_seq - s}]
    BY <2>1, <2>2 DEF Mark
  <2>4. rx'.window_bitmap = {rx'.max_seq - t : t \in Received'}
    BY <1>4, <1>6, <2>3
  <2>5. \A t \in Received' : t <= rx'.max_seq
    BY <1>1, <1>4, <1>5, <1>8, <2>3
  <2> QED BY <1>2, <1>3, <1>4, <1>8, <2>3, <2>4, <2>5
<1> QED BY <1>7, <1>8

\* One call of check_and_update that returns False.
LEMMA RefusedStep ==
  ASSUME IInv, NEW s \in Seqs, check_and_update(s), ~Admits(rx, s)
  PROVE  /\ delivered[s] > 0 \/ rx.max_seq - s >= WINDOW_SIZE
         /\ rx' = rx
         /\ delivered' = delivered
         /\ refused' = refused \cup {s}
<1>1. rx.max_seq \in Nat /\ s \in Nat /\ WINDOW_SIZE \in Nat \ {0}
  BY WindowAssumption, MaxSeqAssumption DEF IInv, TypeOK, Seqs
<1>2. delivered[s] \in Nat
  BY DEF IInv, TypeOK
<1>3. delivered[s] > 0 \/ rx.max_seq - s >= WINDOW_SIZE
  BY <1>1, <1>2, AdmitsIsFresh
<1>4. rx' = rx
  BY DEF check_and_update, Updated, Admits
<1> QED BY <1>3, <1>4 DEF check_and_update

-----------------------------------------------------------------------------
(* The inductive invariant.                                                *)

\* The two fresh objects satisfy the invariant.
LEMMA InitInvariant == Init => IInv
<1> SUFFICES ASSUME Init PROVE IInv
  OBVIOUS
<1>1. Received = {}
  BY DEF Init, Received
<1>2. rx.window_bitmap = {} /\ rx.max_seq = 0
  BY DEF Init, FreshWindow
<1> QED BY <1>1, <1>2, MaxSeqAssumption
    DEF Init, IInv, TypeOK, AtMostOnce, NoFalseRefusal, BitmapIsReceived,
        FreshWindow, Seqs

\* Every call of either method keeps the invariant.
LEMMA NextInvariant == IInv /\ [Next]_vars => IInv'
<1> SUFFICES ASSUME IInv, [Next]_vars PROVE IInv'
  OBVIOUS
<1>1. CASE next_sequence
  <2>1. /\ rx' = rx /\ delivered' = delivered /\ refused' = refused
        /\ next_seq' \in 0..(MaxSeq + 1)
    BY <1>1, MaxSeqAssumption DEF next_sequence, IInv, TypeOK
  <2>2. Received' = Received
    BY <2>1 DEF Received
  <2> QED BY <2>1, <2>2
      DEF IInv, TypeOK, AtMostOnce, NoFalseRefusal, BitmapIsReceived
<1>2. ASSUME NEW s \in Seqs, check_and_update(s), Admits(rx, s)
      PROVE  IInv'
  <2>1. /\ delivered[s] = 0
        /\ delivered' = [delivered EXCEPT ![s] = 1]
        /\ refused' = refused
        /\ Received' = Received \cup {s}
        /\ rx'.max_seq = IF s > rx.max_seq THEN s ELSE rx.max_seq
        /\ rx' = [max_seq |-> rx'.max_seq, window_bitmap |-> rx'.window_bitmap]
        /\ rx'.window_bitmap = {rx'.max_seq - t : t \in Received'}
        /\ \A t \in Received' : t <= rx'.max_seq
    BY <1>2, AcceptedStep
  <2>2. rx.max_seq \in Seqs /\ rx.max_seq \in Nat /\ s \in Nat /\ Seqs \subseteq Nat
    BY MaxSeqAssumption DEF IInv, TypeOK, Seqs
  <2>3. /\ rx'.max_seq \in Seqs /\ rx'.max_seq \in Nat
        /\ rx'.max_seq >= rx.max_seq
    BY <2>1, <2>2
  <2>4. TypeOK'
    <3>1. rx'.window_bitmap \subseteq Seqs
      <4> SUFFICES ASSUME NEW t \in Received' PROVE rx'.max_seq - t \in Seqs
        BY <2>1
      <4>1. t \in Seqs /\ t <= rx'.max_seq
        BY <2>1 DEF Received
      <4> QED BY <2>3, <4>1, MaxSeqAssumption DEF Seqs
    <3>2. delivered' \in [Seqs -> Nat]
      BY <2>1 DEF IInv, TypeOK
    <3> QED BY <1>2, <2>1, <2>3, <3>1, <3>2 DEF IInv, TypeOK, check_and_update
  <2>5. AtMostOnce'
    BY <2>1 DEF IInv, TypeOK, AtMostOnce
  <2>6. NoFalseRefusal'
    <3> SUFFICES ASSUME NEW t \in refused
                 PROVE  delivered'[t] > 0 \/ rx'.max_seq - t >= WINDOW_SIZE
      BY <2>1 DEF NoFalseRefusal
    <3>1. t \in Seqs /\ t \in Nat
      BY <2>2 DEF IInv, TypeOK
    <3>2. delivered[t] > 0 \/ rx.max_seq - t >= WINDOW_SIZE
      BY DEF IInv, NoFalseRefusal
    <3>3. delivered[t] > 0 => delivered'[t] > 0
      BY <2>1, <3>1 DEF IInv, TypeOK
    <3>4. rx.max_seq - t >= WINDOW_SIZE => rx'.max_seq - t >= WINDOW_SIZE
      BY <2>2, <2>3, <3>1, WindowAssumption
    <3> QED BY <3>2, <3>3, <3>4
  <2>7. BitmapIsReceived'
    BY <2>1 DEF BitmapIsReceived
  <2> QED BY <2>4, <2>5, <2>6, <2>7 DEF IInv
<1>3. ASSUME NEW s \in Seqs, check_and_update(s), ~Admits(rx, s)
      PROVE  IInv'
  <2>1. /\ delivered[s] > 0 \/ rx.max_seq - s >= WINDOW_SIZE
        /\ rx' = rx /\ delivered' = delivered
        /\ refused' = refused \cup {s}
    BY <1>3, RefusedStep
  <2>2. next_seq' = next_seq
    BY <1>3 DEF check_and_update
  <2>3. Received' = Received
    BY <2>1 DEF Received
  <2> QED BY <2>1, <2>2, <2>3
      DEF IInv, TypeOK, AtMostOnce, NoFalseRefusal, BitmapIsReceived
<1>4. CASE UNCHANGED vars
  BY <1>4 DEF vars, IInv, TypeOK, AtMostOnce, NoFalseRefusal,
              BitmapIsReceived, Received
<1> QED BY <1>1, <1>2, <1>3, <1>4 DEF Next

\* The bitmap is exact in every reachable state, whatever the window size.
THEOREM InvariantHolds == Spec => []IInv
BY InitInvariant, NextInvariant, PTL DEF Spec

\* Types of the two objects and the history.
THEOREM TypeCorrect == Spec => []TypeOK
<1>1. IInv => TypeOK
  BY DEF IInv
<1> QED BY <1>1, InvariantHolds, PTL

\* check_and_update never returns True twice for one sequence number.
THEOREM NeverTwice == Spec => []AtMostOnce
<1>1. IInv => AtMostOnce
  BY DEF IInv
<1> QED BY <1>1, InvariantHolds, PTL

\* check_and_update never refuses a number that is new and in the window.
THEOREM RefusesOnlyWithCause == Spec => []NoFalseRefusal
<1>1. IInv => NoFalseRefusal
  BY DEF IInv
<1> QED BY <1>1, InvariantHolds, PTL

-----------------------------------------------------------------------------
(* Refinement.                                                             *)

\* The bitmap implementation implements the protector that keeps sets.
THEOREM Implementation == Spec => ImplementsAntiReplay
<1>1. Init => Abstract!Init
  BY DEF Init, Abstract!Init, FreshWindow, Seqs, Abstract!Seqs
<1>2. IInv /\ [Next]_vars => [Abstract!Next]_(Abstract!vars)
  <2> SUFFICES ASSUME IInv, [Next]_vars
               PROVE  Abstract!Next \/ UNCHANGED Abstract!vars
    OBVIOUS
  <2>1. CASE next_sequence
    BY <2>1 DEF next_sequence, Abstract!vars
  <2>2. ASSUME NEW s \in Seqs, check_and_update(s), Admits(rx, s)
        PROVE  Abstract!Next
    <3>1. s + WINDOW_SIZE > rx.max_seq
      BY <2>2, AdmitsIsFresh
    <3>2. Abstract!LetThrough(s)
      BY <2>2, <3>1, AcceptedStep DEF Abstract!LetThrough
    <3> QED BY <3>2 DEF Abstract!Next, Abstract!Seqs, Seqs
  <2>3. ASSUME NEW s \in Seqs, check_and_update(s), ~Admits(rx, s)
        PROVE  Abstract!Next
    <3>1. /\ delivered[s] > 0 \/ rx.max_seq - s >= WINDOW_SIZE
          /\ rx' = rx /\ delivered' = delivered
          /\ refused' = refused \cup {s}
      BY <2>3, RefusedStep
    <3>2. rx.max_seq \in Nat /\ s \in Nat /\ WINDOW_SIZE \in Nat
      BY WindowAssumption, MaxSeqAssumption DEF IInv, TypeOK, Seqs
    <3>3. Abstract!Refuse(s)
      BY <3>1, <3>2 DEF Abstract!Refuse
    <3> QED BY <3>3 DEF Abstract!Next, Abstract!Seqs, Seqs
  <2>4. CASE UNCHANGED vars
    BY <2>4 DEF vars, Abstract!vars
  <2> QED BY <2>1, <2>2, <2>3, <2>4 DEF Next
<1> QED BY <1>1, <1>2, InvariantHolds, PTL
    DEF Spec, ImplementsAntiReplay, Abstract!Spec
=============================================================================
