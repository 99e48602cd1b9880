----------------------------- MODULE AntiReplay -----------------------------
(***************************************************************************)
(* What a replay protector promises, with no bitmap in it: it remembers    *)
(* every sequence number it has let through and the highest of them, lets  *)
(* a number through when it is new and less than WINDOW_SIZE behind, and   *)
(* refuses every other one.                                                *)
(***************************************************************************)
EXTENDS Integers

CONSTANTS WINDOW_SIZE, MaxSeq

VARIABLES highest,      \* highest number let through, 0 before the first
          delivered,    \* how many times each number was let through
          refused       \* numbers that were refused at least once

vars == <<highest, delivered, refused>>

Seqs == 0..MaxSeq

Init ==
  /\ highest = 0
  /\ delivered = [s \in Seqs |-> 0]
  /\ refused = {}

LetThrough(s) ==
  /\ delivered[s] = 0
  /\ s + WINDOW_SIZE > highest
  /\ highest' = IF s > highest THEN s ELSE highest
  /\ delivered' = [delivered EXCEPT ![s] = 1]
  /\ UNCHANGED refused

Refuse(s) ==
  /\ delivered[s] > 0 \/ s + WINDOW_SIZE <= highest
  /\ refused' = refused \cup {s}
  /\ UNCHANGED <<highest, delivered>>

Next == \E s \in Seqs : LetThrough(s) \/ Refuse(s)

Spec == Init /\ [][Next]_vars
=============================================================================
