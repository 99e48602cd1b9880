-------------------------- MODULE HandshakeProofs ---------------------------
(***************************************************************************)
(* What the handshake guarantees for any number of faults: a network that  *)
(* loses, repeats and reorders cannot make the server take a key that the  *)
(* client has not verified, or the client act on one assignment twice; and *)
(* one that only repeats cannot make the handshake fail, leave the ends    *)
(* with different keys or strand a lease.  The server may drop its entry   *)
(* for the client at any time.                                             *)
(***************************************************************************)
EXTENDS Handshake, ReplayWindowProofs, SequenceTheorems, FiniteSetTheorems

USE DEF history

-----------------------------------------------------------------------------
(* Channels.  Everything that happens to a channel but a datagram sent is  *)
(* described by where each position's datagram was before.                 *)

Positions(ch) == 1..Len(ch)

\* From is such a description of how new came out of old.
CameFrom(new, old, From) ==
  /\ From \in [Positions(new) -> Positions(old)]
  /\ \A i \in Positions(new) : new[i] = old[From[i]]

OneToOne(From, S)  == \A i, j \in S : From[i] = From[j] => i = j
InOrder(From, S)   == \A i, j \in S : i < j => From[i] <= From[j]

\* Taking the head off a channel.
LEMMA TailCameFrom ==
  ASSUME NEW S, NEW ch \in Seq(S), ch # <<>>
  PROVE  /\ Head(ch) \in S /\ Head(ch) = ch[1] /\ 1 \in Positions(ch)
         /\ Tail(ch) \in Seq(S) /\ Len(Tail(ch)) = Len(ch) - 1
         /\ \A i \in Positions(Tail(ch)) : i + 1 \in Positions(ch) /\ Tail(ch)[i] = ch[i + 1]
<1>1. /\ Head(ch) \in S /\ Tail(ch) \in Seq(S) /\ Len(Tail(ch)) = Len(ch) - 1
      /\ \A i \in 1..Len(Tail(ch)) : Tail(ch)[i] = ch[i + 1]
  BY HeadTailProperties
<1>2. Len(ch) \in Nat \ {0}
  OBVIOUS
<1>3. Head(ch) = ch[1]
  OBVIOUS
<1> QED BY <1>1, <1>2, <1>3 DEF Positions

\* Putting a datagram at the end.
LEMMA AppendPositions ==
  ASSUME NEW S, NEW ch \in Seq(S), NEW m \in S
  PROVE  /\ Append(ch, m) \in Seq(S)
         /\ Len(Append(ch, m)) = Len(ch) + 1
         /\ Positions(Append(ch, m)) = Positions(ch) \cup {Len(ch) + 1}
         /\ \A i \in Positions(ch) : Append(ch, m)[i] = ch[i]
         /\ Append(ch, m)[Len(ch) + 1] = m
<1>1. Append(ch, m) \in Seq(S) /\ Len(Append(ch, m)) = Len(ch) + 1
  BY AppendProperties
<1>2. Len(ch) \in Nat
  OBVIOUS
<1>3. Positions(Append(ch, m)) = Positions(ch) \cup {Len(ch) + 1}
  BY <1>1, <1>2 DEF Positions
<1>4. \A i \in Positions(ch) : Append(ch, m)[i] = ch[i]
  BY DEF Positions
<1>5. Append(ch, m)[Len(ch) + 1] = m
  BY AppendProperties
<1> QED BY <1>1, <1>3, <1>4, <1>5

\* Two datagrams sent one after the other.
LEMMA SendTwo ==
  ASSUME NEW S, NEW ch \in Seq(S), NEW m \in S, NEW o \in S
  PROVE  ch \o <<m, o>> = Append(Append(ch, m), o)
OBVIOUS

\* A repetition: the copy is next to its original.
LEMMA RepeatedCameFrom ==
  ASSUME NEW S, NEW ch \in Seq(S), NEW i \in Positions(ch)
  PROVE  LET new  == InsertAt(ch, i, ch[i])
             From == [j \in Positions(new) |-> IF j <= i THEN j ELSE j - 1]
         IN  /\ new \in Seq(S) /\ Len(new) = Len(ch) + 1
             /\ CameFrom(new, ch, From)
<1> DEFINE new  == InsertAt(ch, i, ch[i])
           From == [j \in Positions(new) |-> IF j <= i THEN j ELSE j - 1]
           left == SubSeq(ch, 1, i - 1)
           right == SubSeq(ch, i, Len(ch))
<1>1. Len(ch) \in Nat /\ i \in 1..Len(ch) /\ ch[i] \in S
  BY DEF Positions
<1>2. /\ left \in Seq(S) /\ Len(left) = i - 1
      /\ \A j \in 1..(i - 1) : left[j] = ch[j]
  BY <1>1
<1>3. /\ right \in Seq(S) /\ Len(right) = Len(ch) - i + 1
      /\ \A j \in 1..(Len(ch) - i + 1) : right[j] = ch[i + j - 1]
  BY <1>1
<1> HIDE DEF left, right
<1> DEFINE most == left \o <<ch[i]>>
<1>4. /\ most \in Seq(S) /\ Len(most) = i
      /\ \A j \in 1..i : most[j] = IF j < i THEN left[j] ELSE ch[i]
  BY <1>1, <1>2
<1>5. new = most \o right
  BY DEF InsertAt, left, right
<1> HIDE DEF most
<1>6. /\ most \o right \in Seq(S) /\ Len(most \o right) = Len(ch) + 1
      /\ \A j \in 1..(Len(ch) + 1) :
           (most \o right)[j] = IF j <= i THEN most[j] ELSE right[j - i]
  <2>1. most \in Seq(S) /\ right \in Seq(S)
    BY <1>3, <1>4
  <2>2. /\ most \o right \in Seq(S) /\ Len(most \o right) = Len(most) + Len(right)
        /\ \A j \in 1..Len(most) + Len(right) :
             (most \o right)[j] = IF j <= Len(most) THEN most[j] ELSE right[j - Len(most)]
    BY <2>1, ConcatProperties
  <2>3. Len(most) = i /\ Len(most) + Len(right) = Len(ch) + 1
    BY <1>1, <1>3, <1>4
  <2> QED BY <2>2, <2>3
<1> HIDE DEF new
<1>7. Positions(new) = 1..(Len(ch) + 1)
  BY <1>5, <1>6 DEF Positions
<1>8. ASSUME NEW j \in Positions(new)
      PROVE  From[j] \in Positions(ch) /\ new[j] = ch[From[j]]
  <2>1. CASE j < i
    BY <1>1, <1>2, <1>4, <1>5, <1>6, <1>7, <2>1 DEF Positions
  <2>2. CASE j = i
    BY <1>1, <1>4, <1>5, <1>6, <1>7, <2>2 DEF Positions
  <2>3. CASE ~(j <= i)
    <3>0. j \in 1..(Len(ch) + 1) /\ ~(j <= i)
      BY <1>7, <2>3
    <3>1. new[j] = right[j - i]
      BY <1>5, <1>6, <3>0
    <3>3. From[j] = j - 1
      BY <2>3
    <3>4. j - 1 \in Positions(ch)
      BY <1>1, <3>0 DEF Positions
    <3>2. right[j - i] = ch[i + (j - i) - 1]
      BY <1>1, <1>3, <1>7, <2>3
    <3> QED BY <1>1, <3>0, <3>1, <3>2, <3>3, <3>4
  <2> QED BY <1>1, <1>7, <2>1, <2>2, <2>3
<1>9. CameFrom(new, ch, From)
  BY <1>8 DEF CameFrom
<1> QED BY <1>5, <1>6, <1>9 DEF new

\* A loss: the positions behind it move up.
LEMMA LostCameFrom ==
  ASSUME NEW S, NEW ch \in Seq(S), NEW i \in Positions(ch)
  PROVE  LET new  == RemoveAt(ch, i)
             From == [j \in Positions(new) |-> IF j < i THEN j ELSE j + 1]
         IN  /\ new \in Seq(S) /\ Len(new) = Len(ch) - 1
             /\ CameFrom(new, ch, From)
<1> DEFINE new  == RemoveAt(ch, i)
           From == [j \in Positions(new) |-> IF j < i THEN j ELSE j + 1]
           left == SubSeq(ch, 1, i - 1)
           right == SubSeq(ch, i + 1, Len(ch))
<1>1. Len(ch) \in Nat /\ i \in 1..Len(ch)
  BY DEF Positions
<1>2. /\ left \in Seq(S) /\ Len(left) = i - 1
      /\ \A j \in 1..(i - 1) : left[j] = ch[j]
  BY <1>1
<1>3. /\ right \in Seq(S) /\ Len(right) = Len(ch) - i
      /\ \A j \in 1..(Len(ch) - i) : right[j] = ch[i + j]
  BY <1>1
<1>4. new = left \o right
  BY DEF RemoveAt
<1> HIDE DEF left, right
<1>5. /\ left \o right \in Seq(S) /\ Len(left \o right) = Len(ch) - 1
      /\ \A j \in 1..(Len(ch) - 1) :
           (left \o right)[j] = IF j < i THEN left[j] ELSE right[j - (i - 1)]
  <2>1. /\ left \o right \in Seq(S) /\ Len(left \o right) = Len(left) + Len(right)
        /\ \A j \in 1..Len(left) + Len(right) :
             (left \o right)[j] = IF j <= Len(left) THEN left[j] ELSE right[j - Len(left)]
    BY <1>2, <1>3, ConcatProperties
  <2>2. Len(left) = i - 1 /\ Len(left) + Len(right) = Len(ch) - 1
    BY <1>1, <1>2, <1>3
  <2> QED BY <1>1, <2>1, <2>2
<1> HIDE DEF new
<1>6. Positions(new) = 1..(Len(ch) - 1)
  BY <1>4, <1>5 DEF Positions
<1>7. ASSUME NEW j \in Positions(new)
      PROVE  From[j] \in Positions(ch) /\ new[j] = ch[From[j]]
  <2>0. j \in 1..(Len(ch) - 1)
    BY <1>6
  <2>1. CASE j < i
    <3>1. From[j] = j
      BY <2>1
    <3>2. new[j] = left[j] /\ left[j] = ch[j]
      BY <1>1, <1>2, <1>4, <1>5, <2>0, <2>1
    <3>3. j \in Positions(ch)
      BY <1>1, <2>0 DEF Positions
    <3> QED BY <3>1, <3>2, <3>3
  <2>2. CASE ~(j < i)
    <3>1. From[j] = j + 1
      BY <2>2
    <3>2. new[j] = right[j - (i - 1)]
      BY <1>4, <1>5, <2>0, <2>2
    <3>3. right[j - (i - 1)] = ch[i + (j - (i - 1))] /\ i + (j - (i - 1)) = j + 1
      BY <1>1, <1>3, <2>0, <2>2
    <3>4. j + 1 \in Positions(ch)
      BY <1>1, <2>0 DEF Positions
    <3> QED BY <3>1, <3>2, <3>3, <3>4
  <2> QED BY <2>1, <2>2
<1>8. CameFrom(new, ch, From)
  BY <1>7 DEF CameFrom
<1> QED BY <1>4, <1>5, <1>8 DEF new

\* A change of order.
LEMMA SwappedCameFrom ==
  ASSUME NEW S, NEW ch \in Seq(S), NEW i \in 1..(Len(ch) - 1)
  PROVE  LET new  == Swapped(ch, i)
             From == [j \in Positions(new) |->
                        IF j = i THEN i + 1 ELSE IF j = i + 1 THEN i ELSE j]
         IN  /\ new \in Seq(S) /\ Len(new) = Len(ch)
             /\ CameFrom(new, ch, From)
<1> DEFINE new  == Swapped(ch, i)
           From == [j \in Positions(new) |->
                      IF j = i THEN i + 1 ELSE IF j = i + 1 THEN i ELSE j]
<1>1. /\ Len(ch) \in Nat /\ i \in Positions(ch) /\ i + 1 \in Positions(ch)
      /\ ch[i] \in S /\ ch[i + 1] \in S
  BY DEF Positions
<1> DEFINE half == [ch EXCEPT ![i] = ch[i + 1]]
<1>2. /\ half \in Seq(S) /\ Len(half) = Len(ch)
      /\ \A j \in 1..Len(ch) : half[j] = IF j = i THEN ch[i + 1] ELSE ch[j]
  BY <1>1, ExceptSeq DEF Positions
<1>3. new = [half EXCEPT ![i + 1] = ch[i]]
  BY <1>1 DEF Swapped
<1> HIDE DEF half
<1>4. /\ [half EXCEPT ![i + 1] = ch[i]] \in Seq(S)
      /\ Len([half EXCEPT ![i + 1] = ch[i]]) = Len(ch)
      /\ \A j \in 1..Len(ch) :
           [half EXCEPT ![i + 1] = ch[i]][j] = IF j = i + 1 THEN ch[i] ELSE half[j]
  BY <1>1, <1>2, ExceptSeq DEF Positions
<1> HIDE DEF new
<1>5. Positions(new) = Positions(ch)
  BY <1>3, <1>4 DEF Positions
<1>6. ASSUME NEW j \in Positions(new)
      PROVE  From[j] \in Positions(ch) /\ new[j] = ch[From[j]]
  <2>1. j \in 1..Len(ch)
    BY <1>5 DEF Positions
  <2>2. From[j] = IF j = i THEN i + 1 ELSE IF j = i + 1 THEN i ELSE j
    OBVIOUS
  <2> QED BY <1>1, <1>2, <1>3, <1>4, <1>5, <2>1, <2>2
<1>7. CameFrom(new, ch, From)
  BY <1>6 DEF CameFrom
<1> QED BY <1>3, <1>4, <1>7 DEF new

\* Nothing is lost.
Onto(From, new, old) == \A j \in Positions(old) : \E i \in Positions(new) : From[i] = j

\* What a fault does: everything there was there before; a loss and a swap
\* show nothing twice, a repetition keeps everything, in its order, and shows
\* one position's datagram twice.
LEMMA FaultCameFrom ==
  ASSUME NEW S, NEW ch \in Seq(S), NEW kind \in FaultKinds, NEW new \in Disturbed(kind, ch)
  PROVE  /\ new \in Seq(S)
         /\ \E From : /\ CameFrom(new, ch, From)
                      /\ kind # "repeat" => OneToOne(From, Positions(new))
                      /\ kind = "repeat" =>
                           /\ InOrder(From, Positions(new)) /\ Onto(From, new, ch)
                           /\ \E x : OneToOne(From, Positions(new) \ {x})
<1>0. kind \in {"lose", "repeat", "swap"} /\ Len(ch) \in Nat
  BY HandshakeAssumption
<1>1. CASE kind = "lose"
  <2> PICK i \in Positions(ch) : new = RemoveAt(ch, i)
    BY <1>1 DEF Disturbed, Lost, Positions
  <2> DEFINE From == [j \in Positions(new) |-> IF j < i THEN j ELSE j + 1]
  <2>1. new \in Seq(S) /\ CameFrom(new, ch, From)
    BY LostCameFrom
  <2>2. i \in Nat /\ Positions(new) \subseteq Nat
    BY <1>0, <2>1 DEF Positions
  <2>3. OneToOne(From, Positions(new))
    BY <2>2 DEF OneToOne
  <2> HIDE DEF From
  <2> QED BY <1>1, <2>1, <2>3
<1>2. CASE kind = "swap"
  <2> PICK i \in 1..(Len(ch) - 1) : new = Swapped(ch, i)
    BY <1>2 DEF Disturbed, Reordered
  <2> DEFINE From == [j \in Positions(new) |->
                        IF j = i THEN i + 1 ELSE IF j = i + 1 THEN i ELSE j]
  <2>1. new \in Seq(S) /\ CameFrom(new, ch, From)
    BY SwappedCameFrom
  <2>2. i \in Nat /\ Positions(new) \subseteq Nat
    BY <1>0, <2>1 DEF Positions
  <2>3. OneToOne(From, Positions(new))
    BY <2>2 DEF OneToOne
  <2> HIDE DEF From
  <2> QED BY <1>2, <2>1, <2>3
<1>3. CASE kind = "repeat"
  <2> PICK i \in Positions(ch) : new = InsertAt(ch, i, ch[i])
    BY <1>3 DEF Disturbed, Repeated, Positions
  <2> DEFINE From == [j \in Positions(new) |-> IF j <= i THEN j ELSE j - 1]
  <2>1. new \in Seq(S) /\ CameFrom(new, ch, From) /\ Len(new) = Len(ch) + 1
    BY RepeatedCameFrom
  <2>2. /\ i \in Nat /\ i \in 1..Len(ch) /\ Positions(ch) = 1..Len(ch)
        /\ Positions(new) = 1..(Len(ch) + 1)
    BY <1>0, <2>1 DEF Positions
  <2>3. InOrder(From, Positions(new))
    BY <1>0, <2>2 DEF InOrder
  <2>4. Onto(From, new, ch)
    <3> SUFFICES ASSUME NEW j \in Positions(ch)
                 PROVE  \E k \in Positions(new) : From[k] = j
      BY DEF Onto
    <3>1. CASE j <= i
      <4>1. j \in Positions(new) /\ From[j] = j
        BY <1>0, <2>2, <3>1
      <4> QED BY <4>1
    <3>2. CASE ~(j <= i)
      <4>1. j + 1 \in Positions(new) /\ ~(j + 1 <= i) /\ (j + 1) - 1 = j
        BY <1>0, <2>2, <3>2
      <4>2. From[j + 1] = j
        BY <4>1
      <4> QED BY <4>1, <4>2
    <3> QED BY <3>1, <3>2
  <2>5. OneToOne(From, Positions(new) \ {i + 1})
    BY <1>0, <2>2 DEF OneToOne
  <2> HIDE DEF From
  <2> QED BY <1>3, <2>1, <2>3, <2>4, <2>5
<1> QED BY <1>0, <1>1, <1>2, <1>3

\* What a channel holds, whatever the order.
Contents(ch) == {ch[i] : i \in Positions(ch)}

\* It is the head, and what the tail holds.
LEMMA TailContents ==
  ASSUME NEW S, NEW ch \in Seq(S), ch # <<>>
  PROVE  /\ Contents(ch) = Contents(Tail(ch)) \cup {Head(ch)}
         /\ Head(ch) \in S /\ Tail(ch) \in Seq(S)
<1>1. /\ Head(ch) \in S /\ Head(ch) = ch[1] /\ 1 \in Positions(ch)
      /\ Tail(ch) \in Seq(S) /\ Len(Tail(ch)) = Len(ch) - 1
      /\ \A i \in Positions(Tail(ch)) : i + 1 \in Positions(ch) /\ Tail(ch)[i] = ch[i + 1]
  BY TailCameFrom
<1>2. ASSUME NEW i \in Positions(ch), i # 1
      PROVE  ch[i] \in Contents(Tail(ch))
  <2>1. i - 1 \in Positions(Tail(ch)) /\ (i - 1) + 1 = i
    BY <1>1, <1>2 DEF Positions
  <2>2. Tail(ch)[i - 1] = ch[i]
    BY <1>1, <2>1
  <2> QED BY <2>1, <2>2 DEF Contents
<1>3. Contents(ch) \subseteq Contents(Tail(ch)) \cup {Head(ch)}
  BY <1>1, <1>2 DEF Contents
<1>4. Contents(Tail(ch)) \cup {Head(ch)} \subseteq Contents(ch)
  <2>1. Head(ch) \in Contents(ch)
    BY <1>1 DEF Contents
  <2>2. ASSUME NEW i \in Positions(Tail(ch)) PROVE Tail(ch)[i] \in Contents(ch)
    BY <1>1 DEF Contents
  <2> QED BY <2>1, <2>2 DEF Contents
<1> QED BY <1>1, <1>3, <1>4

\* A datagram sent is all that is new.
LEMMA AppendContents ==
  ASSUME NEW S, NEW ch \in Seq(S), NEW m \in S
  PROVE  Append(ch, m) \in Seq(S) /\ Contents(Append(ch, m)) = Contents(ch) \cup {m}
<1>1. Append(ch, m) \in Seq(S)
  BY AppendPositions, Zenon
<1>2. Positions(Append(ch, m)) = Positions(ch) \cup {Len(ch) + 1}
  BY AppendPositions, Zenon
<1>3. \A i \in Positions(ch) : Append(ch, m)[i] = ch[i]
  BY DEF Positions
<1>4. Append(ch, m)[Len(ch) + 1] = m
  BY AppendPositions, Zenon
<1> QED BY <1>1, <1>2, <1>3, <1>4 DEF Contents

\* A fault brings nothing new, and a repetition loses nothing.
LEMMA FaultContents ==
  ASSUME NEW S, NEW ch \in Seq(S), NEW kind \in FaultKinds, NEW new \in Disturbed(kind, ch)
  PROVE  /\ Contents(new) \subseteq Contents(ch)
         /\ kind = "repeat" => Contents(new) = Contents(ch)
<1>1. PICK From : /\ CameFrom(new, ch, From)
                  /\ kind = "repeat" => Onto(From, new, ch)
  BY FaultCameFrom
<1>2. Contents(new) \subseteq Contents(ch)
  BY <1>1 DEF CameFrom, Contents
<1>3. ASSUME kind = "repeat" PROVE Contents(ch) \subseteq Contents(new)
  BY <1>1, <1>3 DEF CameFrom, Onto, Contents
<1> QED BY <1>2, <1>3

-----------------------------------------------------------------------------
(* How many ClientHellos there are.                                        *)

Hellos(ch) == {i \in Positions(ch) : ch[i].type = "client_hello"}

\* They can be counted.
LEMMA HellosFinite ==
  ASSUME NEW S, NEW ch \in Seq(S)
  PROVE  IsFiniteSet(Hellos(ch)) /\ Cardinality(Hellos(ch)) \in Nat
<1>1. IsFiniteSet(Positions(ch))
  BY FS_Interval DEF Positions
<1>2. Hellos(ch) \in SUBSET Positions(ch)
  BY DEF Hellos
<1> QED BY <1>1, <1>2, FS_Subset, FS_CardinalityType

\* What comes from different places is not more than there was.
LEMMA HellosFromOneToOne ==
  ASSUME NEW S, NEW old \in Seq(S), NEW new \in Seq(S), NEW From,
         CameFrom(new, old, From), NEW X, OneToOne(From, Positions(new) \ X)
  PROVE  Cardinality(Hellos(new) \ X) <= Cardinality(Hellos(old))
<1> DEFINE f == [i \in Hellos(new) \ X |-> From[i]]
<1>1. f \in [Hellos(new) \ X -> Hellos(old)]
  BY DEF CameFrom, Hellos
<1>2. \A i, j \in Hellos(new) \ X : f[i] = f[j] => i = j
  BY DEF OneToOne, Hellos
<1>3. f \in Injection(Hellos(new) \ X, Hellos(old))
  BY <1>1, <1>2 DEF Injection, IsInjective
<1> QED BY <1>3, HellosFinite, FS_Injection

\* A fault makes at most one more of them, and only if it repeats one.
LEMMA FaultHellos ==
  ASSUME NEW S, NEW ch \in Seq(S), NEW kind \in FaultKinds, NEW new \in Disturbed(kind, ch)
  PROVE  Cardinality(Hellos(new)) <= Cardinality(Hellos(ch)) + 1
<1>1. new \in Seq(S)
  BY FaultCameFrom
<1>2. PICK From, X : /\ CameFrom(new, ch, From) /\ OneToOne(From, Positions(new) \ X)
                     /\ X = {} \/ \E x : X = {x}
  <2>1. PICK From : /\ CameFrom(new, ch, From)
                    /\ kind # "repeat" => OneToOne(From, Positions(new))
                    /\ kind = "repeat" => \E x : OneToOne(From, Positions(new) \ {x})
    BY FaultCameFrom
  <2>2. Positions(new) \ {} = Positions(new)
    OBVIOUS
  <2> QED BY <2>1, <2>2
<1>3. Cardinality(Hellos(new) \ X) <= Cardinality(Hellos(ch))
  BY <1>1, <1>2, HellosFromOneToOne
<1>4. /\ IsFiniteSet(Hellos(new)) /\ Cardinality(Hellos(new)) \in Nat
      /\ Cardinality(Hellos(ch)) \in Nat
  BY <1>1, HellosFinite
<1>5. CASE X = {}
  <2>1. Hellos(new) \ X = Hellos(new)
    BY <1>5
  <2>2. Cardinality(Hellos(new)) <= Cardinality(Hellos(ch))
    BY <1>3, <2>1
  <2> QED BY <1>4, <2>2
<1>6. ASSUME NEW x, X = {x} PROVE Cardinality(Hellos(new)) <= Cardinality(Hellos(ch)) + 1
  <2>1. Cardinality(Hellos(new) \ {x}) = IF x \in Hellos(new) THEN Cardinality(Hellos(new)) - 1
                                         ELSE Cardinality(Hellos(new))
    BY <1>4, FS_RemoveElement
  <2>2. Cardinality(Hellos(new) \ {x}) <= Cardinality(Hellos(ch))
    BY <1>3, <1>6
  <2> QED BY <1>4, <2>1, <2>2
<1> QED BY <1>2, <1>5, <1>6

\* Taking the head off takes one of them away if the head is one.
LEMMA TailHellos ==
  ASSUME NEW S, NEW ch \in Seq(S), ch # <<>>
  PROVE  /\ Cardinality(Hellos(Tail(ch))) <= Cardinality(Hellos(ch))
         /\ Head(ch).type = "client_hello" =>
              Cardinality(Hellos(Tail(ch))) + 1 <= Cardinality(Hellos(ch))
<1> DEFINE f == [i \in Hellos(Tail(ch)) |-> i + 1]
<1>1. Len(ch) \in Nat /\ Tail(ch) \in Seq(S) /\ Len(Tail(ch)) \in Nat
  BY TailCameFrom
<1>2. f \in [Hellos(Tail(ch)) -> Hellos(ch) \ {1}]
  <2> SUFFICES ASSUME NEW i \in Hellos(Tail(ch)) PROVE i + 1 \in Hellos(ch) \ {1}
    OBVIOUS
  <2>1. i \in Positions(Tail(ch)) /\ i \in Nat \ {0}
    BY <1>1 DEF Hellos, Positions
  <2>2. i + 1 \in Positions(ch) /\ Tail(ch)[i] = ch[i + 1]
    BY <2>1, TailCameFrom
  <2>3. i + 1 # 1
    BY <2>1
  <2>4. Tail(ch)[i].type = "client_hello"
    BY DEF Hellos
  <2> QED BY <2>2, <2>3, <2>4 DEF Hellos
<1>3. \A i, j \in Hellos(Tail(ch)) : f[i] = f[j] => i = j
  <2>1. Hellos(Tail(ch)) \subseteq Nat
    BY <1>1 DEF Hellos, Positions
  <2> QED BY <2>1
<1>4. f \in Injection(Hellos(Tail(ch)), Hellos(ch) \ {1})
  BY <1>2, <1>3 DEF Injection, IsInjective
<1>5. IsFiniteSet(Hellos(ch)) /\ Cardinality(Hellos(ch)) \in Nat
  BY HellosFinite
<1>6. /\ IsFiniteSet(Hellos(ch) \ {1})
      /\ Cardinality(Hellos(ch) \ {1}) =
           IF 1 \in Hellos(ch) THEN Cardinality(Hellos(ch)) - 1 ELSE Cardinality(Hellos(ch))
  BY <1>5, FS_RemoveElement
<1>7. Cardinality(Hellos(Tail(ch))) <= Cardinality(Hellos(ch) \ {1})
  BY <1>4, <1>6, FS_Injection
<1>8. Cardinality(Hellos(Tail(ch))) \in Nat
  BY <1>1, HellosFinite
<1>9. Head(ch).type = "client_hello" => 1 \in Hellos(ch)
  BY TailCameFrom DEF Hellos
<1> QED BY <1>5, <1>6, <1>7, <1>8, <1>9

\* Putting one at the end adds one if it is one.
LEMMA AppendHellos ==
  ASSUME NEW S, NEW ch \in Seq(S), NEW m \in S
  PROVE  /\ Cardinality(Hellos(Append(ch, m))) <= Cardinality(Hellos(ch)) + 1
         /\ m.type # "client_hello" =>
              Cardinality(Hellos(Append(ch, m))) = Cardinality(Hellos(ch))
<1>1. Positions(Append(ch, m)) = Positions(ch) \cup {Len(ch) + 1}
  BY AppendPositions, Zenon
<1>2. \A i \in Positions(ch) : Append(ch, m)[i] = ch[i]
  BY DEF Positions
<1>3. Append(ch, m)[Len(ch) + 1] = m
  BY AppendPositions, Zenon
<1>4. Len(ch) + 1 \notin Positions(ch)
  BY DEF Positions
<1>5. Hellos(Append(ch, m)) = IF m.type = "client_hello" THEN Hellos(ch) \cup {Len(ch) + 1}
                              ELSE Hellos(ch)
  BY <1>1, <1>2, <1>3, <1>4 DEF Hellos
<1>6. IsFiniteSet(Hellos(ch)) /\ Cardinality(Hellos(ch)) \in Nat
  BY HellosFinite
<1>7. Cardinality(Hellos(ch) \cup {Len(ch) + 1}) <= Cardinality(Hellos(ch)) + 1
  <2>1. Cardinality(Hellos(ch) \cup {Len(ch) + 1}) =
          IF Len(ch) + 1 \in Hellos(ch) THEN Cardinality(Hellos(ch))
          ELSE Cardinality(Hellos(ch)) + 1
    BY <1>6, FS_AddElement, Zenon
  <2> QED BY <1>6, <2>1
<1> QED BY <1>5, <1>6, <1>7

-----------------------------------------------------------------------------
(* Typing.                                                                 *)

ServerRecord ==
  [derived : 0..(MaxFaults + 1), session : Keys \cup {None},
   tunnel_key : Keys \cup {None}, leased : BOOLEAN, next_seq : Nat,
   forgotten : 0..MaxForgets]

ClientRecord ==
  [session : Keys \cup {None}, tunnel_key : Keys \cup {None}, connected : BOOLEAN,
   error : BOOLEAN, rx : Window, assigned : Nat, sock : BOOLEAN, receiving : BOOLEAN]

\* Every key takes a ClientHello, and beyond the first the network makes them.
HellosBounded ==
  Cardinality(Hellos(up)) + server.derived + (IF start = "init" THEN 1 ELSE 0)
    <= 1 + faults

Typed ==
  /\ server \in ServerRecord /\ client \in ClientRecord
  /\ start \in {"init", "waiting", "connected", "failed", "timed_out"}
  /\ up \in Seq(Datagrams) /\ down \in Seq(Datagrams)
  /\ faults \in 0..MaxFaults /\ disturbed \in BOOLEAN
  /\ verified \subseteq Keys /\ applied \subseteq Assignments
  /\ HellosBounded

\* What a datagram is made of.
LEMMA DatagramShape ==
  ASSUME NEW m \in Datagrams
  PROVE  /\ m.type \in {"client_hello", "server_hello", "finished", "ip_assign"}
         /\ m.type # "client_hello" => m.key \in Keys
         /\ m.type = "server_hello" => m = ServerHello(m.key)
         /\ m.type = "finished" => m = Finished(m.key)
         /\ m.type = "ip_assign" => m.seq \in Nat /\ m \in Assignments
BY DEF Datagrams, Assignments, ClientHello, ServerHello, Finished

\* What is made is a datagram.
LEMMA DatagramsMade ==
  ASSUME NEW k \in Keys, NEW n \in Nat
  PROVE  /\ ClientHello \in Datagrams /\ ClientHello.type = "client_hello"
         /\ ServerHello(k) \in Datagrams /\ ServerHello(k).type = "server_hello"
         /\ ServerHello(k).key = k
         /\ Finished(k) \in Datagrams /\ Finished(k).type = "finished"
         /\ Finished(k).key = k
         /\ Assign(k, n) \in Datagrams /\ Assign(k, n).type = "ip_assign"
         /\ Assign(k, n).key = k /\ Assign(k, n).seq = n
BY DEF Datagrams, Assignments, ClientHello, ServerHello, Finished, Assign

\* Keys are numbers, and None is not one of them.
LEMMA KeysAreNumbers == Keys \subseteq Nat \ {0} /\ None \notin Keys /\ MaxFaults \in Nat
BY HandshakeAssumption DEF Keys

\* What the types of the numbers are, for the arithmetic.
LEMMA NumbersTyped ==
  ASSUME Typed
  PROVE  /\ server.derived \in Nat /\ server.derived <= MaxFaults + 1
         /\ server.session \in Keys \cup {None} /\ server.next_seq \in Nat
         /\ faults \in Nat /\ faults <= MaxFaults /\ MaxFaults \in Nat
         /\ up \in Seq(Datagrams) /\ down \in Seq(Datagrams)
         /\ Cardinality(Hellos(up)) \in Nat
<1>1. MaxFaults \in Nat
  BY KeysAreNumbers
<1>2. /\ server.derived \in 0..(MaxFaults + 1) /\ server.next_seq \in Nat
      /\ server.session \in Keys \cup {None} /\ faults \in 0..MaxFaults
      /\ up \in Seq(Datagrams) /\ down \in Seq(Datagrams)
  BY DEF Typed, ServerRecord
<1>3. Cardinality(Hellos(up)) \in Nat
  BY <1>2, HellosFinite
<1> QED BY <1>1, <1>2, <1>3

\* The server's handlers.
LEMMA ServerStepTyped ==
  Typed /\ ServerStep => Typed'
<1> SUFFICES ASSUME Typed, ServerStep PROVE Typed'
  OBVIOUS
<1>0. /\ up # <<>> /\ up' = Tail(up) /\ Head(up) \in Datagrams /\ up' \in Seq(Datagrams)
      /\ UNCHANGED <<client, start, history>>
  BY TailCameFrom DEF Typed, ServerStep, HandleClientHello, HandleClientFinished
<1>1. /\ Cardinality(Hellos(up)) \in Nat /\ Cardinality(Hellos(up')) \in Nat
      /\ server.derived \in Nat /\ faults \in Nat /\ faults <= MaxFaults
      /\ MaxFaults \in Nat /\ (IF start = "init" THEN 1 ELSE 0) \in Nat
  BY <1>0, HellosFinite, NumbersTyped
<1>2. CASE HandleClientHello
  <2> DEFINE k == server.derived + 1
  <2>1. /\ Head(up).type = "client_hello"
        /\ server' = [server EXCEPT !.derived = k, !.session = k]
        /\ down' = down \o <<ServerHello(k), Finished(k)>>
    BY <1>2 DEF HandleClientHello
  <2>2. Cardinality(Hellos(up')) + 1 <= Cardinality(Hellos(up))
    BY <1>0, <2>1, TailHellos DEF Typed
  <2>3. Cardinality(Hellos(up)) + server.derived + (IF start = "init" THEN 1 ELSE 0)
          <= 1 + faults
    BY DEF Typed, HellosBounded
  <2>4. k \in 1..(MaxFaults + 1)
    BY <1>1, <2>2, <2>3
  <2>5. server' \in ServerRecord /\ server'.derived = server.derived + 1
    <3>1. server \in ServerRecord
      BY DEF Typed
    <3>2. k \in Keys /\ k \in 0..(MaxFaults + 1)
      BY <2>4, <1>1 DEF Keys
    <3> HIDE DEF k
    <3>3. server' \in ServerRecord /\ server'.derived = k
      BY <2>1, <3>1, <3>2 DEF ServerRecord
    <3> QED BY <3>3 DEF k
  <2>6. HellosBounded'
    BY <1>0, <1>1, <2>2, <2>3, <2>5 DEF HellosBounded
  <2>7. k \in Keys
    BY <2>4 DEF Keys
  <2>8. down' \in Seq(Datagrams)
    <3>1. ServerHello(k) \in Datagrams /\ Finished(k) \in Datagrams
      BY <2>7, DatagramsMade
    <3>2. down \in Seq(Datagrams)
      BY DEF Typed
    <3> HIDE DEF k
    <3> QED BY <2>1, <3>1, <3>2, ConcatProperties
  <2> QED BY <1>0, <2>5, <2>6, <2>8 DEF Typed
<1>3. CASE HandleClientFinished
  <2>1. server'.derived = server.derived /\ server' \in ServerRecord
    <3>1. server \in ServerRecord
      BY DEF Typed
    <3>2. \/ server' = server
          \/ server' = [server EXCEPT !.tunnel_key = server.session, !.leased = TRUE,
                                      !.next_seq = @ + 1]
          \/ server' = [server EXCEPT !.tunnel_key = server.session]
      BY <1>3 DEF HandleClientFinished, RefuseFinished, AssignAddress, NoAddressLeft
    <3>3. server.session \in Keys \cup {None} /\ server.next_seq + 1 \in Nat
      BY NumbersTyped
    <3>4. CASE server' = [server EXCEPT !.tunnel_key = server.session, !.leased = TRUE,
                                        !.next_seq = @ + 1]
      BY <3>1, <3>3, <3>4 DEF ServerRecord
    <3>5. CASE server' = [server EXCEPT !.tunnel_key = server.session]
      BY <3>1, <3>3, <3>5 DEF ServerRecord
    <3> QED BY <3>1, <3>2, <3>4, <3>5
  <2>2. down' \in Seq(Datagrams)
    <3>1. CASE AssignAddress
      <4>1. /\ down' = Append(down, Assign(server.session, server.next_seq))
            /\ server.session \in Keys /\ server.next_seq \in Nat
            /\ down \in Seq(Datagrams)
        BY <3>1 DEF AssignAddress, VerifyFinished, Typed, ServerRecord
      <4> QED BY <4>1, DatagramsMade, AppendProperties
    <3>2. CASE UNCHANGED down
      BY <3>2 DEF Typed
    <3> QED BY <1>3, <3>1, <3>2 DEF HandleClientFinished, RefuseFinished, NoAddressLeft
  <2>3. Cardinality(Hellos(up')) <= Cardinality(Hellos(up))
    BY <1>0, TailHellos DEF Typed
  <2>4. HellosBounded'
    BY <1>0, <1>1, <2>1, <2>3 DEF HellosBounded, Typed
  <2> QED BY <1>0, <2>1, <2>2, <2>4 DEF Typed
<1> QED BY <1>2, <1>3 DEF ServerStep

\* The server drops its entry.
LEMMA ForgetsTyped ==
  Typed /\ ServerForgets => Typed'
<1> SUFFICES ASSUME Typed, ServerForgets PROVE Typed'
  OBVIOUS
<1>1. /\ server' = [server EXCEPT !.session = None, !.tunnel_key = None, !.leased = FALSE,
                                  !.next_seq = 0, !.forgotten = @ + 1]
      /\ server.forgotten < MaxForgets
      /\ UNCHANGED <<client, start, up, down, history>>
  BY DEF ServerForgets
<1>2. server \in ServerRecord /\ server.forgotten + 1 \in 0..MaxForgets
  BY <1>1, HandshakeAssumption DEF Typed, ServerRecord
<1>3. server' \in ServerRecord /\ server'.derived = server.derived
  BY <1>1, <1>2 DEF ServerRecord
<1> QED BY <1>1, <1>3 DEF Typed, HellosBounded

\* The client's answer is no ClientHello, and only goes out with a socket.
LEMMA SentTyped ==
  ASSUME Typed, NEW k \in Keys
  PROVE  /\ Sent(Finished(k)) \in Seq(Datagrams)
         /\ Cardinality(Hellos(Sent(Finished(k)))) = Cardinality(Hellos(up))
<1>1. Finished(k) \in Datagrams /\ Finished(k).type = "finished"
  BY DEF Datagrams, Finished
<1>2. Append(up, Finished(k)) \in Seq(Datagrams)
  BY <1>1, AppendProperties DEF Typed
<1>3. Cardinality(Hellos(Append(up, Finished(k)))) = Cardinality(Hellos(up))
  BY <1>1, AppendHellos DEF Typed
<1> QED BY <1>2, <1>3 DEF Sent, Typed

\* The client's handlers.
LEMMA ClientStepTyped ==
  Typed /\ ClientStep => Typed'
<1> SUFFICES ASSUME Typed, ClientStep PROVE Typed'
  OBVIOUS
<1>0. UNCHANGED <<server, start, faults, disturbed>>
  BY DEF ClientStep, HandleServerHello, HandleServerFinished, HandleAssign, ReceiveEnds
<1>1. CASE ReceiveEnds
  BY <1>1 DEF ReceiveEnds, Typed, ClientRecord, HellosBounded
<1>2. CASE HandleServerHello \/ HandleServerFinished \/ HandleAssign
  <2>0. /\ Head(down) \in Datagrams /\ down' \in Seq(Datagrams)
        /\ Handled \in ClientRecord
        /\ client \in ClientRecord
    <3>1. client \in ClientRecord /\ down \in Seq(Datagrams)
      BY DEF Typed
    <3>2. down # <<>> /\ down' = Tail(down)
      BY <1>2 DEF HandleServerHello, HandleServerFinished, HandleAssign, Handles
    <3>3. Handled \in ClientRecord
      BY <3>1 DEF Handled, ClientRecord
    <3> QED BY <3>1, <3>2, <3>3, TailCameFrom
  <2>1. CASE HandleServerHello
    <3>1. Head(down).key \in Keys /\ UNCHANGED <<up, verified, applied>>
          /\ client' = [Handled EXCEPT !.session = Head(down).key]
      BY <2>0, <2>1, DatagramShape DEF HandleServerHello, Handles
    <3>2. client' \in ClientRecord
      BY <2>0, <3>1 DEF ClientRecord
    <3> QED BY <1>0, <2>0, <3>1, <3>2 DEF Typed, HellosBounded
  <2>2. CASE HandleServerFinished
    <3>1. CASE client' = Handled /\ UNCHANGED <<up, verified>>
      BY <1>0, <2>0, <2>2, <3>1 DEF HandleServerFinished, Typed, HellosBounded
    <3>2. CASE client' = [Handled EXCEPT !.error = TRUE] /\ UNCHANGED <<up, verified>>
      <4>1. client' \in ClientRecord
        BY <2>0, <3>2 DEF ClientRecord
      <4> QED BY <1>0, <2>0, <2>2, <3>2, <4>1 DEF HandleServerFinished, Typed, HellosBounded
    <3>3. CASE /\ VerifyFinished(client.session, Head(down))
               /\ client' = [Handled EXCEPT !.tunnel_key = client.session, !.connected = TRUE]
               /\ up' = Sent(Finished(client.session))
               /\ verified' = verified \cup {client.session}
      <4>1. client.session \in Keys
        BY <2>0, <3>3 DEF VerifyFinished, ClientRecord
      <4>2. client' \in ClientRecord
        BY <2>0, <3>3, <4>1 DEF ClientRecord
      <4>3. up' \in Seq(Datagrams) /\ Cardinality(Hellos(up')) = Cardinality(Hellos(up))
        BY <3>3, <4>1, SentTyped
      <4>4. HellosBounded'
        BY <1>0, <4>3 DEF Typed, HellosBounded
      <4>5. UNCHANGED applied
        BY <2>2 DEF HandleServerFinished
      <4> QED BY <1>0, <2>0, <3>3, <4>1, <4>2, <4>3, <4>4, <4>5 DEF Typed
    <3> QED BY <2>2, <3>1, <3>2, <3>3 DEF HandleServerFinished
  <2>3. CASE HandleAssign
    <3>1. Head(down).seq \in Nat /\ UNCHANGED <<up, verified>>
      BY <2>0, <2>3, DatagramShape DEF HandleAssign, Handles
    <3>2. /\ Updated(Handled.rx, Head(down).seq) \in Window
          /\ Handled.assigned + 1 \in Nat
      BY <2>0, <3>1, UpdatedTyped DEF ClientRecord
    <3>3. client' \in ClientRecord
      BY <2>0, <2>3, <3>2
         DEF HandleAssign, IgnoreAssign, BurnNumber, ApplyAssign, ClientRecord
    <3>4. Head(down) \in Assignments
      BY <2>0, <2>3, DatagramShape DEF HandleAssign, Handles
    <3>5. applied' \subseteq Assignments
      BY <2>3, <3>4 DEF HandleAssign, IgnoreAssign, BurnNumber, ApplyAssign, Typed
    <3> QED BY <1>0, <2>0, <3>1, <3>3, <3>5 DEF Typed, HellosBounded
  <2> QED BY <1>2, <2>1, <2>2, <2>3
<1> QED BY <1>1, <1>2 DEF ClientStep

\* start() and stop().
LEMMA StartStepTyped ==
  Typed /\ (StartStep \/ StopTransport) => Typed'
<1> SUFFICES ASSUME Typed, StartStep \/ StopTransport PROVE Typed'
  OBVIOUS
<1>1. CASE SendClientHello
  <2>1. /\ start = "init" /\ start' = "waiting" /\ up' = Append(up, ClientHello)
        /\ UNCHANGED <<server, client, down, history>>
    BY <1>1 DEF SendClientHello
  <2>2. ClientHello \in Datagrams /\ up \in Seq(Datagrams)
    BY DEF Typed, Datagrams
  <2>3. up' \in Seq(Datagrams)
    BY <2>1, <2>2, AppendProperties
  <2>4. Cardinality(Hellos(up')) <= Cardinality(Hellos(up)) + 1
    BY <2>1, <2>2, AppendHellos
  <2>5. /\ Cardinality(Hellos(up)) \in Nat /\ Cardinality(Hellos(up')) \in Nat
        /\ server.derived \in Nat /\ faults \in Nat
    BY <2>2, <2>3, HellosFinite, KeysAreNumbers DEF Typed, ServerRecord
  <2>6. HellosBounded'
    BY <2>1, <2>4, <2>5 DEF Typed, HellosBounded
  <2> QED BY <2>1, <2>3, <2>6 DEF Typed
<1>2. CASE HandshakeFails \/ HandshakeSucceeds \/ HandshakeTimesOut
  BY <1>2 DEF HandshakeFails, HandshakeSucceeds, HandshakeTimesOut, Typed, HellosBounded
<1>3. CASE StopTransport
  BY <1>3 DEF StopTransport, Typed, ClientRecord, HellosBounded
<1> QED BY <1>1, <1>2, <1>3 DEF StartStep

\* The network.
LEMMA FaultTyped ==
  Typed /\ Fault => Typed'
<1> SUFFICES ASSUME Typed, Fault PROVE Typed'
  OBVIOUS
<1>1. /\ faults < MaxFaults /\ faults' = faults + 1
      /\ UNCHANGED <<server, client, start, verified, applied>>
  BY DEF Fault
<1>2. PICK kind \in FaultKinds :
        /\ disturbed' = (disturbed \/ kind # "repeat")
        /\ \/ up' \in Disturbed(kind, up) /\ UNCHANGED down
           \/ down' \in Disturbed(kind, down) /\ UNCHANGED up
  BY DEF Fault
<1>3. /\ up \in Seq(Datagrams) /\ down \in Seq(Datagrams)
      /\ up' \in Seq(Datagrams) /\ down' \in Seq(Datagrams)
  BY <1>2, FaultCameFrom DEF Typed
<1>4. /\ Cardinality(Hellos(up)) \in Nat /\ Cardinality(Hellos(up')) \in Nat
      /\ server.derived \in Nat /\ faults \in Nat /\ MaxFaults \in Nat
  BY <1>3, HellosFinite, KeysAreNumbers DEF Typed, ServerRecord
<1>5. Cardinality(Hellos(up')) <= Cardinality(Hellos(up)) + 1
  BY <1>2, <1>3, <1>4, FaultHellos
<1>6. HellosBounded'
  BY <1>1, <1>4, <1>5 DEF Typed, HellosBounded
<1>7. faults' \in 0..MaxFaults /\ disturbed' \in BOOLEAN
  BY <1>1, <1>2, <1>4
<1> QED BY <1>1, <1>3, <1>6, <1>7 DEF Typed

\* Every variable keeps its type: a key for every ClientHello, and no more of
\* those than the client's and the network's.
THEOREM TypesHold == Spec => []Typed
<1>1. Init => Typed
  <2> SUFFICES ASSUME Init PROVE Typed
    OBVIOUS
  <2>1. server \in ServerRecord /\ client \in ClientRecord
    BY FreshWindowTyped, KeysAreNumbers, HandshakeAssumption DEF Init, ServerRecord, ClientRecord
  <2>2. Hellos(up) = {}
    BY DEF Init, Hellos, Positions
  <2>3. Cardinality(Hellos(up)) = 0
    BY <2>2, FS_EmptySet
  <2>4. server.derived = 0 /\ start = "init" /\ faults = 0
    BY DEF Init
  <2>5. HellosBounded
    BY <2>3, <2>4 DEF HellosBounded
  <2>6. up \in Seq(Datagrams) /\ down \in Seq(Datagrams)
    BY DEF Init
  <2>7. faults \in 0..MaxFaults
    BY <2>4, KeysAreNumbers
  <2> QED BY <2>1, <2>4, <2>5, <2>6, <2>7 DEF Init, Typed
<1>2. Typed /\ [Next]_vars => Typed'
  <2>1. Typed /\ UNCHANGED vars => Typed'
    BY DEF vars, Typed, HellosBounded
  <2> QED BY <2>1, ServerStepTyped, ForgetsTyped, ClientStepTyped, StartStepTyped,
             FaultTyped DEF Next
<1> QED BY <1>1, <1>2, PTL DEF Spec

\* The type invariant.
THEOREM TypeCorrect == Spec => []TypeOK
<1>1. Typed => TypeOK
  BY DEF Typed, TypeOK, ServerRecord, ClientRecord, Window
<1> QED BY <1>1, TypesHold, PTL

-----------------------------------------------------------------------------
(* Keys: what every network leaves true.                                   *)

\* Whoever's Finished is on its way to the server has verified the server's.
FinishedIsConfirmed ==
  \A m \in Contents(up) : m.type = "finished" => m.key \in verified

Confirmed == FinishedIsConfirmed /\ ServerKeyIsConfirmed

\* The server's key is the key of a Finished that came, the client's Finished
\* has the key it has just verified, and the network makes none up.
LEMMA StepConfirmed ==
  Typed /\ Confirmed /\ [Next]_vars => Confirmed'
<1> SUFFICES ASSUME Typed, Confirmed, [Next]_vars PROVE Confirmed'
  OBVIOUS
<1>0. up \in Seq(Datagrams) /\ down \in Seq(Datagrams) /\ server \in ServerRecord
  BY DEF Typed
<1>1. CASE HandleClientHello
  <2>1. /\ Contents(up') \subseteq Contents(up) /\ UNCHANGED verified
        /\ server'.tunnel_key = server.tunnel_key
    BY <1>0, <1>1, TailContents DEF HandleClientHello, ServerRecord
  <2> QED BY <2>1 DEF Confirmed, FinishedIsConfirmed, ServerKeyIsConfirmed
<1>2. CASE HandleClientFinished
  <2>1. /\ up # <<>> /\ Head(up).type = "finished" /\ up' = Tail(up)
        /\ UNCHANGED verified
    BY <1>2 DEF HandleClientFinished
  <2>2. Contents(up') \subseteq Contents(up) /\ Head(up) \in Contents(up)
    BY <1>0, <2>1, TailContents
  <2>3. \/ server'.tunnel_key = server.tunnel_key
        \/ server'.tunnel_key = server.session /\ server.session = Head(up).key
    BY <1>0, <1>2 DEF HandleClientFinished, RefuseFinished, AssignAddress, NoAddressLeft,
                      VerifyFinished, ServerRecord
  <2> QED BY <2>1, <2>2, <2>3 DEF Confirmed, FinishedIsConfirmed, ServerKeyIsConfirmed
<1>3. CASE HandleServerHello \/ HandleAssign \/ ReceiveEnds
  BY <1>3 DEF HandleServerHello, HandleAssign, ReceiveEnds, Confirmed,
              FinishedIsConfirmed, ServerKeyIsConfirmed
<1>4. CASE HandleServerFinished
  <2>1. UNCHANGED server
    BY <1>4 DEF HandleServerFinished
  <2>2. CASE UNCHANGED <<up, verified>>
    BY <2>1, <2>2 DEF Confirmed, FinishedIsConfirmed, ServerKeyIsConfirmed
  <2>3. CASE /\ VerifyFinished(client.session, Head(down))
             /\ up' = Sent(Finished(client.session))
             /\ verified' = verified \cup {client.session}
    <3>1. client.session \in Keys
      BY <2>3 DEF VerifyFinished, Typed, ClientRecord
    <3>2. Contents(up') \subseteq Contents(up) \cup {Finished(client.session)}
      BY <1>0, <2>3, <3>1, DatagramsMade, AppendContents DEF Sent
    <3>3. Finished(client.session).key = client.session
      BY DEF Finished
    <3> QED BY <2>1, <2>3, <3>2, <3>3
            DEF Confirmed, FinishedIsConfirmed, ServerKeyIsConfirmed
  <2> QED BY <1>4, <2>2, <2>3 DEF HandleServerFinished
<1>5. CASE SendClientHello
  <2>1. Contents(up') = Contents(up) \cup {ClientHello}
    BY <1>0, <1>5, AppendContents DEF SendClientHello, Datagrams
  <2> QED BY <1>5, <2>1 DEF SendClientHello, ClientHello, Confirmed, FinishedIsConfirmed,
                            ServerKeyIsConfirmed
<1>6. CASE HandshakeFails \/ HandshakeSucceeds \/ HandshakeTimesOut \/ StopTransport
  BY <1>6 DEF HandshakeFails, HandshakeSucceeds, HandshakeTimesOut, StopTransport,
              Confirmed, FinishedIsConfirmed, ServerKeyIsConfirmed
<1>7. CASE Fault
  <2>1. UNCHANGED <<server, verified>>
    BY <1>7 DEF Fault
  <2>2. Contents(up') \subseteq Contents(up)
    BY <1>0, <1>7, FaultContents DEF Fault
  <2> QED BY <2>1, <2>2 DEF Confirmed, FinishedIsConfirmed, ServerKeyIsConfirmed
<1>8. CASE UNCHANGED vars
  BY <1>8 DEF vars, Confirmed, FinishedIsConfirmed, ServerKeyIsConfirmed
<1>9. CASE ServerForgets
  <2>1. server'.tunnel_key = None /\ UNCHANGED <<up, verified>>
    BY <1>0, <1>9 DEF ServerForgets, ServerRecord
  <2> QED BY <2>1 DEF Confirmed, FinishedIsConfirmed, ServerKeyIsConfirmed
<1> QED BY <1>1, <1>2, <1>3, <1>4, <1>5, <1>6, <1>7, <1>8, <1>9
        DEF Next, ServerStep, ClientStep, StartStep

\* The server never encrypts under a key whose server Finished the client has
\* not verified (_handle_handshake of src/vpn_server.py), however the network
\* loses, repeats and reorders.
THEOREM ServerKeyConfirmed == Spec => []ServerKeyIsConfirmed
<1>1. Init => Confirmed
  BY DEF Init, Confirmed, FinishedIsConfirmed, ServerKeyIsConfirmed, Contents, Positions
<1> QED BY <1>1, StepConfirmed, TypesHold, PTL DEF Spec, Confirmed

-----------------------------------------------------------------------------
(* Assignments: what every network leaves true.                            *)

\* Each assignment that the client has acted on has a number that its window
\* refuses, and was counted.
AppliedIsRefused ==
  /\ \A m \in applied : ~Admits(client.rx, m.seq)
  /\ IsFiniteSet(applied) /\ AssignmentAppliedOnce

\* A datagram with an assignment: its number is refused from then on.
LEMMA AssignHandled ==
  Typed /\ AppliedIsRefused /\ HandleAssign => AppliedIsRefused'
<1> SUFFICES ASSUME Typed, AppliedIsRefused, HandleAssign PROVE AppliedIsRefused'
  OBVIOUS
<1> DEFINE n == Head(down).seq
<1>0. /\ client \in ClientRecord /\ client.rx \in Window /\ down \in Seq(Datagrams)
      /\ applied \subseteq Assignments /\ client.assigned \in Nat
  BY DEF Typed, ClientRecord
<1>1. Head(down) \in Assignments /\ n \in Nat
  BY <1>0, TailCameFrom, DatagramShape DEF HandleAssign, Handles
<1>2. \A m \in applied : m.seq \in Nat
  BY <1>0 DEF Assignments
<1>3. \A m \in applied : ~Admits(Updated(client.rx, n), m.seq)
  BY <1>0, <1>1, <1>2, RefusedForGood DEF AppliedIsRefused
<1>4. ~Admits(Updated(client.rx, n), n)
  BY <1>0, <1>1, ItsNumberIsRefused
<1>5. CASE IgnoreAssign
  <2>1. UNCHANGED applied /\ client'.rx = client.rx /\ client'.assigned = client.assigned
    BY <1>0, <1>5 DEF IgnoreAssign, Handled, ClientRecord
  <2> QED BY <2>1 DEF AppliedIsRefused, AssignmentAppliedOnce
<1>6. CASE BurnNumber
  <2>1. /\ UNCHANGED applied /\ client'.rx = Updated(client.rx, n)
        /\ client'.assigned = client.assigned
    BY <1>0, <1>6 DEF BurnNumber, Handled, ClientRecord
  <2> HIDE DEF n
  <2> QED BY <1>3, <2>1 DEF AppliedIsRefused, AssignmentAppliedOnce
<1>7. CASE ApplyAssign
  <2>1. /\ applied' = applied \cup {Head(down)} /\ client'.rx = Updated(client.rx, n)
        /\ client'.assigned = client.assigned + 1 /\ Admits(client.rx, n)
    BY <1>0, <1>7 DEF ApplyAssign, Handled, ClientRecord
  <2>2. Head(down) \notin applied
    BY <2>1 DEF AppliedIsRefused
  <2>3. /\ IsFiniteSet(applied \cup {Head(down)})
        /\ Cardinality(applied \cup {Head(down)}) = Cardinality(applied) + 1
    BY <2>2, FS_AddElement DEF AppliedIsRefused
  <2>4. \A m \in applied' : ~Admits(client'.rx, m.seq)
    BY <1>3, <1>4, <2>1
  <2> QED BY <2>1, <2>3, <2>4 DEF AppliedIsRefused, AssignmentAppliedOnce
<1> QED BY <1>5, <1>6, <1>7 DEF HandleAssign

\* The client's other steps leave its window and its count alone.
LEMMA OnlyAssignsCount ==
  ASSUME Typed, HandleServerHello \/ HandleServerFinished \/ ReceiveEnds \/ StopTransport
  PROVE  client'.rx = client.rx /\ client'.assigned = client.assigned
<1>1. /\ client \in ClientRecord /\ Handled \in ClientRecord
      /\ Handled.rx = client.rx /\ Handled.assigned = client.assigned
  BY DEF Typed, Handled, ClientRecord
<1> QED BY <1>1 DEF HandleServerHello, HandleServerFinished, ReceiveEnds, StopTransport,
                    ClientRecord

\* Nothing else touches the window, the count or the history, the server's
\* starting anew among it.
LEMMA StepApplied ==
  Typed /\ AppliedIsRefused /\ [Next]_vars => AppliedIsRefused'
<1> SUFFICES ASSUME Typed, AppliedIsRefused, [Next]_vars, ~HandleAssign
             PROVE  AppliedIsRefused'
  BY AssignHandled
<1>1. UNCHANGED applied
  BY DEF Next, ServerStep, HandleClientHello, HandleClientFinished, ServerForgets, ClientStep,
         HandleServerHello, HandleServerFinished, ReceiveEnds, StartStep, SendClientHello,
         HandshakeFails, HandshakeSucceeds, HandshakeTimesOut, StopTransport, Fault, vars
<1>2. CASE ServerStep \/ ServerForgets \/ StartStep \/ Fault \/ UNCHANGED vars
  <2>1. UNCHANGED client
    BY <1>2 DEF ServerStep, HandleClientHello, HandleClientFinished, ServerForgets, StartStep,
         SendClientHello, HandshakeFails, HandshakeSucceeds, HandshakeTimesOut, Fault, vars
  <2> QED BY <1>1, <2>1 DEF AppliedIsRefused, AssignmentAppliedOnce
<1>3. CASE HandleServerHello \/ HandleServerFinished \/ ReceiveEnds \/ StopTransport
  <2>1. client'.rx = client.rx /\ client'.assigned = client.assigned
    BY <1>3, OnlyAssignsCount
  <2> QED BY <1>1, <2>1 DEF AppliedIsRefused, AssignmentAppliedOnce
<1> QED BY <1>2, <1>3 DEF Next, ClientStep

\* The client acts on no IP_ASSIGN message twice, however often the network
\* repeats one and the server drops its entry and counts from zero again
\* (unpack_data of src/packet_encap.py before _handle_ip_assignment of
\* src/vpn_client.py).
THEOREM AppliedOnce == Spec => []AssignmentAppliedOnce
<1>1. Init => AppliedIsRefused
  BY FS_EmptySet DEF Init, AppliedIsRefused, AssignmentAppliedOnce
<1>2. Spec => []AppliedIsRefused
  BY <1>1, StepApplied, TypesHold, PTL DEF Spec
<1> QED BY <1>2, PTL DEF AppliedIsRefused

-----------------------------------------------------------------------------
(* Keys: where the server is with them, whatever the network does.         *)

Keyed(m) == m.type \in {"server_hello", "finished", "ip_assign"}

\* The server's session has the last key that it derived, unless it has none,
\* and nobody has met a later one.
KeysBounded ==
  /\ server.session \in {None, server.derived}
  /\ server.tunnel_key # None => server.session # None
  /\ \A m \in Contents(down) : Keyed(m) => m.key <= server.derived
  /\ client.session # None => client.session <= server.derived
  /\ client.tunnel_key # None => client.tunnel_key <= server.derived

-----------------------------------------------------------------------------
(* A network that only repeats.                                            *)

\* Keys are on their way in the order of their derivation.
InKeyOrder(ch) ==
  \A i, j \in Positions(ch) :
    i < j /\ Keyed(ch[i]) /\ Keyed(ch[j]) => ch[i].key <= ch[j].key

\* None of them is older than key.
NoOlder(ch, key) ==
  \A i \in Positions(ch) : Keyed(ch[i]) /\ key # None => key <= ch[i].key

\* A Finished comes when its hello is there or in front of it.
HelloFirst(ch, session) ==
  \A i \in Positions(ch) : ch[i].type = "finished" =>
    \/ session = ch[i].key
    \/ \E j \in Positions(ch) : j < i /\ ch[j] = ServerHello(ch[i].key)

Ordered(ch, session, key) ==
  InKeyOrder(ch) /\ NoOlder(ch, session) /\ NoOlder(ch, key) /\ HelloFirst(ch, session)

InTheRightOrder ==
  ~disturbed => ~client.error /\ Ordered(down, client.session, client.tunnel_key)

\* The server's last key is on its way to the client, or the client has it;
\* and then it is on its way back, or the server has it too.
KeyIsUnderWay ==
  ~disturbed /\ client.sock /\ server.session # None =>
    /\ client.tunnel_key = server.session \/ Finished(server.session) \in Contents(down)
    /\ client.tunnel_key = server.session =>
         server.tunnel_key = server.session \/ Finished(server.session) \in Contents(up)

\* The numbers of it.
LEMMA SessionsAreNumbers ==
  ASSUME Typed, KeysBounded
  PROVE  /\ server.derived \in Nat
         /\ server.session = None => server.tunnel_key = None
         /\ server.session # None => server.session = server.derived /\ server.derived > 0
         /\ client.session # None => client.session \in Keys /\ client.session \in Nat
         /\ client.tunnel_key # None => client.tunnel_key \in Keys /\ client.tunnel_key \in Nat
<1>1. /\ server.derived \in Nat /\ client.session \in Keys \cup {None}
      /\ client.tunnel_key \in Keys \cup {None}
  BY NumbersTyped DEF Typed, ClientRecord
<1>3. server.session = None => server.tunnel_key = None
  BY DEF KeysBounded
<1>4. server.session # None => server.session = server.derived /\ server.derived > 0
  BY <1>1, NumbersTyped, KeysAreNumbers DEF KeysBounded
<1>5. /\ client.session # None => client.session \in Keys /\ client.session \in Nat
      /\ client.tunnel_key # None => client.tunnel_key \in Keys /\ client.tunnel_key \in Nat
  BY <1>1, KeysAreNumbers
<1> QED BY <1>1, <1>3, <1>4, <1>5

\* What is in the channel to the client has a key if it must.
LEMMA DownTyped ==
  ASSUME Typed
  PROVE  /\ down \in Seq(Datagrams)
         /\ \A i \in Positions(down) : down[i] \in Datagrams
         /\ \A m \in Contents(down) : Keyed(m) => m.key \in Keys /\ m.key \in Nat
<1>1. down \in Seq(Datagrams) /\ \A i \in Positions(down) : down[i] \in Datagrams
  BY DEF Typed, Positions
<1>2. \A m \in Contents(down) : m \in Datagrams
  BY <1>1 DEF Contents
<1> QED BY <1>1, <1>2, DatagramShape, KeysAreNumbers DEF Keyed

\* The answers to a ClientHello come behind everything else.
LEMMA AnswersSent ==
  ASSUME Typed, HandleClientHello, NEW k, k = server.derived + 1
  PROVE  /\ k \in Keys /\ k \in Nat
         /\ ServerHello(k) \in Datagrams /\ Finished(k) \in Datagrams
         /\ down' = Append(Append(down, ServerHello(k)), Finished(k))
         /\ Contents(down') = Contents(down) \cup {ServerHello(k), Finished(k)}
         /\ server'.derived = k /\ server'.session = k
         /\ server'.tunnel_key = server.tunnel_key
         /\ UNCHANGED <<client, disturbed, verified>>
<1>0. server \in ServerRecord /\ down \in Seq(Datagrams)
  BY DEF Typed
<1>1. /\ down' = down \o <<ServerHello(k), Finished(k)>>
      /\ server'.derived = k /\ server'.session = k
      /\ server'.tunnel_key = server.tunnel_key
      /\ UNCHANGED <<client, disturbed, verified>>
  BY <1>0 DEF HandleClientHello, ServerRecord
<1>2. server' \in ServerRecord
  BY ServerStepTyped DEF ServerStep, Typed
<1>3. k \in Keys /\ k \in Nat
  <2>1. k \in 0..(MaxFaults + 1) /\ server.derived \in Nat
    BY <1>1, <1>2, NumbersTyped DEF ServerRecord
  <2> QED BY <2>1, KeysAreNumbers DEF Keys
<1>4. ServerHello(k) \in Datagrams /\ Finished(k) \in Datagrams
  BY <1>3 DEF Datagrams
<1> DEFINE half == Append(down, ServerHello(k))
<1>5. half \in Seq(Datagrams) /\ Contents(half) = Contents(down) \cup {ServerHello(k)}
  BY <1>0, <1>4, AppendContents
<1>6. Contents(Append(half, Finished(k))) = Contents(half) \cup {Finished(k)}
  <2> HIDE DEF half
  <2> QED BY <1>4, <1>5, AppendContents
<1>7. down' = Append(half, Finished(k))
  BY <1>0, <1>1, <1>4, SendTwo
<1> QED BY <1>1, <1>3, <1>4, <1>5, <1>6, <1>7

\* The other things that happen to the channel to the client.
LEMMA ClientFinishedHandled ==
  ASSUME Typed, HandleClientFinished
  PROVE  /\ UNCHANGED <<client, disturbed, verified>>
         /\ server'.derived = server.derived /\ server'.session = server.session
         /\ up # <<>> /\ up' = Tail(up) /\ Head(up).type = "finished"
         /\ \/ server.session # Head(up).key /\ UNCHANGED <<server, down>>
            \/ /\ server.session = Head(up).key /\ server.session # None
               /\ server'.tunnel_key = server.session
               /\ \/ UNCHANGED down /\ server'.leased = server.leased
                  \/ \E m \in Datagrams : /\ m.type = "ip_assign" /\ m.key = server.session
                                           /\ down' = Append(down, m)
<1>1. /\ server \in ServerRecord /\ up \in Seq(Datagrams) /\ up # <<>>
      /\ up' = Tail(up) /\ Head(up).type = "finished"
      /\ UNCHANGED <<client, disturbed, verified>>
  BY DEF Typed, HandleClientFinished
<1>2. Head(up).key \in Keys
  BY <1>1, TailCameFrom, DatagramShape
<1>3. CASE RefuseFinished
  BY <1>1, <1>2, <1>3, KeysAreNumbers DEF RefuseFinished, VerifyFinished
<1>4. CASE NoAddressLeft
  BY <1>1, <1>4 DEF NoAddressLeft, VerifyFinished, ServerRecord
<1>5. CASE AssignAddress
  <2> DEFINE m == Assign(server.session, server.next_seq)
  <2>1. /\ server.session = Head(up).key /\ server.session # None
        /\ server'.tunnel_key = server.session /\ down' = Append(down, m)
        /\ server'.derived = server.derived /\ server'.session = server.session
    BY <1>1, <1>5 DEF AssignAddress, VerifyFinished, ServerRecord
  <2>2. m \in Datagrams /\ m.type = "ip_assign" /\ m.key = server.session
    BY <1>2, <2>1, NumbersTyped, DatagramsMade
  <2> HIDE DEF m
  <2> QED BY <1>1, <2>1, <2>2
<1> QED BY <1>3, <1>4, <1>5 DEF HandleClientFinished

\* What the client's handlers do to its keys, case by case.
SameKeys ==
  /\ client'.session = client.session /\ client'.tunnel_key = client.tunnel_key
  /\ client'.error = client.error /\ UNCHANGED up

TakesHello ==
  /\ Head(down).type = "server_hello" /\ client'.session = Head(down).key
  /\ client'.tunnel_key = client.tunnel_key /\ client'.error = client.error
  /\ UNCHANGED up

TakesFinished ==
  /\ Head(down).type = "finished"
  /\ client.session = Head(down).key /\ client.session # None
  /\ client'.session = client.session /\ client'.tunnel_key = client.session
  /\ client'.error = client.error /\ up' = Sent(Finished(client.session))

RefusesFinished ==
  /\ Head(down).type = "finished" /\ client.session # Head(down).key
  /\ client'.session = client.session /\ client'.tunnel_key = client.tunnel_key
  /\ UNCHANGED up

\* These are the cases.
LEMMA ClientCases ==
  ASSUME Typed, ClientStep
  PROVE  /\ UNCHANGED <<server, disturbed>> /\ client'.sock = client.sock
         /\ \/ UNCHANGED down /\ SameKeys
            \/ /\ down # <<>> /\ down' = Tail(down)
               /\ \/ Head(down).type = "ip_assign" /\ SameKeys
                  \/ TakesHello \/ TakesFinished \/ RefusesFinished
<1>0. client \in ClientRecord /\ Handled \in ClientRecord
  BY DEF Typed, Handled, ClientRecord
<1>1. /\ Handled.sock = client.sock /\ Handled.session = client.session
      /\ Handled.tunnel_key = client.tunnel_key /\ Handled.error = client.error
  BY <1>0 DEF Handled, ClientRecord
<1>2. CASE ReceiveEnds
  BY <1>0, <1>2 DEF ReceiveEnds, ClientRecord, SameKeys
<1>3. CASE HandleServerHello
  <2>1. /\ down # <<>> /\ down' = Tail(down) /\ Head(down).type = "server_hello"
        /\ client' = [Handled EXCEPT !.session = Head(down).key]
        /\ UNCHANGED <<server, up, disturbed>>
    BY <1>3 DEF HandleServerHello, Handles
  <2>2. /\ client'.session = Head(down).key /\ client'.tunnel_key = Handled.tunnel_key
        /\ client'.error = Handled.error /\ client'.sock = Handled.sock
    BY <1>0, <2>1 DEF ClientRecord
  <2> QED BY <1>1, <2>1, <2>2 DEF TakesHello
<1>4. CASE HandleServerFinished
  <2>1. /\ down # <<>> /\ down' = Tail(down) /\ Head(down).type = "finished"
        /\ UNCHANGED <<server, disturbed>>
    BY <1>4 DEF HandleServerFinished, Handles
  <2>2. Head(down).key # None
    BY <2>1, TailCameFrom, DatagramShape, KeysAreNumbers DEF Typed
  <2>3. CASE /\ VerifyFinished(client.session, Head(down))
             /\ client' = [Handled EXCEPT !.tunnel_key = client.session, !.connected = TRUE]
             /\ up' = Sent(Finished(client.session))
    <3>1. /\ client'.session = Handled.session /\ client'.tunnel_key = client.session
          /\ client'.error = Handled.error /\ client'.sock = Handled.sock
      BY <1>0, <2>3 DEF ClientRecord
    <3> QED BY <1>1, <2>1, <2>3, <3>1 DEF TakesFinished, VerifyFinished
  <2>4. CASE /\ client.session = None \/ ~VerifyFinished(client.session, Head(down))
             /\ client' = Handled \/ client' = [Handled EXCEPT !.error = TRUE]
             /\ UNCHANGED up
    <3>1. /\ client'.session = Handled.session /\ client'.tunnel_key = Handled.tunnel_key
          /\ client'.sock = Handled.sock
      BY <1>0, <2>4 DEF ClientRecord
    <3>2. client.session # Head(down).key
      BY <2>2, <2>4 DEF VerifyFinished
    <3> QED BY <1>1, <2>1, <2>4, <3>1, <3>2 DEF RefusesFinished
  <2> QED BY <1>4, <2>3, <2>4 DEF HandleServerFinished
<1>5. CASE HandleAssign
  <2>1. /\ down # <<>> /\ down' = Tail(down) /\ Head(down).type = "ip_assign"
        /\ UNCHANGED <<server, up, disturbed>>
    BY <1>5 DEF HandleAssign, Handles
  <2>2. /\ client'.session = Handled.session /\ client'.tunnel_key = Handled.tunnel_key
        /\ client'.error = Handled.error /\ client'.sock = Handled.sock
    BY <1>0, <1>5 DEF HandleAssign, IgnoreAssign, BurnNumber, ApplyAssign, ClientRecord
  <2> QED BY <1>1, <2>1, <2>2 DEF SameKeys
<1> QED BY <1>2, <1>3, <1>4, <1>5 DEF ClientStep

\* A key is the server's last, or older, wherever it is met.
LEMMA StepBounded ==
  Typed /\ KeysBounded /\ [Next]_vars => KeysBounded'
<1> SUFFICES ASSUME Typed, KeysBounded, [Next]_vars PROVE KeysBounded'
  OBVIOUS
<1>0. /\ client \in ClientRecord /\ server.derived \in Nat /\ down \in Seq(Datagrams)
      /\ \A m \in Contents(down) : Keyed(m) => m.key \in Nat
  BY NumbersTyped, DownTyped DEF Typed
<1>1. CASE HandleClientHello
  <2> DEFINE k == server.derived + 1
  <2>1. /\ Contents(down') = Contents(down) \cup {ServerHello(k), Finished(k)}
        /\ server'.derived = k /\ server'.session = k /\ UNCHANGED client /\ k \in Nat
    BY <1>1, AnswersSent
  <2>2. ServerHello(k).key = k /\ Finished(k).key = k
    BY DEF ServerHello, Finished
  <2>3. k # 0 /\ k # None /\ server.derived <= k
    BY <1>0, HandshakeAssumption
  <2>4. \A n \in Nat : n <= server.derived => n <= k
    BY <1>0
  <2>5. /\ client.session # None => client.session <= k
        /\ client.tunnel_key # None => client.tunnel_key <= k
    BY <2>4, SessionsAreNumbers DEF KeysBounded
  <2> HIDE DEF k
  <2>6. \A m \in Contents(down') : Keyed(m) => m.key <= k
    BY <1>0, <2>1, <2>2, <2>4 DEF KeysBounded
  <2> QED BY <2>1, <2>3, <2>5, <2>6 DEF KeysBounded
<1>2. CASE HandleClientFinished
  <2>1. /\ UNCHANGED client
        /\ server'.derived = server.derived /\ server'.session = server.session
        /\ server'.tunnel_key # None => server'.session # None
    BY <1>2, ClientFinishedHandled DEF KeysBounded
  <2>2. \A m \in Contents(down') : Keyed(m) => m.key <= server.derived
    <3>1. CASE UNCHANGED down
      BY <3>1 DEF KeysBounded
    <3>2. ASSUME NEW m \in Datagrams, m.key = server.session, server.session # None,
                 down' = Append(down, m)
          PROVE  \A o \in Contents(down') : Keyed(o) => o.key <= server.derived
      <4>1. Contents(down') = Contents(down) \cup {m}
        BY <1>0, <3>2, AppendContents
      <4>2. m.key <= server.derived
        BY <1>0, <3>2, SessionsAreNumbers
      <4> QED BY <4>1, <4>2 DEF KeysBounded
    <3> QED BY <1>2, <3>1, <3>2, ClientFinishedHandled
  <2> QED BY <2>1, <2>2 DEF KeysBounded
<1>3. CASE ClientStep
  <2>1. UNCHANGED server
    BY <1>3, ClientCases
  <2>2. Contents(down') \subseteq Contents(down)
    BY <1>0, <1>3, ClientCases, TailContents
  <2>3. /\ \/ client'.session = client.session
           \/ /\ client'.session = Head(down).key /\ down # <<>>
              /\ Head(down).type = "server_hello"
        /\ client'.tunnel_key \in {client.tunnel_key, client.session}
    BY <1>3, ClientCases DEF SameKeys, TakesHello, TakesFinished, RefusesFinished
  <2>4. down # <<>> => Head(down) \in Contents(down)
    BY <1>0, TailContents
  <2> QED BY <2>1, <2>2, <2>3, <2>4 DEF KeysBounded, Keyed
<1>4. CASE StartStep \/ StopTransport \/ Fault \/ UNCHANGED vars
  <2>1. /\ UNCHANGED server /\ client'.session = client.session
        /\ client'.tunnel_key = client.tunnel_key
    BY <1>0, <1>4 DEF StartStep, SendClientHello, HandshakeFails, HandshakeSucceeds,
         HandshakeTimesOut, StopTransport, Fault, vars, ClientRecord
  <2>2. Contents(down') \subseteq Contents(down)
    <3>1. CASE Fault
      BY <1>0, <3>1, FaultContents DEF Fault
    <3>2. CASE UNCHANGED down
      BY <3>2
    <3> QED BY <1>4, <3>1, <3>2
            DEF StartStep, SendClientHello, HandshakeFails, HandshakeSucceeds,
                HandshakeTimesOut, StopTransport, vars
  <2> QED BY <2>1, <2>2 DEF KeysBounded
<1>5. CASE ServerForgets
  <2>1. /\ UNCHANGED <<client, down>> /\ server'.derived = server.derived
        /\ server'.session = None /\ server'.tunnel_key = None
    BY <1>5 DEF ServerForgets, Typed, ServerRecord
  <2> QED BY <2>1 DEF KeysBounded
<1> QED BY <1>1, <1>2, <1>3, <1>4, <1>5 DEF Next, ServerStep

\* So it is from the start.
LEMMA KeysBoundedHolds == Spec => []KeysBounded
<1>1. Init => KeysBounded
  BY DEF Init, KeysBounded, Contents, Positions
<1> QED BY <1>1, StepBounded, TypesHold, PTL DEF Spec

\* The head off: the client has met the key that was in front.
LEMMA TailOrdered ==
  ASSUME NEW ch \in Seq(Datagrams), NEW s \in Keys \cup {None}, NEW t \in Keys \cup {None},
         Ordered(ch, s, t), ch # <<>>
  PROVE  /\ Head(ch).type = "ip_assign" => Ordered(Tail(ch), s, t)
         /\ Head(ch).type = "server_hello" => Ordered(Tail(ch), Head(ch).key, t)
         /\ Head(ch).type = "finished" =>
              Head(ch).key = s /\ s # None /\ Ordered(Tail(ch), s, s)
<1> DEFINE h == Head(ch)
           tl == Tail(ch)
<1>1. /\ h \in Datagrams /\ h = ch[1] /\ 1 \in Positions(ch) /\ tl \in Seq(Datagrams)
      /\ \A i \in Positions(tl) : i + 1 \in Positions(ch) /\ tl[i] = ch[i + 1]
  BY TailCameFrom
<1>2. /\ Positions(tl) \subseteq Nat /\ Positions(ch) \subseteq Nat
      /\ \A i \in Positions(tl) : 1 < i + 1
      /\ \A i \in Positions(ch) : ~(i < 1)
      /\ \A j \in Positions(ch) : j # 1 => j - 1 \in Positions(tl)
      /\ \A i \in Positions(ch) : ch[i] \in Datagrams
  BY <1>1, TailCameFrom DEF Positions
<1>3. \A i \in Positions(ch) : Keyed(ch[i]) => ch[i].key \in Keys /\ ch[i].key \in Nat
  BY <1>2, DatagramShape, KeysAreNumbers DEF Keyed
<1> HIDE DEF h, tl
<1>4. InKeyOrder(tl) /\ NoOlder(tl, s) /\ NoOlder(tl, t)
  <2>1. InKeyOrder(tl)
    <3> SUFFICES ASSUME NEW i \in Positions(tl), NEW j \in Positions(tl), i < j,
                        Keyed(tl[i]), Keyed(tl[j])
                 PROVE  tl[i].key <= tl[j].key
      BY DEF InKeyOrder
    <3>1. i + 1 < j + 1
      BY <1>2
    <3> QED BY <1>1, <3>1 DEF Ordered, InKeyOrder
  <2>2. NoOlder(tl, s) /\ NoOlder(tl, t)
    BY <1>1 DEF Ordered, NoOlder
  <2> QED BY <2>1, <2>2
<1>5. \A i \in Positions(tl) : Keyed(h) /\ Keyed(tl[i]) => h.key <= tl[i].key
  BY <1>1, <1>2 DEF Ordered, InKeyOrder
<1>6. ASSUME NEW i \in Positions(tl), tl[i].type = "finished"
      PROVE  \/ s = tl[i].key
             \/ h = ServerHello(tl[i].key)
             \/ \E j \in Positions(tl) : j < i /\ tl[j] = ServerHello(tl[i].key)
  <2>1. CASE s = ch[i + 1].key
    BY <1>1, <2>1
  <2>2. ASSUME NEW j \in Positions(ch), j < i + 1, ch[j] = ServerHello(ch[i + 1].key), j # 1
        PROVE  \E l \in Positions(tl) : l < i /\ tl[l] = ServerHello(tl[i].key)
    <3>1. j - 1 \in Positions(tl) /\ j - 1 < i /\ (j - 1) + 1 = j
      BY <1>2, <2>2
    <3>2. tl[j - 1] = ch[j] /\ tl[i] = ch[i + 1]
      BY <1>1, <3>1
    <3> QED BY <2>2, <3>1, <3>2
  <2>3. \/ s = ch[i + 1].key
        \/ \E j \in Positions(ch) : j < i + 1 /\ ch[j] = ServerHello(ch[i + 1].key)
    BY <1>1, <1>6 DEF Ordered, HelloFirst
  <2> QED BY <1>1, <2>1, <2>2, <2>3
<1>7. ASSUME h.type # "server_hello" PROVE HelloFirst(tl, s)
  BY <1>6, <1>7 DEF HelloFirst, ServerHello
<1>8. ASSUME h.type = "finished" PROVE h.key = s /\ s # None
  <2>1. s = h.key
    BY <1>1, <1>2, <1>8 DEF Ordered, HelloFirst
  <2> QED BY <1>1, <1>3, <1>8, <2>1, KeysAreNumbers DEF Keyed
<1>9. ASSUME h.type = "server_hello" PROVE Ordered(tl, h.key, t)
  <2>1. NoOlder(tl, h.key)
    BY <1>5, <1>9 DEF NoOlder, Keyed
  <2>2. HelloFirst(tl, h.key)
    <3> SUFFICES ASSUME NEW i \in Positions(tl), tl[i].type = "finished"
                 PROVE  \/ h.key = tl[i].key
                        \/ \E j \in Positions(tl) : j < i /\ tl[j] = ServerHello(tl[i].key)
      BY DEF HelloFirst
    <3>1. CASE s = tl[i].key
      <4>1. tl[i] = ch[i + 1] /\ i + 1 \in Positions(ch) /\ Keyed(tl[i]) /\ Keyed(h)
        BY <1>1, <1>9 DEF Keyed
      <4>2. tl[i].key \in Nat /\ h.key \in Nat /\ tl[i].key # None
        BY <1>1, <1>3, <4>1, KeysAreNumbers
      <4>3. s <= h.key
        BY <1>1, <3>1, <4>1, <4>2 DEF Ordered, NoOlder
      <4>4. h.key <= tl[i].key
        BY <1>5, <4>1
      <4> QED BY <3>1, <4>2, <4>3, <4>4
    <3>2. CASE h = ServerHello(tl[i].key)
      BY <3>2 DEF ServerHello
    <3> QED BY <1>6, <3>1, <3>2
  <2> QED BY <1>4, <2>1, <2>2 DEF Ordered
<1> QED BY <1>4, <1>7, <1>8, <1>9 DEF h, tl, Ordered

\* An assignment at the end, under a key that is as new as any.
LEMMA AppendOrdered ==
  ASSUME NEW ch \in Seq(Datagrams), NEW s, NEW t, Ordered(ch, s, t),
         NEW m \in Datagrams, m.type = "ip_assign",
         \A o \in Contents(ch) : Keyed(o) => o.key <= m.key,
         s # None => s <= m.key, t # None => t <= m.key
  PROVE  Ordered(Append(ch, m), s, t)
<1> DEFINE new == Append(ch, m)
           n == Len(ch) + 1
<1>1. /\ Positions(new) = Positions(ch) \cup {n}
      /\ \A i \in Positions(ch) : new[i] = ch[i]
  <2>1. Positions(new) = Positions(ch) \cup {n}
    BY AppendPositions, Zenon
  <2>2. \A i \in Positions(ch) : new[i] = ch[i]
    BY DEF Positions
  <2> QED BY <2>1, <2>2
<1>2. new[n] = m
  BY AppendPositions, Zenon
<1>3. \A i \in Positions(ch) : i \in Nat /\ i < n
  BY DEF Positions
<1>4. n \in Nat /\ m.key \in Nat
  <2>1. m.key \in Keys
    BY DatagramShape
  <2>2. m.key \in Nat
    BY <2>1, KeysAreNumbers
  <2>3. n \in Nat
    OBVIOUS
  <2> QED BY <2>2, <2>3
<1> HIDE DEF new, n
<1>5. \A i \in Positions(ch) : Keyed(ch[i]) => ch[i].key <= m.key
  BY DEF Contents
<1>6. InKeyOrder(new)
  <2> SUFFICES ASSUME NEW i \in Positions(new), NEW j \in Positions(new), i < j,
                      Keyed(new[i]), Keyed(new[j])
               PROVE  new[i].key <= new[j].key
    BY DEF InKeyOrder
  <2>1. i \in Positions(ch)
    BY <1>1, <1>3, <1>4
  <2>2. CASE j \in Positions(ch)
    BY <1>1, <2>1, <2>2 DEF Ordered, InKeyOrder
  <2>3. CASE j = n
    BY <1>1, <1>2, <1>5, <2>1, <2>3
  <2> QED BY <1>1, <2>2, <2>3
<1>7. NoOlder(new, s) /\ NoOlder(new, t)
  BY <1>1, <1>2 DEF Ordered, NoOlder
<1>8. HelloFirst(new, s)
  BY <1>1, <1>2 DEF Ordered, HelloFirst
<1> QED BY <1>6, <1>7, <1>8 DEF Ordered, new

\* A newer key than all, first its hello and then its Finished.
LEMMA AnswersOrdered ==
  ASSUME NEW ch \in Seq(Datagrams), NEW s \in Keys \cup {None}, NEW t \in Keys \cup {None},
         Ordered(ch, s, t), NEW k \in Keys,
         \A m \in Contents(ch) : Keyed(m) => m.key <= k,
         s # None => s <= k, t # None => t <= k
  PROVE  Ordered(Append(Append(ch, ServerHello(k)), Finished(k)), s, t)
<1> DEFINE half == Append(ch, ServerHello(k))
           n == Len(ch) + 1
           new == Append(half, Finished(k))
<1>0. ServerHello(k) \in Datagrams /\ Finished(k) \in Datagrams /\ k \in Nat /\ n \in Nat
  BY KeysAreNumbers DEF Datagrams
<1>1. /\ Positions(half) = Positions(ch) \cup {n} /\ half \in Seq(Datagrams)
      /\ Len(half) = n /\ \A i \in Positions(ch) : half[i] = ch[i]
  <2>1. Positions(half) = Positions(ch) \cup {n}
    BY <1>0, AppendPositions, Zenon
  <2>2. half \in Seq(Datagrams) /\ Len(half) = n
    BY <1>0, AppendProperties
  <2>3. \A i \in Positions(ch) : half[i] = ch[i]
    BY <1>0 DEF Positions
  <2> QED BY <2>1, <2>2, <2>3
<1>2. half[n] = ServerHello(k)
  BY <1>0, AppendPositions, Zenon
<1>3. \A i \in Positions(ch) : i \in Nat /\ i < n
  BY DEF Positions
<1> HIDE DEF half, n
<1>4. /\ Positions(new) = Positions(half) \cup {n + 1}
      /\ \A i \in Positions(half) : new[i] = half[i]
  <2>1. Positions(new) = Positions(half) \cup {Len(half) + 1}
    BY <1>0, <1>1, AppendPositions, Zenon
  <2>2. \A i \in Positions(half) : new[i] = half[i]
    BY <1>0, <1>1 DEF Positions
  <2> QED BY <1>1, <2>1, <2>2
<1>5. new[n + 1] = Finished(k)
  <2>1. new[Len(half) + 1] = Finished(k)
    BY <1>0, <1>1, AppendProperties
  <2> QED BY <1>1, <2>1
<1> HIDE DEF new
<1>6. /\ Positions(new) = Positions(ch) \cup {n, n + 1}
      /\ \A i \in Positions(ch) : new[i] = ch[i]
      /\ new[n] = ServerHello(k)
  BY <1>1, <1>2, <1>4
<1>7. /\ ServerHello(k).key = k /\ Finished(k).key = k
      /\ ServerHello(k).type = "server_hello" /\ Finished(k).type = "finished"
  BY DEF ServerHello, Finished
<1>8. \A i \in Positions(ch) : Keyed(ch[i]) => ch[i].key <= k
  BY DEF Contents
<1>9. InKeyOrder(new)
  <2> SUFFICES ASSUME NEW i \in Positions(new), NEW j \in Positions(new), i < j,
                      Keyed(new[i]), Keyed(new[j])
               PROVE  new[i].key <= new[j].key
    BY DEF InKeyOrder
  <2>1. CASE j \in Positions(ch)
    <3>1. i \in Positions(ch)
      BY <1>0, <1>3, <1>6, <2>1
    <3> QED BY <1>6, <2>1, <3>1 DEF Ordered, InKeyOrder
  <2>2. CASE j \in {n, n + 1}
    <3>1. new[j].key = k
      BY <1>5, <1>6, <1>7, <2>2
    <3>2. new[i].key <= k
      BY <1>0, <1>5, <1>6, <1>7, <1>8
    <3> QED BY <3>1, <3>2
  <2> QED BY <1>6, <2>1, <2>2
<1>10. NoOlder(new, s) /\ NoOlder(new, t)
  BY <1>5, <1>6, <1>7 DEF Ordered, NoOlder
<1>11. HelloFirst(new, s)
  <2> SUFFICES ASSUME NEW i \in Positions(new), new[i].type = "finished"
               PROVE  \/ s = new[i].key
                      \/ \E j \in Positions(new) : j < i /\ new[j] = ServerHello(new[i].key)
    BY DEF HelloFirst
  <2>1. CASE i \in Positions(ch)
    BY <1>6, <2>1 DEF Ordered, HelloFirst
  <2>2. CASE i = n + 1
    <3>1. n \in Positions(new) /\ n < i
      BY <1>0, <1>6, <2>2
    <3> QED BY <1>5, <1>6, <1>7, <2>2, <3>1
  <2> QED BY <1>6, <1>7, <2>1, <2>2
<1> QED BY <1>9, <1>10, <1>11 DEF Ordered, new, half

\* A repetition.
LEMMA RepeatOrdered ==
  ASSUME NEW ch \in Seq(Datagrams), NEW s, NEW t, Ordered(ch, s, t),
         NEW kind \in FaultKinds, kind = "repeat", NEW new \in Disturbed(kind, ch)
  PROVE  Ordered(new, s, t)
<1>1. PICK From : CameFrom(new, ch, From) /\ InOrder(From, Positions(new)) /\ Onto(From, new, ch)
  BY FaultCameFrom
<1>2. new \in Seq(Datagrams) /\ Positions(new) \subseteq Nat /\ Positions(ch) \subseteq Nat
  BY FaultCameFrom DEF Positions
<1>3. \A i \in Positions(new) : From[i] \in Positions(ch) /\ new[i] = ch[From[i]]
  BY <1>1 DEF CameFrom
<1>4. \A i \in Positions(ch) : Keyed(ch[i]) => ch[i].key \in Nat
  <2>1. \A i \in Positions(ch) : ch[i] \in Datagrams
    BY DEF Positions
  <2> QED BY <2>1, DatagramShape, KeysAreNumbers DEF Keyed
<1>5. InKeyOrder(new)
  <2> SUFFICES ASSUME NEW i \in Positions(new), NEW j \in Positions(new), i < j,
                      Keyed(new[i]), Keyed(new[j])
               PROVE  new[i].key <= new[j].key
    BY DEF InKeyOrder
  <2>1. From[i] <= From[j] /\ From[i] \in Nat /\ From[j] \in Nat
    BY <1>1, <1>2, <1>3 DEF InOrder
  <2>2. CASE From[i] = From[j]
    BY <1>3, <1>4, <2>2
  <2>3. CASE From[i] < From[j]
    BY <1>3, <2>3 DEF Ordered, InKeyOrder
  <2> QED BY <2>1, <2>2, <2>3
<1>6. NoOlder(new, s) /\ NoOlder(new, t)
  BY <1>3 DEF Ordered, NoOlder
<1>7. HelloFirst(new, s)
  <2> SUFFICES ASSUME NEW i \in Positions(new), new[i].type = "finished", s # new[i].key
               PROVE  \E j \in Positions(new) : j < i /\ new[j] = ServerHello(new[i].key)
    BY DEF HelloFirst
  <2>1. PICK l \in Positions(ch) : l < From[i] /\ ch[l] = ServerHello(new[i].key)
    BY <1>3 DEF Ordered, HelloFirst
  <2>2. PICK j \in Positions(new) : From[j] = l
    BY <1>1 DEF Onto
  <2>3. j < i
    <3>1. i \in Nat /\ j \in Nat /\ From[i] \in Nat /\ l \in Nat
      BY <1>2, <1>3
    <3>2. i < j => From[i] <= l
      BY <1>1, <2>2 DEF InOrder
    <3> QED BY <2>1, <2>2, <3>1, <3>2
  <2> QED BY <1>3, <2>1, <2>2, <2>3
<1> QED BY <1>5, <1>6, <1>7 DEF Ordered

\* As long as nothing is lost or changes its place, the client meets the keys
\* in their order and each Finished with its hello, and refuses none.
LEMMA StepInOrder ==
  Typed /\ KeysBounded /\ InTheRightOrder /\ [Next]_vars => InTheRightOrder'
<1> SUFFICES ASSUME Typed, KeysBounded, InTheRightOrder, [Next]_vars, ~disturbed'
             PROVE  ~client.error' /\ Ordered(down', client.session', client.tunnel_key')
  BY DEF InTheRightOrder
<1> DEFINE s == client.session
           t == client.tunnel_key
<1>0. /\ s \in Keys \cup {None} /\ t \in Keys \cup {None} /\ down \in Seq(Datagrams)
      /\ client \in ClientRecord
  BY DEF Typed, ClientRecord
<1>1. ~disturbed
  BY DEF Next, ServerStep, HandleClientHello, HandleClientFinished, ClientStep,
         HandleServerHello, HandleServerFinished, HandleAssign, ReceiveEnds, StartStep,
         SendClientHello, HandshakeFails, HandshakeSucceeds, HandshakeTimesOut, StopTransport,
         ServerForgets, Fault, vars
<1>2. ~client.error /\ Ordered(down, s, t)
  BY <1>1 DEF InTheRightOrder
<1>3. CASE HandleClientHello
  <2> DEFINE k == server.derived + 1
  <2>1. /\ down' = Append(Append(down, ServerHello(k)), Finished(k)) /\ UNCHANGED client
        /\ k \in Keys
    BY <1>3, AnswersSent
  <2>2. server.derived \in Nat /\ \A n \in Nat : n <= server.derived => n <= k
    BY NumbersTyped
  <2>3. s # None => s <= k
    BY <2>2, SessionsAreNumbers DEF KeysBounded
  <2>4. t # None => t <= k
    BY <2>2, SessionsAreNumbers DEF KeysBounded
  <2>5. \A m \in Contents(down) : Keyed(m) => m.key <= k
    BY <2>2, DownTyped DEF KeysBounded
  <2> HIDE DEF k, s, t
  <2>6. Ordered(down', s, t)
    BY <1>0, <1>2, <2>1, <2>3, <2>4, <2>5, AnswersOrdered
  <2> QED BY <1>2, <2>1, <2>6 DEF s, t
<1>4. CASE HandleClientFinished
  <2>1. /\ UNCHANGED client
        /\ \/ UNCHANGED down
           \/ /\ server.session # None
              /\ \E m \in Datagrams : /\ m.type = "ip_assign" /\ m.key = server.session
                                      /\ down' = Append(down, m)
    BY <1>4, ClientFinishedHandled
  <2>2. ASSUME NEW m \in Datagrams, m.type = "ip_assign", m.key = server.session,
               server.session # None, down' = Append(down, m)
        PROVE  Ordered(down', s, t)
    <3>1. m.key = server.derived
      BY <2>2, SessionsAreNumbers
    <3>2. /\ \A o \in Contents(down) : Keyed(o) => o.key <= m.key
          /\ s # None => s <= m.key
          /\ t # None => t <= m.key
      BY <3>1 DEF KeysBounded
    <3> HIDE DEF s, t
    <3> QED BY <1>0, <1>2, <2>2, <3>2, AppendOrdered
  <2> QED BY <1>2, <2>1, <2>2
<1>5. CASE ClientStep
  <2>1. CASE UNCHANGED down /\ SameKeys
    BY <1>2, <2>1 DEF SameKeys
  <2>2. ASSUME down # <<>>, down' = Tail(down)
        PROVE  /\ Head(down).type = "ip_assign" => Ordered(down', s, t)
               /\ Head(down).type = "server_hello" => Ordered(down', Head(down).key, t)
               /\ Head(down).type = "finished" =>
                    Head(down).key = s /\ s # None /\ Ordered(down', s, s)
    <3> HIDE DEF s, t
    <3> QED BY <1>0, <1>2, <2>2, TailOrdered
  <2>3. CASE down # <<>> /\ down' = Tail(down) /\ Head(down).type = "ip_assign" /\ SameKeys
    BY <1>2, <2>2, <2>3 DEF SameKeys
  <2>4. CASE down # <<>> /\ down' = Tail(down) /\ TakesHello
    BY <1>2, <2>2, <2>4 DEF TakesHello
  <2>5. CASE down # <<>> /\ down' = Tail(down) /\ TakesFinished
    BY <1>2, <2>2, <2>5 DEF TakesFinished
  <2>6. ~(down # <<>> /\ down' = Tail(down) /\ RefusesFinished)
    BY <2>2 DEF RefusesFinished
  <2> QED BY <1>5, <2>1, <2>3, <2>4, <2>5, <2>6, ClientCases
<1>6. CASE StartStep \/ StopTransport \/ UNCHANGED vars
  <2>1. /\ UNCHANGED down /\ client'.session = s /\ client'.tunnel_key = t
        /\ client'.error = client.error
    BY <1>0, <1>6 DEF StartStep, SendClientHello, HandshakeFails, HandshakeSucceeds,
         HandshakeTimesOut, StopTransport, vars, ClientRecord
  <2> QED BY <1>2, <2>1
<1>7. CASE Fault
  <2>1. UNCHANGED client
    BY <1>7 DEF Fault
  <2>2. PICK kind \in FaultKinds :
          /\ disturbed' = (disturbed \/ kind # "repeat")
          /\ down' \in Disturbed(kind, down) \/ UNCHANGED down
    BY <1>7 DEF Fault
  <2>3. Ordered(down', s, t)
    BY <1>0, <1>2, <2>2, RepeatOrdered
  <2> QED BY <1>2, <2>1, <2>3
<1>8. CASE ServerForgets
  BY <1>2, <1>8 DEF ServerForgets
<1> QED BY <1>3, <1>4, <1>5, <1>6, <1>7, <1>8 DEF Next, ServerStep

\* So it is from the start.
LEMMA InTheRightOrderHolds == Spec => []InTheRightOrder
<1>1. Init => InTheRightOrder
  BY DEF Init, InTheRightOrder, Ordered, InKeyOrder, NoOlder, HelloFirst, Positions
<1> QED BY <1>1, StepInOrder, TypesHold, KeysBoundedHolds, PTL DEF Spec

\* A network that only repeats never makes the handshake of a client with the
\* right PSK fail: _handle_server_finished of src/vpn_client.py always has the
\* session that the Finished is for.
THEOREM NeverFailsSpuriously == Spec => []NoSpuriousFailure
BY InTheRightOrderHolds, PTL DEF InTheRightOrder, NoSpuriousFailure

-----------------------------------------------------------------------------
(* Both ends' keys, with a network that only repeats.                      *)

\* Nobody but the server's handler of a Finished takes one out of up.
LEMMA UpKeepsFinished ==
  ASSUME Typed, [Next]_vars, ~HandleClientFinished, ~disturbed'
  PROVE  \A m \in Contents(up) : m.type = "finished" => m \in Contents(up')
<1>0. up \in Seq(Datagrams)
  BY DEF Typed
<1>1. CASE UNCHANGED up
  BY <1>1
<1>2. CASE HandleClientHello
  <2>1. up # <<>> /\ Head(up).type = "client_hello" /\ up' = Tail(up)
    BY <1>2 DEF HandleClientHello
  <2> QED BY <1>0, <2>1, TailContents
<1>3. CASE ClientStep
  <2>1. CASE client.session \in Keys /\ up' = Sent(Finished(client.session))
    <3>1. Finished(client.session) \in Datagrams
      BY <2>1 DEF Datagrams
    <3> QED BY <1>0, <2>1, <3>1, AppendContents DEF Sent
  <2>2. TakesFinished => client.session \in Keys /\ up' = Sent(Finished(client.session))
    BY DEF TakesFinished, Typed, ClientRecord
  <2> QED BY <1>1, <1>3, <2>1, <2>2, ClientCases DEF SameKeys, TakesHello, RefusesFinished
<1>4. CASE SendClientHello
  <2>1. up' = Append(up, ClientHello) /\ ClientHello \in Datagrams
    BY <1>4 DEF SendClientHello, Datagrams
  <2> QED BY <1>0, <2>1, AppendContents
<1>5. CASE Fault
  <2>1. PICK kind \in FaultKinds :
          /\ disturbed' = (disturbed \/ kind # "repeat")
          /\ up' \in Disturbed(kind, up) \/ UNCHANGED up
    BY <1>5 DEF Fault
  <2> QED BY <1>0, <2>1, FaultContents
<1> QED BY <1>1, <1>2, <1>3, <1>4, <1>5
        DEF Next, ServerStep, ServerForgets, StartStep, HandshakeFails, HandshakeSucceeds,
            HandshakeTimesOut, StopTransport, vars

\* The server's last key goes to the client and comes back.
LEMMA StepUnderWay ==
  Typed /\ KeysBounded /\ InTheRightOrder /\ KeyIsUnderWay /\ [Next]_vars => KeyIsUnderWay'
<1> SUFFICES ASSUME Typed, KeysBounded, InTheRightOrder, KeyIsUnderWay, [Next]_vars,
                    ~disturbed', client'.sock, server'.session # None
             PROVE  /\ \/ client'.tunnel_key = server'.session
                       \/ Finished(server'.session) \in Contents(down')
                    /\ client'.tunnel_key = server'.session =>
                         \/ server'.tunnel_key = server'.session
                         \/ Finished(server'.session) \in Contents(up')
  BY DEF KeyIsUnderWay
<1>0. /\ up \in Seq(Datagrams) /\ down \in Seq(Datagrams) /\ client \in ClientRecord
      /\ server \in ServerRecord
  BY DEF Typed
<1>1. ~disturbed /\ client.sock
  <2>1. CASE ClientStep
    <3>1. UNCHANGED disturbed /\ client'.sock = client.sock
      BY <2>1, ClientCases
    <3> QED BY <3>1, Zenon
  <2>2. CASE ServerStep \/ ServerForgets
    BY <2>2 DEF ServerStep, HandleClientHello, HandleClientFinished, ServerForgets
  <2>3. CASE StartStep \/ Fault \/ UNCHANGED vars
    <3>1. UNCHANGED client
      BY <2>3 DEF StartStep, SendClientHello, HandshakeFails, HandshakeSucceeds,
           HandshakeTimesOut, Fault, vars
    <3>2. disturbed => disturbed'
      BY <2>3 DEF StartStep, SendClientHello, HandshakeFails, HandshakeSucceeds,
           HandshakeTimesOut, Fault, vars
    <3> QED BY <3>1, <3>2
  <2>4. CASE StopTransport
    BY <2>4 DEF StopTransport
  <2> QED BY <2>1, <2>2, <2>3, <2>4 DEF Next
<1>2. server.session # None =>
        /\ client.tunnel_key = server.session \/ Finished(server.session) \in Contents(down)
        /\ client.tunnel_key = server.session =>
             \/ server.tunnel_key = server.session
             \/ Finished(server.session) \in Contents(up)
  BY <1>1 DEF KeyIsUnderWay
<1>3. Finished(server.session).type = "finished" /\ Finished(server.session).key = server.session
  BY DEF Finished
<1>4. CASE HandleClientHello
  <2> DEFINE k == server.derived + 1
  <2>1. /\ server'.session = k /\ UNCHANGED client /\ k \in Nat
        /\ Finished(k) \in Contents(down')
    BY <1>4, AnswersSent
  <2>2. server.derived \in Nat /\ ~(k <= server.derived)
    BY NumbersTyped
  <2>3. client.tunnel_key # k
    BY <2>1, <2>2, HandshakeAssumption DEF KeysBounded
  <2> QED BY <2>1, <2>3
<1>5. CASE HandleClientFinished
  <2>1. /\ UNCHANGED client /\ server'.session = server.session
        /\ up # <<>> /\ up' = Tail(up)
        /\ \/ server.session # Head(up).key /\ UNCHANGED server
           \/ server'.tunnel_key = server.session
    BY <1>5, ClientFinishedHandled
  <2>2. Contents(down) \subseteq Contents(down')
    <3>1. CASE UNCHANGED down
      BY <3>1
    <3>2. ASSUME NEW m \in Datagrams, down' = Append(down, m)
          PROVE  Contents(down) \subseteq Contents(down')
      BY <1>0, <3>2, AppendContents
    <3> QED BY <1>5, <3>1, <3>2, ClientFinishedHandled
  <2>3. Contents(up) = Contents(up') \cup {Head(up)}
    BY <1>0, <2>1, TailContents
  <2> QED BY <1>2, <1>3, <2>1, <2>2, <2>3
<1>6. CASE ServerForgets
  <2>1. server'.session = None
    BY <1>0, <1>6 DEF ServerForgets, ServerRecord
  <2> QED BY <2>1
<1>7. CASE ~HandleClientHello /\ ~HandleClientFinished /\ ~ServerForgets
  <2>1. \A m \in Contents(up) : m.type = "finished" => m \in Contents(up')
    BY <1>7, UpKeepsFinished
  <2>2. UNCHANGED server
    BY <1>7, ClientCases DEF Next, ServerStep, StartStep, SendClientHello, HandshakeFails,
         HandshakeSucceeds, HandshakeTimesOut, StopTransport, Fault, vars
  <2>3. CASE /\ client'.tunnel_key = client.tunnel_key
             /\ Finished(server.session) \in Contents(down) =>
                  Finished(server.session) \in Contents(down')
    BY <1>2, <1>3, <2>1, <2>2, <2>3
  <2>4. CASE StartStep \/ StopTransport \/ UNCHANGED vars
    <3>1. client'.tunnel_key = client.tunnel_key /\ UNCHANGED down
      BY <1>0, <2>4 DEF StartStep, SendClientHello, HandshakeFails,
           HandshakeSucceeds, HandshakeTimesOut, StopTransport, vars, ClientRecord
    <3> QED BY <2>3, <3>1
  <2>5. CASE Fault
    <3>1. client'.tunnel_key = client.tunnel_key
      BY <2>5 DEF Fault
    <3>2. PICK kind \in FaultKinds :
            /\ disturbed' = (disturbed \/ kind # "repeat")
            /\ down' \in Disturbed(kind, down) \/ UNCHANGED down
      BY <2>5 DEF Fault
    <3>3. Contents(down') = Contents(down)
      BY <1>0, <3>2, FaultContents
    <3> QED BY <2>3, <3>1, <3>3
  <2>6. CASE ClientStep
    <3>1. CASE UNCHANGED down /\ SameKeys
      BY <2>3, <3>1 DEF SameKeys
    <3>2. CASE /\ down # <<>> /\ down' = Tail(down)
               /\ (Head(down).type = "ip_assign" /\ SameKeys) \/ TakesHello
      <4>1. Contents(down) = Contents(down') \cup {Head(down)}
        BY <1>0, <3>2, TailContents
      <4>2. Head(down).type # "finished" /\ client'.tunnel_key = client.tunnel_key
        BY <3>2 DEF SameKeys, TakesHello
      <4> QED BY <1>3, <2>3, <4>1, <4>2
    <3>3. CASE down # <<>> /\ down' = Tail(down) /\ RefusesFinished
      <4>1. /\ client.session \in Keys \cup {None} /\ client.tunnel_key \in Keys \cup {None}
            /\ Ordered(down, client.session, client.tunnel_key)
        BY <1>0, <1>1 DEF ClientRecord, InTheRightOrder
      <4>2. Head(down).key = client.session
        BY <1>0, <3>3, <4>1, TailOrdered DEF RefusesFinished
      <4> QED BY <3>3, <4>2 DEF RefusesFinished
    <3>4. CASE down # <<>> /\ down' = Tail(down) /\ TakesFinished
      <4>1. /\ Contents(down) = Contents(down') \cup {Head(down)}
            /\ Head(down) \in Datagrams
        BY <1>0, <3>4, TailContents
      <4>2. /\ Head(down) = Finished(client.session) /\ client.session \in Keys
            /\ client'.tunnel_key = client.session
            /\ up' = Append(up, Finished(client.session))
        <5>1. Head(down) = Finished(client.session)
          BY <3>4, <4>1, DatagramShape DEF TakesFinished
        <5>2. client.session \in Keys
          BY <1>0, <3>4 DEF TakesFinished, ClientRecord
        <5> QED BY <1>1, <3>4, <5>1, <5>2 DEF TakesFinished, Sent
      <4>3. Finished(client.session) \in Contents(up')
        <5>1. Finished(client.session) \in Datagrams
          BY <4>2 DEF Datagrams
        <5> QED BY <1>0, <4>2, <5>1, AppendContents
      <4>4. CASE client.session = server.session
        BY <2>2, <4>2, <4>3, <4>4
      <4>5. CASE client.session # server.session
        <5>1. Head(down) # Finished(server.session)
          BY <4>2, <4>5 DEF Finished
        <5>2. client.tunnel_key # server.session
          <6>1. 1 \in Positions(down) /\ Head(down) = down[1] /\ Head(down).key = client.session
            BY <1>0, <3>4, TailCameFrom DEF TakesFinished
          <6>2. Keyed(Head(down)) /\ Head(down) \in Contents(down)
            BY <3>4, <6>1 DEF TakesFinished, Keyed, Contents
          <6>3. client.tunnel_key # None => client.tunnel_key <= client.session
            BY <1>1, <6>1, <6>2 DEF InTheRightOrder, Ordered, NoOlder
          <6>4. client.session <= server.derived
            BY <6>1, <6>2 DEF KeysBounded
          <6>5. server.session = server.derived /\ server.derived \in Nat
            BY <2>2, SessionsAreNumbers
          <6>6. client.session \in Nat
            BY <4>2, KeysAreNumbers
          <6>7. server.session # None
            BY <2>2
          <6> QED BY <4>5, <6>3, <6>4, <6>5, <6>6, <6>7
        <5>3. Finished(server.session) \in Contents(down')
          BY <1>2, <2>2, <4>1, <5>1, <5>2
        <5> QED BY <2>2, <4>2, <4>5, <5>3
      <4> QED BY <4>4, <4>5
    <3> QED BY <2>6, <3>1, <3>2, <3>3, <3>4, ClientCases
  <2> QED BY <1>7, <2>4, <2>5, <2>6 DEF Next, ServerStep
<1> QED BY <1>4, <1>5, <1>6, <1>7

\* With a network that only repeats, both ends hold the same key whenever
\* nothing is under way, the client is there to answer and the server has not
\* dropped its entry: no handshake
\* leaves the server of src/vpn_server.py encrypting under one key and the
\* client of src/vpn_client.py decrypting under another.
THEOREM KeysAgree == Spec => []KeysAgreeAtRest
<1>1. Init => KeyIsUnderWay
  BY DEF Init, KeyIsUnderWay
<1>2. Spec => []KeyIsUnderWay
  BY <1>1, StepUnderWay, TypesHold, KeysBoundedHolds, InTheRightOrderHolds, PTL DEF Spec
<1>3. Typed /\ KeysBounded /\ KeyIsUnderWay => KeysAgreeAtRest
  <2> SUFFICES ASSUME Typed, KeysBounded, KeyIsUnderWay,
                      ~disturbed, client.sock, server.session # None, up = <<>>, down = <<>>
               PROVE  client.tunnel_key = server.tunnel_key
    BY DEF KeysAgreeAtRest
  <2>1. Contents(up) = {} /\ Contents(down) = {}
    BY DEF Contents, Positions
  <2> QED BY <2>1 DEF KeyIsUnderWay
<1> QED BY <1>2, <1>3, TypesHold, KeysBoundedHolds, PTL

-----------------------------------------------------------------------------
(* The lease, with a network that only repeats.                            *)

\* The client has the key of every assignment that is under way to it, and
\* has had the key of every Finished of its own; its window is as new as long
\* as it has no address, and then an address that is leased to it is on its
\* way.
LeaseIsUnderWay ==
  ~disturbed =>
    /\ \A m \in Contents(down) : m.type = "ip_assign" => m.key = client.tunnel_key
    /\ \A m \in Contents(up) :
         m.type = "finished" => client.tunnel_key # None /\ m.key <= client.tunnel_key
    /\ client.assigned = 0 => client.rx = FreshWindow
    /\ client.sock /\ server.leased /\ client.assigned = 0 =>
         \E m \in Contents(down) : m.type = "ip_assign"

\* A new window admits every number.
LEMMA FreshAdmits == \A n \in Nat : Admits(FreshWindow, n)
BY WindowAssumption DEF Admits, FreshWindow

\* The client: a new key is not newer than an assignment behind it, and the
\* first assignment has a key it knows and a number it admits.
LEMMA ClientStepUnderWay ==
  ASSUME Typed, KeysBounded, InTheRightOrder, LeaseIsUnderWay, ClientStep, ~disturbed
  PROVE  LeaseIsUnderWay'
<1> DEFINE s == client.session
           t == client.tunnel_key
<1>0. /\ client \in ClientRecord /\ up \in Seq(Datagrams) /\ down \in Seq(Datagrams)
      /\ s \in Keys \cup {None} /\ t \in Keys \cup {None} /\ Ordered(down, s, t)
  BY DEF Typed, ClientRecord, InTheRightOrder
<1>1. UNCHANGED server /\ client'.sock = client.sock
  BY ClientCases
<1>2. CASE ReceiveEnds
  <2>1. UNCHANGED <<up, down>> /\ client'.tunnel_key = client.tunnel_key
    BY <1>0, <1>2 DEF ReceiveEnds, ClientRecord
  <2> QED BY <1>1, <1>2, <2>1, OnlyAssignsCount DEF LeaseIsUnderWay
<1>3. CASE HandleServerHello
  <2>1. /\ down # <<>> /\ down' = Tail(down) /\ Head(down).type = "server_hello"
        /\ UNCHANGED up
    BY <1>3 DEF HandleServerHello, Handles
  <2>2. client'.tunnel_key = client.tunnel_key
    BY <1>0, <1>3 DEF HandleServerHello, Handled, ClientRecord
  <2>3. Contents(down) = Contents(down') \cup {Head(down)}
    BY <1>0, <2>1, TailContents
  <2>4. client'.rx = client.rx /\ client'.assigned = client.assigned
    BY <1>3, OnlyAssignsCount
  <2> QED BY <1>1, <2>1, <2>2, <2>3, <2>4 DEF LeaseIsUnderWay
<1>4. CASE HandleServerFinished
  <2>1. /\ down # <<>> /\ down' = Tail(down) /\ Head(down).type = "finished"
    BY <1>4 DEF HandleServerFinished, Handles
  <2>2. Contents(down) = Contents(down') \cup {Head(down)}
    BY <1>0, <2>1, TailContents
  <2>3. client'.rx = client.rx /\ client'.assigned = client.assigned
    BY <1>4, OnlyAssignsCount
  <2>4. /\ client.assigned = 0 => client'.rx = FreshWindow
        /\ client.sock /\ server.leased /\ client.assigned = 0 =>
             \E m \in Contents(down') : m.type = "ip_assign"
    BY <2>1, <2>2, <2>3 DEF LeaseIsUnderWay
  <2>5. CASE TakesFinished
    <3>1. Head(down).key = s /\ s # None /\ Ordered(down', s, s) /\ s \in Keys
      <4> HIDE DEF s, t
      <4> QED BY <1>0, <2>1, TailOrdered
    <3>2. t # None => t <= s
      <4>1. 1 \in Positions(down) /\ Head(down) = down[1] /\ Keyed(Head(down))
        BY <1>0, <2>1, TailCameFrom DEF Keyed
      <4> QED BY <1>0, <3>1, <4>1 DEF Ordered, NoOlder
    <3>3. client'.tunnel_key = s /\ up' = Sent(Finished(s))
      BY <2>5 DEF TakesFinished
    <3>4. \A m \in Contents(down') : m.type = "ip_assign" => m.key = s
      <4> SUFFICES ASSUME NEW m \in Contents(down'), m.type = "ip_assign" PROVE m.key = s
        OBVIOUS
      <4>1. m.key = t /\ Keyed(m) /\ m.key \in Keys /\ m.key \in Nat
        BY <2>2, DownTyped DEF LeaseIsUnderWay, Keyed
      <4>2. s <= m.key
        BY <3>1, <4>1 DEF Contents, Ordered, NoOlder
      <4>3. m.key <= s /\ s \in Nat
        BY <3>1, <3>2, <4>1, KeysAreNumbers
      <4> QED BY <4>1, <4>2, <4>3
    <3>5. \A m \in Contents(up') : m.type = "finished" => m.key <= s
      <4>1. Contents(up') \subseteq Contents(up) \cup {Finished(s)}
        <5>1. Finished(s) \in Datagrams
          BY <3>1 DEF Datagrams
        <5> HIDE DEF s
        <5> QED BY <1>0, <3>3, <5>1, AppendContents DEF Sent
      <4>2. Finished(s).key = s /\ s \in Nat
        BY <3>1, KeysAreNumbers DEF Finished
      <4>3. ASSUME NEW m \in Contents(up), m.type = "finished" PROVE m.key <= s
        <5>1. t # None /\ m.key <= t
          BY <4>3 DEF LeaseIsUnderWay
        <5>2. t \in Nat /\ m.key \in Nat
          <6>1. m \in Datagrams
            BY <1>0 DEF Contents, Positions
          <6> QED BY <1>0, <4>3, <5>1, <6>1, DatagramShape, KeysAreNumbers
        <5> QED BY <3>2, <4>2, <5>1, <5>2
      <4> QED BY <4>1, <4>2, <4>3
    <3> QED BY <1>1, <2>3, <2>4, <3>1, <3>3, <3>4, <3>5 DEF LeaseIsUnderWay
  <2>6. CASE UNCHANGED up /\ client'.tunnel_key = client.tunnel_key
    BY <1>1, <2>2, <2>3, <2>4, <2>6 DEF LeaseIsUnderWay
  <2>7. TakesFinished \/ (UNCHANGED up /\ client'.tunnel_key = client.tunnel_key)
    BY ClientCases DEF SameKeys, TakesHello, RefusesFinished
  <2> QED BY <2>5, <2>6, <2>7
<1>5. CASE HandleAssign
  <2>1. /\ down # <<>> /\ down' = Tail(down) /\ Head(down).type = "ip_assign"
        /\ UNCHANGED up
    BY <1>5 DEF HandleAssign, Handles
  <2>2. Contents(down) = Contents(down') \cup {Head(down)} /\ Head(down) \in Datagrams
    BY <1>0, <2>1, TailContents
  <2>3. /\ Head(down).key = client.tunnel_key /\ Head(down).key # None
        /\ Head(down).seq \in Nat
    BY <2>1, <2>2, DatagramShape, KeysAreNumbers DEF LeaseIsUnderWay
  <2>4. client'.tunnel_key = client.tunnel_key
    BY <1>0, <1>5 DEF HandleAssign, IgnoreAssign, BurnNumber, ApplyAssign, Handled, ClientRecord
  <2>5. client'.assigned # 0
    <3>1. client.assigned = 0 => Admits(client.rx, Head(down).seq)
      BY <2>3, FreshAdmits DEF LeaseIsUnderWay
    <3>2. CASE IgnoreAssign
      <4>1. client.assigned # 0
        BY <2>3, <3>1, <3>2 DEF IgnoreAssign
      <4> QED BY <1>0, <3>2, <4>1 DEF IgnoreAssign, Handled, ClientRecord
    <3>3. CASE ApplyAssign
      <4>1. client'.assigned = client.assigned + 1 /\ client.assigned \in Nat
        BY <1>0, <3>3 DEF ApplyAssign, Handled, ClientRecord
      <4> QED BY <4>1
    <3>4. ~BurnNumber
      BY <2>3 DEF BurnNumber
    <3> QED BY <1>5, <3>2, <3>3, <3>4 DEF HandleAssign
  <2> QED BY <2>1, <2>2, <2>4, <2>5 DEF LeaseIsUnderWay
<1> QED BY <1>2, <1>3, <1>4, <1>5 DEF ClientStep

\* The server, start(), stop() and the network.
LEMMA StepLeaseUnderWay ==
  Typed /\ KeysBounded /\ InTheRightOrder /\ LeaseIsUnderWay /\ [Next]_vars
    => LeaseIsUnderWay'
<1> SUFFICES ASSUME Typed, KeysBounded, InTheRightOrder, LeaseIsUnderWay, [Next]_vars,
                    ~disturbed'
             PROVE  LeaseIsUnderWay'
  BY DEF LeaseIsUnderWay
<1>0. /\ up \in Seq(Datagrams) /\ down \in Seq(Datagrams) /\ client \in ClientRecord
      /\ server \in ServerRecord
  BY DEF Typed
<1>1. ~disturbed
  BY DEF Next, ServerStep, HandleClientHello, HandleClientFinished, ServerForgets, ClientStep,
         HandleServerHello, HandleServerFinished, HandleAssign, ReceiveEnds, StartStep,
         SendClientHello, HandshakeFails, HandshakeSucceeds, HandshakeTimesOut, StopTransport,
         Fault, vars
<1>2. CASE HandleClientHello
  <2>1. /\ Contents(down') = Contents(down) \cup
             {ServerHello(server.derived + 1), Finished(server.derived + 1)}
        /\ UNCHANGED client
    BY <1>2, AnswersSent
  <2>2. /\ ServerHello(server.derived + 1).type # "ip_assign"
        /\ Finished(server.derived + 1).type # "ip_assign"
    BY DEF ServerHello, Finished
  <2>3. Contents(up') \subseteq Contents(up)
    BY <1>0, <1>2, TailContents DEF HandleClientHello
  <2>4. server'.leased = server.leased
    BY <1>0, <1>2 DEF HandleClientHello, ServerRecord
  <2> QED BY <1>1, <2>1, <2>2, <2>3, <2>4 DEF LeaseIsUnderWay
<1>3. CASE HandleClientFinished
  <2>1. /\ UNCHANGED client /\ up # <<>> /\ up' = Tail(up) /\ Head(up).type = "finished"
    BY <1>3, ClientFinishedHandled
  <2>2. Contents(up) = Contents(up') \cup {Head(up)} /\ Head(up) \in Datagrams
    BY <1>0, <2>1, TailContents
  <2>3. CASE UNCHANGED down /\ server'.leased = server.leased
    BY <1>1, <2>1, <2>2, <2>3 DEF LeaseIsUnderWay
  <2>4. ASSUME NEW m \in Datagrams, m.type = "ip_assign", m.key = server.session,
               server.session = Head(up).key, server.session # None, down' = Append(down, m)
        PROVE  LeaseIsUnderWay'
    <3>1. client.tunnel_key # None /\ m.key <= client.tunnel_key
      BY <1>1, <2>1, <2>2, <2>4 DEF LeaseIsUnderWay
    <3>2. client.tunnel_key <= server.derived /\ m.key = server.derived
      BY <2>4, <3>1, SessionsAreNumbers DEF KeysBounded
    <3>3. m.key = client.tunnel_key
      BY <3>1, <3>2, SessionsAreNumbers
    <3>4. Contents(down') = Contents(down) \cup {m}
      BY <1>0, <2>4, AppendContents
    <3> QED BY <1>1, <2>1, <2>2, <2>4, <3>3, <3>4 DEF LeaseIsUnderWay
  <2> QED BY <1>3, <2>3, <2>4, ClientFinishedHandled
<1>4. CASE ServerForgets
  <2>1. ~server'.leased /\ UNCHANGED <<client, up, down>>
    BY <1>0, <1>4 DEF ServerForgets, ServerRecord
  <2> QED BY <1>1, <2>1 DEF LeaseIsUnderWay
<1>5. CASE ClientStep
  BY <1>1, <1>5, ClientStepUnderWay
<1>6. CASE StartStep \/ StopTransport \/ UNCHANGED vars
  <2>1. /\ UNCHANGED <<server, down>> /\ client'.tunnel_key = client.tunnel_key
        /\ client'.sock => client.sock
        /\ client'.rx = client.rx /\ client'.assigned = client.assigned
    BY <1>0, <1>6 DEF StartStep, SendClientHello, HandshakeFails, HandshakeSucceeds,
         HandshakeTimesOut, StopTransport, vars, ClientRecord
  <2>2. \A m \in Contents(up') : m.type = "finished" => m \in Contents(up)
    <3>1. CASE SendClientHello
      <4>1. up' = Append(up, ClientHello) /\ ClientHello \in Datagrams
        BY <3>1 DEF SendClientHello, Datagrams
      <4>2. Contents(up') = Contents(up) \cup {ClientHello}
        BY <1>0, <4>1, AppendContents
      <4> QED BY <4>2 DEF ClientHello
    <3>2. CASE UNCHANGED up
      BY <3>2
    <3> QED BY <1>6, <3>1, <3>2 DEF StartStep, HandshakeFails, HandshakeSucceeds,
               HandshakeTimesOut, StopTransport, vars
  <2> QED BY <1>1, <2>1, <2>2 DEF LeaseIsUnderWay
<1>7. CASE Fault
  <2>1. UNCHANGED <<server, client>>
    BY <1>7 DEF Fault
  <2>2. Contents(up') = Contents(up) /\ Contents(down') = Contents(down)
    <3>1. PICK kind \in FaultKinds :
            /\ disturbed' = (disturbed \/ kind # "repeat")
            /\ \/ up' \in Disturbed(kind, up) /\ UNCHANGED down
               \/ down' \in Disturbed(kind, down) /\ UNCHANGED up
      BY <1>7 DEF Fault
    <3> QED BY <1>0, <3>1, FaultContents
  <2> QED BY <1>1, <2>1, <2>2 DEF LeaseIsUnderWay
<1> QED BY <1>2, <1>3, <1>4, <1>5, <1>6, <1>7 DEF Next, ServerStep

\* With a network that only repeats, an address that the server of
\* src/vpn_server.py keeps leased to a client that is there to answer is one
\* that the client has set up once nothing is under way: neither a repeated
\* handshake nor a key change leaves an assignment that it cannot read.
THEOREM LeaseTakenUp == Spec => []LeaseIsTakenUp
<1>1. Init => LeaseIsUnderWay
  BY DEF Init, LeaseIsUnderWay, Contents, Positions
<1>2. Spec => []LeaseIsUnderWay
  BY <1>1, StepLeaseUnderWay, TypesHold, KeysBoundedHolds, InTheRightOrderHolds, PTL DEF Spec
<1>3. Typed /\ LeaseIsUnderWay => LeaseIsTakenUp
  <2> SUFFICES ASSUME Typed, LeaseIsUnderWay, ~disturbed, client.sock, server.leased,
                      up = <<>>, down = <<>>
               PROVE  client.assigned > 0
    BY DEF LeaseIsTakenUp
  <2>1. Contents(down) = {} /\ client.assigned \in Nat
    BY DEF Contents, Positions, Typed, ClientRecord
  <2> QED BY <2>1 DEF LeaseIsUnderWay
<1> QED BY <1>2, <1>3, TypesHold, PTL

=============================================================================
