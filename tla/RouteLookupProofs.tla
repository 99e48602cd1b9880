------------------------- MODULE RouteLookupProofs --------------------------
(***************************************************************************)
(* What the route table guarantees for addresses of any width and tables   *)
(* of any length: lookup is the longest match, bit by bit, and adding and  *)
(* removing routes moves only the addresses it should.                     *)
(*                                                                         *)
(* The search and the list comprehension are folds, so the facts about     *)
(* them are shown by induction on the length of the list.                  *)
(***************************************************************************)
EXTENDS RouteLookup, WellFoundedInduction, TLAPS

-----------------------------------------------------------------------------
(* Induction.                                                              *)

\* A set of numbers that holds 0 and with each number the next holds them all:
\* were one missing, so would be a smallest one.
LEMMA Induct ==
  ASSUME NEW S, 0 \in S, \A n \in Nat : n \in S => n + 1 \in S
  PROVE  Nat \subseteq S
<1> DEFINE Less == OpToRel(<, Nat)
           Missing == Nat \ S
<1>1. IsWellFoundedOn(Less, Nat)
  BY NatLessThanWellFounded
<1>2. \A x, y \in Nat : x < y => <<x, y>> \in Less
  BY DEF OpToRel
<1>3. SUFFICES ASSUME Missing # {} PROVE FALSE
  OBVIOUS
<1>4. Missing \subseteq Nat
  OBVIOUS
<1> HIDE DEF Less, Missing
<1>5. PICK x \in Missing : \A y \in Missing : ~(<<y, x>> \in Less)
  BY <1>1, <1>3, <1>4, WFMin
<1>6. x \in Nat /\ x # 0
  BY <1>5 DEF Missing
<1>7. x - 1 \in Nat /\ x - 1 < x /\ (x - 1) + 1 = x
  BY <1>6
<1>8. x - 1 \notin Missing
  BY <1>2, <1>5, <1>6, <1>7
<1> QED BY <1>5, <1>7, <1>8 DEF Missing

-----------------------------------------------------------------------------
(* Powers of two.                                                          *)

\* There is a function with the equation of PowerOfTwo, up to any number.
LEMMA PowersExist ==
  ASSUME NEW n \in Nat
  PROVE  \E g : g = [k \in 0..n |-> IF k = 0 THEN 1 ELSE 2 * g[k - 1]]
<1> DEFINE Exists(m) == \E g : g = [k \in 0..m |-> IF k = 0 THEN 1 ELSE 2 * g[k - 1]]
           S == {m \in Nat : Exists(m)}
<1>1. Exists(0)
  <2> DEFINE g == [k \in 0..0 |-> 1]
  <2>1. g = [k \in 0..0 |-> IF k = 0 THEN 1 ELSE 2 * g[k - 1]]
    OBVIOUS
  <2> QED BY <2>1
<1>2. ASSUME NEW m \in Nat, Exists(m) PROVE Exists(m + 1)
  <2>1. PICK g : g = [k \in 0..m |-> IF k = 0 THEN 1 ELSE 2 * g[k - 1]]
    BY <1>2
  <2> DEFINE h == [k \in 0..(m + 1) |-> IF k = m + 1 THEN 2 * g[m] ELSE g[k]]
  <2>2. ASSUME NEW k \in 0..(m + 1)
        PROVE  h[k] = IF k = 0 THEN 1 ELSE 2 * h[k - 1]
    <3>1. CASE k = m + 1
      <4>1. h[k] = 2 * g[m] /\ k - 1 = m /\ h[m] = g[m]
        BY <3>1
      <4> QED BY <3>1, <4>1
    <3>2. CASE k \in 0..m
      <4>1. h[k] = g[k] /\ g[k] = IF k = 0 THEN 1 ELSE 2 * g[k - 1]
        BY <2>1, <3>2
      <4>2. k # 0 => h[k - 1] = g[k - 1]
        BY <3>2
      <4> QED BY <4>1, <4>2
    <3> QED BY <3>1, <3>2
  <2>3. h = [k \in 0..(m + 1) |-> h[k]]
    OBVIOUS
  <2> HIDE DEF h
  <2>4. h = [k \in 0..(m + 1) |-> IF k = 0 THEN 1 ELSE 2 * h[k - 1]]
    BY <2>2, <2>3
  <2> QED BY <2>4
<1> HIDE DEF Exists
<1>3. 0 \in S /\ \A m \in Nat : m \in S => m + 1 \in S
  BY <1>1, <1>2
<1>4. Nat \subseteq S
  <2> HIDE DEF S
  <2> QED BY <1>3, Induct
<1> QED BY <1>4 DEF Exists

\* PowerOfTwo is one.
LEMMA PowersUnfold ==
  PowerOfTwo = [k \in 0..Width |-> IF k = 0 THEN 1 ELSE 2 * PowerOfTwo[k - 1]]
<1>1. \E g : g = [k \in 0..Width |-> IF k = 0 THEN 1 ELSE 2 * g[k - 1]]
  BY PowersExist, RouteAssumption
<1> QED BY <1>1 DEF PowerOfTwo

\* So the powers are positive, and each is twice the one before.
LEMMA Powers ==
  /\ \A k \in 0..Width : PowerOfTwo[k] \in Nat \ {0}
  /\ PowerOfTwo[0] = 1
  /\ \A k \in 1..Width : PowerOfTwo[k] = 2 * PowerOfTwo[k - 1]
<1>0. Width \in Nat
  BY RouteAssumption
<1>1. PowerOfTwo[0] = 1 /\ \A k \in 1..Width : PowerOfTwo[k] = 2 * PowerOfTwo[k - 1]
  BY <1>0, PowersUnfold
<1> DEFINE S == {m \in Nat : m <= Width => PowerOfTwo[m] \in Nat \ {0}}
<1>2. 0 \in S
  BY <1>1
<1>3. ASSUME NEW m \in Nat, m \in S PROVE m + 1 \in S
  <2>1. CASE m + 1 <= Width
    <3>1. m + 1 \in 1..Width /\ (m + 1) - 1 = m /\ m <= Width
      BY <1>0, <2>1
    <3>2. PowerOfTwo[m + 1] = 2 * PowerOfTwo[m] /\ PowerOfTwo[m] \in Nat \ {0}
      BY <1>1, <1>3, <3>1
    <3> QED BY <3>2
  <2> QED BY <2>1
<1>4. Nat \subseteq S
  <2> HIDE DEF S
  <2> QED BY <1>2, <1>3, Induct
<1> QED BY <1>0, <1>1, <1>4

-----------------------------------------------------------------------------
(* Prefixes.                                                               *)

Entries == [network : Addresses, prefixlen : PrefixLengths, peer_addr : Peers]

\* The first n bits of an address, as a number.
First(x, n) == x \div PowerOfTwo[Width - n]

\* Dividing by d is dividing by twice d, doubling, and adding the lost bit.
LEMMA Halving ==
  ASSUME NEW a \in Nat, NEW d \in Nat \ {0}
  PROVE  a \div d = 2 * (a \div (2 * d)) + ((a \div d) % 2)
OBVIOUS

\* An address is a number of Width bits.
LEMMA AddressBits ==
  ASSUME NEW x \in Addresses
  PROVE  /\ x \in Nat
         /\ First(x, 0) = 0
         /\ \A n \in 0..Width : First(x, n) \in Nat
         /\ \A n \in 1..Width : /\ First(x, n) = 2 * First(x, n - 1) + Bit(x, n)
                                /\ Bit(x, n) \in 0..1
<1>0. Width \in Nat
  BY RouteAssumption
<1>1. x \in Nat /\ PowerOfTwo[Width] \in Nat \ {0} /\ x < PowerOfTwo[Width]
  BY <1>0, Powers DEF Addresses
<1>2. First(x, 0) = 0
  <2>1. Width - 0 = Width
    BY <1>0
  <2>2. x \div PowerOfTwo[Width] = 0
    BY <1>1
  <2> QED BY <2>1, <2>2 DEF First
<1>3. ASSUME NEW n \in 0..Width PROVE First(x, n) \in Nat
  <2>1. PowerOfTwo[Width - n] \in Nat \ {0}
    BY <1>0, Powers
  <2> QED BY <1>1, <2>1 DEF First
<1>4. ASSUME NEW n \in 1..Width
      PROVE  First(x, n) = 2 * First(x, n - 1) + Bit(x, n) /\ Bit(x, n) \in 0..1
  <2>1. PICK d \in Nat \ {0} : d = PowerOfTwo[Width - n]
    BY <1>0, Powers
  <2>2. Width - (n - 1) \in 1..Width /\ (Width - (n - 1)) - 1 = Width - n
    BY <1>0
  <2>3. PowerOfTwo[Width - (n - 1)] = 2 * d
    BY <2>1, <2>2, Powers
  <2>4. First(x, n) = x \div d /\ Bit(x, n) = (x \div d) % 2
    BY <2>1 DEF First, Bit
  <2>4a. First(x, n - 1) = x \div (2 * d)
    BY <2>3 DEF First
  <2>5. x \div d = 2 * (x \div (2 * d)) + ((x \div d) % 2)
    BY <1>1, Halving
  <2>6. (x \div d) \in Nat
    BY <1>1, <2>1
  <2>7. ((x \div d) % 2) \in 0..1
    BY <2>6
  <2> QED BY <2>4, <2>5, <2>4a, <2>7
<1> QED BY <1>1, <1>2, <1>3, <1>4

\* Two addresses begin with the same n bits exactly when these are the same
\* number.
LEMMA SameBits ==
  ASSUME NEW x \in Addresses, NEW y \in Addresses, NEW n \in 0..Width
  PROVE  First(x, n) = First(y, n) <=> \A i \in 1..n : Bit(x, i) = Bit(y, i)
<1>0. Width \in Nat
  BY RouteAssumption
<1> DEFINE Same(m) == First(x, m) = First(y, m) <=> \A i \in 1..m : Bit(x, i) = Bit(y, i)
           S == {m \in Nat : m <= Width => Same(m)}
<1>1. 0 \in S
  BY AddressBits
<1>2. ASSUME NEW m \in Nat, m \in S PROVE m + 1 \in S
  <2>1. CASE m + 1 <= Width
    <3>1. m \in 0..Width /\ m + 1 \in 1..Width /\ (m + 1) - 1 = m
      BY <1>0, <2>1
    <3>2. First(x, m) \in Nat /\ First(y, m) \in Nat
      BY <3>1, AddressBits
    <3>3. /\ First(x, m + 1) = 2 * First(x, m) + Bit(x, m + 1) /\ Bit(x, m + 1) \in 0..1
          /\ First(y, m + 1) = 2 * First(y, m) + Bit(y, m + 1) /\ Bit(y, m + 1) \in 0..1
      BY <3>1, AddressBits
    <3>4. First(x, m + 1) = First(y, m + 1)
            <=> First(x, m) = First(y, m) /\ Bit(x, m + 1) = Bit(y, m + 1)
      BY <3>2, <3>3
    <3>5. Same(m)
      BY <1>2, <3>1
    <3>6. 1..(m + 1) = (1..m) \cup {m + 1}
      OBVIOUS
    <3>7. Same(m + 1)
      BY <3>4, <3>5, <3>6
    <3> QED BY <3>7
  <2> QED BY <2>1
<1>3. Nat \subseteq S
  <2> HIDE DEF S
  <2> QED BY <1>1, <1>2, Induct
<1> QED BY <1>0, <1>3

\* A route matches (RouteEntry.matches of src/router.py) exactly the addresses
\* that begin with the bits of its network.
LEMMA MatchesIsCovers ==
  ASSUME NEW r \in Entries, NEW ip \in Addresses
  PROVE  matches(r, ip) <=> Covers(r, ip)
<1>0. r.network \in Addresses /\ r.prefixlen \in 0..Width /\ Width \in Nat
  BY RouteAssumption DEF Entries, PrefixLengths
<1>1. PICK d \in Nat \ {0} : d = PowerOfTwo[Width - r.prefixlen]
  BY <1>0, Powers
<1>2. ip \in Nat /\ r.network \in Nat
  BY <1>0, AddressBits
<1>3. matches(r, ip) <=> ip - (ip % d) = r.network - (r.network % d)
  BY <1>1 DEF matches, ip_in_network, get_network_address
<1>4. ip - (ip % d) = r.network - (r.network % d) <=> ip \div d = r.network \div d
  BY <1>2
<1>5. First(ip, r.prefixlen) = ip \div d /\ First(r.network, r.prefixlen) = r.network \div d
  BY <1>1 DEF First
<1> QED BY <1>0, <1>3, <1>4, <1>5, SameBits DEF Covers

-----------------------------------------------------------------------------
(* The search for the best route.                                          *)

\* What the loop of lookup does with one route.
BestOf(best, route, ip) == IF Better(best, route, ip) THEN route ELSE best

\* The fold's own recursion, over sets of positions.
SearchStep(g, S, list, ip) ==
  IF S = {} THEN NoRoute
  ELSE LET x == Max(S) IN BestOf(g[S \ {x}], list[x], ip)

IsSearch(g, positions, list, ip) ==
  g = [S \in SUBSET positions |-> SearchStep(g, S, list, ip)]

\* Max of a set of positions that has the last one.
LEMMA MaxIsLast ==
  ASSUME NEW n \in Nat, NEW S \in SUBSET (1..n), n \in S
  PROVE  Max(S) = n
<1>1. \A y \in S : n >= y
  OBVIOUS
<1>2. \A x \in S : (\A y \in S : x >= y) => x = n
  BY <1>1
<1> QED BY <1>1, <1>2 DEF Max

\* There is a function with that recursion.
LEMMA SearchExists ==
  ASSUME NEW list, NEW ip, NEW n \in Nat
  PROVE  \E g : IsSearch(g, 1..n, list, ip)
<1> DEFINE Exists(m) == \E g : g = [S \in SUBSET (1..m) |-> SearchStep(g, S, list, ip)]
           N == {m \in Nat : Exists(m)}
<1>1. Exists(0)
  <2> DEFINE g == [S \in SUBSET (1..0) |-> NoRoute]
  <2>1. 1..0 = {}
    OBVIOUS
  <2>2. \A S \in SUBSET (1..0) : SearchStep(g, S, list, ip) = NoRoute
    BY <2>1 DEF SearchStep
  <2>3. g = [S \in SUBSET (1..0) |-> SearchStep(g, S, list, ip)]
    BY <2>2
  <2> QED BY <2>3
<1>2. ASSUME NEW m \in Nat, Exists(m) PROVE Exists(m + 1)
  <2>1. PICK g : g = [S \in SUBSET (1..m) |-> SearchStep(g, S, list, ip)]
    BY <1>2
  <2> DEFINE h == [S \in SUBSET (1..(m + 1)) |->
                     IF m + 1 \in S THEN BestOf(g[S \ {m + 1}], list[m + 1], ip) ELSE g[S]]
  <2>2. \A S \in SUBSET (1..m) : S \in SUBSET (1..(m + 1)) /\ m + 1 \notin S
    OBVIOUS
  <2>3. \A S \in SUBSET (1..m) : h[S] = g[S]
    BY <2>2
  <2>4. ASSUME NEW S \in SUBSET (1..(m + 1)) PROVE h[S] = SearchStep(h, S, list, ip)
    <3>1. CASE m + 1 \in S
      <4>1. Max(S) = m + 1
        BY <3>1, MaxIsLast
      <4>2. S \ {m + 1} \in SUBSET (1..m)
        OBVIOUS
      <4>3. h[S \ {m + 1}] = g[S \ {m + 1}]
        BY <2>3, <4>2
      <4>4. h[S] = BestOf(g[S \ {m + 1}], list[m + 1], ip)
        BY <3>1
      <4> HIDE DEF h
      <4> QED BY <3>1, <4>1, <4>3, <4>4 DEF SearchStep
    <3>2. CASE m + 1 \notin S
      <4>1. S \in SUBSET (1..m)
        BY <3>2
      <4>2. h[S] = g[S] /\ g[S] = SearchStep(g, S, list, ip)
        BY <2>1, <2>3, <4>1
      <4>3. S \ {Max(S)} \in SUBSET (1..m)
        BY <4>1
      <4>4. h[S \ {Max(S)}] = g[S \ {Max(S)}]
        BY <2>3, <4>3
      <4> HIDE DEF h
      <4> QED BY <4>2, <4>4 DEF SearchStep
    <3> QED BY <3>1, <3>2
  <2>5. h = [S \in SUBSET (1..(m + 1)) |-> h[S]]
    OBVIOUS
  <2> HIDE DEF h
  <2>6. h = [S \in SUBSET (1..(m + 1)) |-> SearchStep(h, S, list, ip)]
    BY <2>4, <2>5
  <2> QED BY <2>6
<1> HIDE DEF Exists
<1>3. 0 \in N /\ \A m \in Nat : m \in N => m + 1 \in N
  BY <1>1, <1>2
<1>4. Nat \subseteq N
  <2> HIDE DEF N
  <2> QED BY <1>3, Induct
<1>5. Exists(n)
  BY <1>4
<1> QED BY <1>5 DEF Exists, IsSearch

\* So the search goes through the list from its head: best[n] is the best of
\* the first n routes.
Search(best, list, ip) ==
  /\ best[0] = NoRoute
  /\ \A n \in 1..Len(list) : best[n] = BestOf(best[n - 1], list[n], ip)

LEMMA SearchRuns ==
  ASSUME NEW list \in Seq(Entries), NEW ip
  PROVE  \E best : Search(best, list, ip) /\ BestRoute(list, ip) = best[Len(list)]
<1> DEFINE D == DOMAIN list
           iter == CHOOSE g : g = [S \in SUBSET D |-> SearchStep(g, S, list, ip)]
<1>1. BestRoute(list, ip) = iter[D]
  BY DEF BestRoute, FoldLeft, MapThenFoldSet, SearchStep, BestOf
<1>2. D = 1..Len(list) /\ Len(list) \in Nat
  OBVIOUS
<1>3. \E g : IsSearch(g, D, list, ip)
  <2>1. PICK n \in Nat : D = 1..n
    BY <1>2
  <2> HIDE DEF D
  <2> QED BY <2>1, SearchExists
<1>4. iter = [S \in SUBSET D |-> SearchStep(iter, S, list, ip)]
  BY <1>3 DEF IsSearch
<1> HIDE DEF iter, D
<1> DEFINE best == [n \in 0..Len(list) |-> iter[1..n]]
<1>5. best[0] = NoRoute
  <2>1. 1..0 = {} /\ {} \in SUBSET D
    OBVIOUS
  <2>2. iter[{}] = NoRoute
    BY <1>4, <2>1 DEF SearchStep
  <2> QED BY <1>2, <2>1, <2>2
<1>6. ASSUME NEW n \in 1..Len(list) PROVE best[n] = BestOf(best[n - 1], list[n], ip)
  <2>0. n \in Nat /\ n \in 1..n
    BY <1>2
  <2>1. 1..n \in SUBSET D /\ 1..n # {}
    <3>1. \A m \in 1..n : m \in 1..Len(list)
      BY <2>0
    <3> QED BY <1>2, <2>0, <3>1
  <2>2. Max(1..n) = n
    BY <2>0, MaxIsLast
  <2>3. (1..n) \ {n} = 1..(n - 1)
    BY <1>2
  <2>4. iter[1..n] = SearchStep(iter, 1..n, list, ip)
    BY <1>4, <2>1
  <2>5. iter[1..n] = BestOf(iter[1..(n - 1)], list[n], ip)
    BY <2>1, <2>2, <2>3, <2>4 DEF SearchStep
  <2>6. best[n] = iter[1..n] /\ best[n - 1] = iter[1..(n - 1)]
    BY <1>2
  <2> QED BY <2>5, <2>6
<1>7. best[Len(list)] = iter[D]
  BY <1>2
<1> QED BY <1>1, <1>5, <1>6, <1>7 DEF Search

\* Position i of the list has the longest of the routes up to n that match,
\* the first of equals.
FirstLongest(i, n, list, ip) ==
  /\ i \in 1..n /\ matches(list[i], ip)
  /\ \A j \in 1..n : matches(list[j], ip) =>
       \/ list[j].prefixlen < list[i].prefixlen
       \/ list[j].prefixlen = list[i].prefixlen /\ i <= j

\* What the search has found among the first n routes.
FoundIn(best, n, list, ip) ==
  \/ best = NoRoute /\ \A j \in 1..n : ~matches(list[j], ip)
  \/ \E i \in 1..n : best = list[i] /\ FirstLongest(i, n, list, ip)

\* The search finds the longest match, the first of equals.
LEMMA SearchFinds ==
  ASSUME NEW list \in Seq(Entries), NEW ip
  PROVE  FoundIn(BestRoute(list, ip), Len(list), list, ip)
<1>1. PICK best : Search(best, list, ip) /\ BestRoute(list, ip) = best[Len(list)]
  BY SearchRuns
<1>2. Len(list) \in Nat /\ \A n \in 1..Len(list) : list[n] \in Entries
  OBVIOUS
<1> DEFINE N == {n \in Nat : n <= Len(list) => FoundIn(best[n], n, list, ip)}
<1>3. 0 \in N
  BY <1>1 DEF Search, FoundIn
<1>4. ASSUME NEW n \in Nat, n \in N PROVE n + 1 \in N
  <2> SUFFICES ASSUME n + 1 <= Len(list) PROVE FoundIn(best[n + 1], n + 1, list, ip)
    OBVIOUS
  <2> DEFINE r == list[n + 1]
  <2>1. n + 1 \in 1..Len(list) /\ (n + 1) - 1 = n /\ n <= Len(list)
    BY <1>2
  <2>2. FoundIn(best[n], n, list, ip)
    BY <1>4, <2>1
  <2>3. best[n + 1] = BestOf(best[n], r, ip)
    BY <1>1, <2>1 DEF Search
  <2>4. /\ r.prefixlen \in Nat
        /\ \A j \in 1..n : list[j].prefixlen \in Nat
    <3>1. \A e \in Entries : e.prefixlen \in Nat
      BY RouteAssumption DEF Entries, PrefixLengths
    <3>2. \A j \in 1..n : j \in 1..Len(list)
      BY <2>1
    <3> QED BY <1>2, <2>1, <3>1, <3>2
  <2>5. 1..(n + 1) = (1..n) \cup {n + 1} /\ n + 1 \notin 1..n
    OBVIOUS
  <2>6. CASE best[n] = NoRoute /\ \A j \in 1..n : ~matches(list[j], ip)
    <3>1. CASE matches(r, ip)
      <4>1. best[n + 1] = r
        BY <2>3, <2>4, <2>6, <3>1 DEF BestOf, Better, NoRoute
      <4>2. FirstLongest(n + 1, n + 1, list, ip)
        BY <2>5, <2>6, <3>1 DEF FirstLongest
      <4> QED BY <2>5, <4>1, <4>2 DEF FoundIn
    <3>2. CASE ~matches(r, ip)
      <4>1. best[n + 1] = NoRoute
        BY <2>3, <2>6, <3>2 DEF BestOf, Better
      <4> QED BY <2>5, <2>6, <3>2, <4>1 DEF FoundIn
    <3> QED BY <3>1, <3>2
  <2>7. ASSUME NEW i \in 1..n, best[n] = list[i], FirstLongest(i, n, list, ip)
        PROVE  FoundIn(best[n + 1], n + 1, list, ip)
    <3>1. CASE Better(list[i], r, ip)
      <4>1. best[n + 1] = r /\ matches(r, ip) /\ r.prefixlen > list[i].prefixlen
        BY <2>3, <2>7, <3>1 DEF BestOf, Better
      <4>2. \A j \in 1..n : matches(list[j], ip) => list[j].prefixlen < r.prefixlen
        BY <2>4, <2>7, <4>1 DEF FirstLongest
      <4>3. FirstLongest(n + 1, n + 1, list, ip)
        BY <2>5, <4>1, <4>2 DEF FirstLongest
      <4> QED BY <2>5, <4>1, <4>3 DEF FoundIn
    <3>2. CASE ~Better(list[i], r, ip)
      <4>1. best[n + 1] = list[i]
        BY <2>3, <2>7, <3>2 DEF BestOf
      <4>2. matches(r, ip) => r.prefixlen <= list[i].prefixlen
        BY <2>4, <3>2 DEF Better
      <4>3. matches(r, ip) => \/ r.prefixlen < list[i].prefixlen
                              \/ r.prefixlen = list[i].prefixlen /\ i <= n + 1
        BY <2>4, <4>2
      <4>4. FirstLongest(i, n + 1, list, ip)
        BY <2>5, <2>7, <4>3 DEF FirstLongest
      <4> QED BY <2>5, <4>1, <4>4 DEF FoundIn
    <3> QED BY <3>1, <3>2
  <2> QED BY <2>2, <2>6, <2>7 DEF FoundIn
<1>5. Nat \subseteq N
  <2> HIDE DEF N
  <2> QED BY <1>3, <1>4, Induct
<1> QED BY <1>1, <1>2, <1>5

\* A route added at the end is compared last.
LEMMA SearchAppended ==
  ASSUME NEW list \in Seq(Entries), NEW r \in Entries, NEW ip
  PROVE  BestRoute(Append(list, r), ip) = BestOf(BestRoute(list, ip), r, ip)
<1> DEFINE more == Append(list, r)
<1>1. PICK best : Search(best, list, ip) /\ BestRoute(list, ip) = best[Len(list)]
  BY SearchRuns
<1>2. more \in Seq(Entries) /\ Len(more) = Len(list) + 1 /\ Len(list) \in Nat
      /\ more[Len(list) + 1] = r /\ \A n \in 1..Len(list) : more[n] = list[n]
  OBVIOUS
<1>3. PICK wide : Search(wide, more, ip) /\ BestRoute(more, ip) = wide[Len(more)]
  BY <1>2, SearchRuns
<1> HIDE DEF more
<1> DEFINE N == {n \in Nat : n <= Len(list) => wide[n] = best[n]}
<1>4. 0 \in N
  BY <1>1, <1>3 DEF Search
<1>5. ASSUME NEW n \in Nat, n \in N PROVE n + 1 \in N
  <2> SUFFICES ASSUME n + 1 <= Len(list) PROVE wide[n + 1] = best[n + 1]
    OBVIOUS
  <2>1. n + 1 \in 1..Len(list) /\ n + 1 \in 1..Len(more) /\ (n + 1) - 1 = n /\ n <= Len(list)
    BY <1>2
  <2>2. wide[n] = best[n]
    BY <1>5, <2>1
  <2>3. wide[n + 1] = BestOf(wide[n], more[n + 1], ip)
    BY <1>3, <2>1 DEF Search
  <2>4. best[n + 1] = BestOf(best[n], list[n + 1], ip)
    BY <1>1, <2>1 DEF Search
  <2> QED BY <1>2, <2>1, <2>2, <2>3, <2>4
<1>6. Nat \subseteq N
  <2> HIDE DEF N
  <2> QED BY <1>4, <1>5, Induct
<1>7. wide[Len(list)] = best[Len(list)]
  BY <1>2, <1>6
<1>8. wide[Len(list) + 1] = BestOf(wide[Len(list)], r, ip)
  <2>1. Len(list) + 1 \in 1..Len(more) /\ (Len(list) + 1) - 1 = Len(list)
    BY <1>2
  <2> QED BY <1>2, <1>3, <2>1 DEF Search
<1> QED BY <1>1, <1>2, <1>3, <1>7, <1>8 DEF more

-----------------------------------------------------------------------------
(* The routes that a removal keeps.                                        *)

\* What the list comprehension does with one route.
Kept(kept, r, p) == IF r.peer_addr # p THEN Append(kept, r) ELSE kept

\* The fold's own recursion, as SearchStep above.
FilterStep(g, S, list, p) ==
  IF S = {} THEN <<>>
  ELSE LET x == Max(S) IN Kept(g[S \ {x}], list[x], p)

IsFilter(g, positions, list, p) ==
  g = [S \in SUBSET positions |-> FilterStep(g, S, list, p)]

\* There is a function with that recursion.
LEMMA FilterExists ==
  ASSUME NEW list, NEW p, NEW n \in Nat
  PROVE  \E g : IsFilter(g, 1..n, list, p)
<1> DEFINE Exists(m) == \E g : g = [S \in SUBSET (1..m) |-> FilterStep(g, S, list, p)]
           N == {m \in Nat : Exists(m)}
<1>1. Exists(0)
  <2> DEFINE g == [S \in SUBSET (1..0) |-> <<>>]
  <2>1. 1..0 = {}
    OBVIOUS
  <2>2. \A S \in SUBSET (1..0) : FilterStep(g, S, list, p) = <<>>
    BY <2>1 DEF FilterStep
  <2>3. g = [S \in SUBSET (1..0) |-> FilterStep(g, S, list, p)]
    BY <2>2
  <2> QED BY <2>3
<1>2. ASSUME NEW m \in Nat, Exists(m) PROVE Exists(m + 1)
  <2>1. PICK g : g = [S \in SUBSET (1..m) |-> FilterStep(g, S, list, p)]
    BY <1>2
  <2> DEFINE h == [S \in SUBSET (1..(m + 1)) |->
                     IF m + 1 \in S THEN Kept(g[S \ {m + 1}], list[m + 1], p) ELSE g[S]]
  <2>2. \A S \in SUBSET (1..m) : S \in SUBSET (1..(m + 1)) /\ m + 1 \notin S
    OBVIOUS
  <2>3. \A S \in SUBSET (1..m) : h[S] = g[S]
    BY <2>2
  <2>4. ASSUME NEW S \in SUBSET (1..(m + 1)) PROVE h[S] = FilterStep(h, S, list, p)
    <3>1. CASE m + 1 \in S
      <4>1. Max(S) = m + 1
        BY <3>1, MaxIsLast
      <4>2. S \ {m + 1} \in SUBSET (1..m)
        OBVIOUS
      <4>3. h[S \ {m + 1}] = g[S \ {m + 1}]
        BY <2>3, <4>2
      <4>4. h[S] = Kept(g[S \ {m + 1}], list[m + 1], p)
        BY <3>1
      <4> HIDE DEF h
      <4> QED BY <3>1, <4>1, <4>3, <4>4 DEF FilterStep
    <3>2. CASE m + 1 \notin S
      <4>1. S \in SUBSET (1..m)
        BY <3>2
      <4>2. h[S] = g[S] /\ g[S] = FilterStep(g, S, list, p)
        BY <2>1, <2>3, <4>1
      <4>3. S \ {Max(S)} \in SUBSET (1..m)
        BY <4>1
      <4>4. h[S \ {Max(S)}] = g[S \ {Max(S)}]
        BY <2>3, <4>3
      <4> HIDE DEF h
      <4> QED BY <4>2, <4>4 DEF FilterStep
    <3> QED BY <3>1, <3>2
  <2>5. h = [S \in SUBSET (1..(m + 1)) |-> h[S]]
    OBVIOUS
  <2> HIDE DEF h
  <2>6. h = [S \in SUBSET (1..(m + 1)) |-> FilterStep(h, S, list, p)]
    BY <2>4, <2>5
  <2> QED BY <2>6
<1> HIDE DEF Exists
<1>3. 0 \in N /\ \A m \in Nat : m \in N => m + 1 \in N
  BY <1>1, <1>2
<1>4. Nat \subseteq N
  <2> HIDE DEF N
  <2> QED BY <1>3, Induct
<1>5. Exists(n)
  BY <1>4
<1> QED BY <1>5 DEF Exists, IsFilter

\* So kept[n] is what is left of the first n routes.
Filter(kept, list, p) ==
  /\ kept[0] = <<>>
  /\ \A n \in 1..Len(list) : kept[n] = Kept(kept[n - 1], list[n], p)

LEMMA FilterRuns ==
  ASSUME NEW p, routes \in Seq(Entries)
  PROVE  \E kept : Filter(kept, routes, p) /\ OthersRoutes(p) = kept[Len(routes)]
<1> DEFINE D == DOMAIN routes
           iter == CHOOSE g : g = [S \in SUBSET D |-> FilterStep(g, S, routes, p)]
<1>1. OthersRoutes(p) = iter[D]
  BY DEF OthersRoutes, FoldLeft, MapThenFoldSet, FilterStep, Kept
<1>2. D = 1..Len(routes) /\ Len(routes) \in Nat
  OBVIOUS
<1>3. \E g : IsFilter(g, D, routes, p)
  <2>1. PICK n \in Nat : D = 1..n
    BY <1>2
  <2> HIDE DEF D
  <2> QED BY <2>1, FilterExists
<1>4. iter = [S \in SUBSET D |-> FilterStep(iter, S, routes, p)]
  BY <1>3 DEF IsFilter
<1> HIDE DEF iter, D
<1> DEFINE kept == [n \in 0..Len(routes) |-> iter[1..n]]
<1>5. kept[0] = <<>>
  <2>1. 1..0 = {} /\ {} \in SUBSET D
    OBVIOUS
  <2>2. iter[{}] = <<>>
    BY <1>4, <2>1 DEF FilterStep
  <2> QED BY <1>2, <2>1, <2>2
<1>6. ASSUME NEW n \in 1..Len(routes) PROVE kept[n] = Kept(kept[n - 1], routes[n], p)
  <2>0. n \in Nat /\ n \in 1..n
    BY <1>2
  <2>1. 1..n \in SUBSET D /\ 1..n # {}
    <3>1. \A m \in 1..n : m \in 1..Len(routes)
      BY <2>0
    <3> QED BY <1>2, <2>0, <3>1
  <2>2. Max(1..n) = n
    BY <2>0, MaxIsLast
  <2>3. (1..n) \ {n} = 1..(n - 1)
    BY <1>2
  <2>4. iter[1..n] = FilterStep(iter, 1..n, routes, p)
    BY <1>4, <2>1
  <2>5. iter[1..n] = Kept(iter[1..(n - 1)], routes[n], p)
    BY <2>1, <2>2, <2>3, <2>4 DEF FilterStep
  <2>6. kept[n] = iter[1..n] /\ kept[n - 1] = iter[1..(n - 1)]
    BY <1>2
  <2> QED BY <2>5, <2>6
<1>7. kept[Len(routes)] = iter[D]
  BY <1>2
<1> QED BY <1>1, <1>5, <1>6, <1>7 DEF Filter

Peerless(list, p) == \A i \in 1..Len(list) : list[i].peer_addr # p

\* The next hop that one route less well found would be: another's best route
\* is never longer than everybody's, and is everybody's unless that is p's.
Withdrawn(part, whole, p) ==
  /\ part.prefixlen \in Int /\ whole.prefixlen \in Int
  /\ part.prefixlen <= whole.prefixlen
  /\ whole.peer_addr # p => part = whole

\* A removal keeps the others' routes, and whatever address goes to another
\* peer is routed as before (remove_peer_routes and lookup of src/router.py).
LEMMA OthersStay ==
  ASSUME routes \in Seq(Entries), NEW p
  PROVE  /\ OthersRoutes(p) \in Seq(Entries)
         /\ Peerless(OthersRoutes(p), p)
         /\ Len(OthersRoutes(p)) <= Len(routes)
         /\ \A ip : Withdrawn(BestRoute(OthersRoutes(p), ip), BestRoute(routes, ip), p)
<1>1. PICK kept : Filter(kept, routes, p) /\ OthersRoutes(p) = kept[Len(routes)]
  BY FilterRuns
<1>2. Len(routes) \in Nat /\ \A n \in 1..Len(routes) : routes[n] \in Entries
  OBVIOUS
<1> DEFINE Good(n) == /\ kept[n] \in Seq(Entries)
                      /\ Peerless(kept[n], p)
                      /\ Len(kept[n]) <= n
           N == {n \in Nat : n <= Len(routes) => Good(n)}
<1>3. 0 \in N
  <2>1. kept[0] = <<>> /\ <<>> \in Seq(Entries) /\ Len(<<>>) = 0
    BY <1>1 DEF Filter
  <2>2. Peerless(<<>>, p)
    BY DEF Peerless
  <2>3. kept[0] \in Seq(Entries) /\ Peerless(kept[0], p) /\ Len(kept[0]) <= 0
    BY <2>1, <2>2
  <2> QED BY <2>3
<1>4. ASSUME NEW n \in Nat, n \in N PROVE n + 1 \in N
  <2> SUFFICES ASSUME n + 1 <= Len(routes) PROVE Good(n + 1)
    OBVIOUS
  <2>1. n + 1 \in 1..Len(routes) /\ (n + 1) - 1 = n /\ n <= Len(routes)
    BY <1>2
  <2>2. PICK s \in Seq(Entries) : s = kept[n] /\ Peerless(s, p) /\ Len(s) <= n
    BY <1>4, <2>1
  <2>3. PICK r \in Entries : r = routes[n + 1]
    BY <1>2, <2>1
  <2>4. kept[n + 1] = IF r.peer_addr # p THEN Append(s, r) ELSE s
    BY <1>1, <2>1, <2>2, <2>3 DEF Filter, Kept
  <2>5. CASE r.peer_addr # p
    <3>1. /\ Append(s, r) \in Seq(Entries) /\ Len(Append(s, r)) = Len(s) + 1
          /\ Append(s, r)[Len(s) + 1] = r
          /\ \A i \in 1..Len(s) : Append(s, r)[i] = s[i]
      OBVIOUS
    <3>2. 1..(Len(s) + 1) = (1..Len(s)) \cup {Len(s) + 1}
      OBVIOUS
    <3>3. Peerless(Append(s, r), p)
      BY <2>2, <2>5, <3>1, <3>2 DEF Peerless
    <3>4. Len(Append(s, r)) <= n + 1
      BY <2>2, <3>1
    <3> QED BY <2>4, <2>5, <3>1, <3>3, <3>4
  <2>6. CASE r.peer_addr = p
    BY <2>2, <2>4, <2>6
  <2> QED BY <2>5, <2>6
<1>5. Nat \subseteq N
  <2> HIDE DEF N
  <2> QED BY <1>3, <1>4, Induct
<1>6. \A n \in 0..Len(routes) : Good(n)
  BY <1>5
<1>7. ASSUME NEW ip
      PROVE  Withdrawn(BestRoute(OthersRoutes(p), ip), BestRoute(routes, ip), p)
  <2>1. PICK best : Search(best, routes, ip) /\ BestRoute(routes, ip) = best[Len(routes)]
    BY SearchRuns
  <2> DEFINE Tracks(n) == Withdrawn(BestRoute(kept[n], ip), best[n], p)
             M == {n \in Nat : n <= Len(routes) => Tracks(n)}
  <2>2. 0 \in M
    <3>1. <<>> \in Seq(Entries) /\ Len(<<>>) = 0
      OBVIOUS
    <3>2. BestRoute(<<>>, ip) = NoRoute
      <4>1. FoundIn(BestRoute(<<>>, ip), 0, <<>>, ip)
        BY <3>1, SearchFinds
      <4> QED BY <4>1 DEF FoundIn
    <3>3. NoRoute.prefixlen \in Int
      BY DEF NoRoute
    <3>4. kept[0] = <<>> /\ best[0] = NoRoute
      BY <1>1, <2>1 DEF Filter, Search
    <3>5. Withdrawn(NoRoute, NoRoute, p)
      BY <3>3 DEF Withdrawn
    <3> QED BY <3>2, <3>4, <3>5
  <2>3. ASSUME NEW n \in Nat, n \in M PROVE n + 1 \in M
    <3> SUFFICES ASSUME n + 1 <= Len(routes) PROVE Tracks(n + 1)
      OBVIOUS
    <3>1. n + 1 \in 1..Len(routes) /\ (n + 1) - 1 = n /\ n \in 0..Len(routes)
      BY <1>2
    <3>2. PICK r \in Entries : r = routes[n + 1]
      BY <1>2, <3>1
    <3>3. PICK s \in Seq(Entries) : s = kept[n]
      BY <1>6, <3>1
    <3>4. kept[n + 1] = IF r.peer_addr # p THEN Append(s, r) ELSE s
      BY <1>1, <3>1, <3>2, <3>3 DEF Filter, Kept
    <3>5. best[n + 1] = BestOf(best[n], r, ip)
      BY <2>1, <3>1, <3>2 DEF Search
    <3>6. Withdrawn(BestRoute(s, ip), best[n], p)
      BY <2>3, <3>1, <3>3
    <3>7. BestRoute(Append(s, r), ip) = BestOf(BestRoute(s, ip), r, ip)
      BY SearchAppended
    <3>8. r.prefixlen \in Int
      BY RouteAssumption DEF Entries, PrefixLengths
    <3> HIDE DEF Tracks
    <3> SUFFICES Withdrawn(BestRoute(kept[n + 1], ip), best[n + 1], p)
      BY DEF Tracks
    <3>9. CASE r.peer_addr # p
      <4>1. Withdrawn(BestOf(BestRoute(s, ip), r, ip), BestOf(best[n], r, ip), p)
        BY <3>6, <3>8, <3>9 DEF Withdrawn, BestOf, Better
      <4> QED BY <3>4, <3>5, <3>7, <3>9, <4>1
    <3>10. CASE r.peer_addr = p
      <4>1. Withdrawn(BestRoute(s, ip), BestOf(best[n], r, ip), p)
        BY <3>6, <3>8, <3>10 DEF Withdrawn, BestOf, Better
      <4> QED BY <3>4, <3>5, <3>10, <4>1
    <3> QED BY <3>9, <3>10
  <2>4. Nat \subseteq M
    <3> HIDE DEF M
    <3> QED BY <2>2, <2>3, Induct
  <2>5. Tracks(Len(routes))
    BY <1>2, <2>4
  <2> QED BY <1>1, <2>1, <2>5
<1> QED BY <1>1, <1>2, <1>6, <1>7

-----------------------------------------------------------------------------
(* The invariant.                                                          *)

\* The networks of the table are addresses whose host bits are cleared away.
LEMMA EntriesAreMade ==
  ASSUME NEW network \in Addresses, NEW prefixlen \in PrefixLengths, NEW p \in Peers
  PROVE  RouteEntry(network, prefixlen, p) \in Entries
<1>0. Width \in Nat
  BY RouteAssumption
<1>1. PICK d \in Nat \ {0} : d = PowerOfTwo[Width - prefixlen]
  BY <1>0, Powers DEF PrefixLengths
<1>2. network \in Nat /\ PowerOfTwo[Width] \in Nat /\ network < PowerOfTwo[Width]
  BY <1>0, Powers DEF Addresses
<1>3. network % d \in Nat /\ network % d <= network
  BY <1>2
<1>4. network - (network % d) \in 0..(PowerOfTwo[Width] - 1)
  BY <1>2, <1>3
<1> QED BY <1>1, <1>4 DEF RouteEntry, get_network_address, Entries, Addresses

\* The lists hold what add_route and add_host_route put into them, and while
\* the second half of a removal is to come the first has been done.
RoutesInv ==
  /\ routes \in Seq(Entries)
  /\ host_routes \in [Addresses -> Peers \cup {None}]
  /\ removing \in Peers \cup {None}
  /\ removing # None => Peerless(routes, removing)

\* RoutesInv is inductive.
LEMMA RoutesStep ==
  /\ Init => RoutesInv
  /\ RoutesInv /\ [Next]_vars => RoutesInv'
<1>1. Init => RoutesInv
  BY DEF Init, RoutesInv
<1>2. ASSUME RoutesInv, [Next]_vars PROVE RoutesInv'
  <2>1. ASSUME removing = None, add_route PROVE RoutesInv'
    <3>1. PICK network \in Addresses, prefixlen \in PrefixLengths, p \in Peers :
            routes' = Append(routes, RouteEntry(network, prefixlen, p))
      BY <2>1 DEF add_route
    <3>2. routes' \in Seq(Entries)
      BY <1>2, <3>1, EntriesAreMade DEF RoutesInv
    <3> QED BY <1>2, <2>1, <3>2 DEF RoutesInv, add_route
  <2>2. ASSUME removing = None, add_host_route PROVE RoutesInv'
    <3>1. host_routes' \in [Addresses -> Peers \cup {None}]
      BY <1>2, <2>2 DEF RoutesInv, add_host_route
    <3> QED BY <1>2, <2>2, <3>1 DEF RoutesInv, add_host_route
  <2>3. ASSUME NEW p \in Peers, RemoveNetworks(p) PROVE RoutesInv'
    <3>1. OthersRoutes(p) \in Seq(Entries) /\ Peerless(OthersRoutes(p), p)
      BY <1>2, OthersStay DEF RoutesInv
    <3> QED BY <1>2, <2>3, <3>1 DEF RoutesInv, RemoveNetworks
  <2>4. ASSUME RemoveHosts PROVE RoutesInv'
    <3>1. host_routes' \in [Addresses -> Peers \cup {None}]
      BY <1>2, <2>4 DEF RoutesInv, RemoveHosts
    <3> QED BY <1>2, <2>4, <3>1 DEF RoutesInv, RemoveHosts
  <2>5. CASE UNCHANGED vars
    BY <1>2, <2>5 DEF RoutesInv, vars, Peerless
  <2> QED BY <1>2, <2>1, <2>2, <2>3, <2>4, <2>5 DEF Next
<1> QED BY <1>1, <1>2

\* RoutesInv always holds.
THEOREM TableIsWellFormed == Spec => []RoutesInv
BY RoutesStep, PTL DEF Spec

-----------------------------------------------------------------------------
(* The properties.                                                         *)

\* What a search finds, in the words of Longest.
LEMMA FindsLongest ==
  ASSUME routes \in Seq(Entries), NEW ip \in Addresses
  PROVE  \/ /\ BestRoute(routes, ip) = NoRoute
            /\ \A j \in 1..Len(routes) : ~Covers(routes[j], ip)
         \/ \E i \in Longest(ip) : BestRoute(routes, ip) = routes[i]
<1>1. DOMAIN routes = 1..Len(routes) /\ \A j \in 1..Len(routes) : routes[j] \in Entries
  OBVIOUS
<1>2. \A j \in 1..Len(routes) : matches(routes[j], ip) <=> Covers(routes[j], ip)
  BY <1>1, MatchesIsCovers
<1>3. FoundIn(BestRoute(routes, ip), Len(routes), routes, ip)
  BY SearchFinds
<1>4. ASSUME NEW i \in 1..Len(routes), FirstLongest(i, Len(routes), routes, ip)
      PROVE  i \in Longest(ip)
  BY <1>1, <1>2, <1>4 DEF FirstLongest, Longest
<1> QED BY <1>2, <1>3, <1>4 DEF FoundIn

\* The prefix lengths of the table can be compared.
LEMMA LengthsAreNumbers ==
  ASSUME routes \in Seq(Entries)
  PROVE  \A i \in DOMAIN routes : routes[i].prefixlen \in Int
<1>1. \A e \in Entries : e.prefixlen \in Int
  BY RouteAssumption DEF Entries, PrefixLengths
<1>2. \A i \in DOMAIN routes : routes[i] \in Entries
  OBVIOUS
<1> QED BY <1>1, <1>2

\* No two routes are both the first longest.
LEMMA LongestIsUnique ==
  ASSUME routes \in Seq(Entries), NEW ip \in Addresses,
         NEW i \in Longest(ip), NEW j \in Longest(ip)
  PROVE  i = j
<1>1. i \in 1..Len(routes) /\ j \in 1..Len(routes) /\ Covers(routes[i], ip) /\ Covers(routes[j], ip)
  BY DEF Longest
<1>2. routes[i].prefixlen \in Int /\ routes[j].prefixlen \in Int
  BY <1>1, LengthsAreNumbers
<1>3. /\ \/ routes[j].prefixlen < routes[i].prefixlen
         \/ routes[j].prefixlen = routes[i].prefixlen /\ i <= j
      /\ \/ routes[i].prefixlen < routes[j].prefixlen
         \/ routes[i].prefixlen = routes[j].prefixlen /\ j <= i
  BY <1>1 DEF Longest
<1> QED BY <1>1, <1>2, <1>3

\* lookup of src/router.py is the longest match, bit by bit, for addresses of
\* any width and tables of any length.
THEOREM LongestMatch == Spec => []LookupIsLongestMatch
<1>1. RoutesInv => LookupIsLongestMatch
  <2> SUFFICES ASSUME RoutesInv, NEW ip \in Addresses
               PROVE  IF host_routes[ip] # None THEN lookup(ip) = host_routes[ip]
                      ELSE IF Longest(ip) = {} THEN lookup(ip) = None
                      ELSE \A i \in Longest(ip) : lookup(ip) = routes[i].peer_addr
    BY DEF LookupIsLongestMatch
  <2>1. CASE host_routes[ip] # None
    BY <2>1 DEF lookup
  <2>2. CASE host_routes[ip] = None
    <3>1. lookup(ip) = BestRoute(routes, ip).peer_addr
      BY <2>2 DEF lookup
    <3>2. routes \in Seq(Entries)
      BY DEF RoutesInv
    <3>3. CASE BestRoute(routes, ip) = NoRoute /\ \A j \in 1..Len(routes) : ~Covers(routes[j], ip)
      <4>1. Longest(ip) = {}
        BY <3>2, <3>3 DEF Longest
      <4>2. lookup(ip) = None
        BY <3>1, <3>3 DEF NoRoute
      <4> QED BY <2>2, <4>1, <4>2
    <3>4. ASSUME NEW i \in Longest(ip), BestRoute(routes, ip) = routes[i]
          PROVE  /\ Longest(ip) # {}
                 /\ \A j \in Longest(ip) : lookup(ip) = routes[j].peer_addr
      <4>1. \A j \in Longest(ip) : j = i
        BY <3>2, LongestIsUnique
      <4> QED BY <3>1, <3>4, <4>1
    <3> QED BY <2>2, <3>2, <3>3, <3>4, FindsLongest
  <2> QED BY <2>1, <2>2
<1> QED BY <1>1, TableIsWellFormed, PTL

\* While a peer is being removed, between the two assignments of
\* remove_peer_routes (src/router.py) and after them, no other's addresses move.
THEOREM RemovalWithdraws == Spec => RemovalOnlyWithdraws
<1> DEFINE OnlyWithdraws ==
      \A p \in Peers : removing # removing' /\ p \in {removing, removing'} =>
        \A ip \in Addresses : lookup(ip) # p => lookup(ip)' = lookup(ip)
<1>1. ASSUME RoutesInv, [Next]_vars PROVE OnlyWithdraws
  <2> SUFFICES ASSUME NEW p \in Peers, removing # removing', p \in {removing, removing'},
                      NEW ip \in Addresses, lookup(ip) # p
               PROVE  lookup(ip)' = lookup(ip)
    OBVIOUS
  <2>0. None \notin Peers /\ routes \in Seq(Entries)
    BY <1>1, RouteAssumption DEF RoutesInv
  <2>1. ASSUME NEW q \in Peers, RemoveNetworks(q) PROVE lookup(ip)' = lookup(ip)
    <3>1. p = q /\ routes' = OthersRoutes(p) /\ host_routes' = host_routes
      BY <2>0, <2>1 DEF RemoveNetworks
    <3>2. CASE host_routes[ip] # None
      BY <3>1, <3>2 DEF lookup
    <3>3. CASE host_routes[ip] = None
      <4>1. BestRoute(routes, ip).peer_addr # p
        BY <3>3 DEF lookup
      <4>2. Withdrawn(BestRoute(OthersRoutes(p), ip), BestRoute(routes, ip), p)
        BY <2>0, OthersStay
      <4>3. BestRoute(routes', ip) = BestRoute(routes, ip)
        BY <3>1, <4>1, <4>2 DEF Withdrawn
      <4> QED BY <3>1, <3>3, <4>3 DEF lookup
    <3> QED BY <3>2, <3>3
  <2>2. ASSUME RemoveHosts PROVE lookup(ip)' = lookup(ip)
    <3>1. p = removing /\ routes' = routes
      BY <2>0, <2>2 DEF RemoveHosts
    <3>2. host_routes[ip] # p
      BY <2>0 DEF lookup
    <3>3. host_routes'[ip] = host_routes[ip]
      BY <2>2, <3>1, <3>2 DEF RemoveHosts
    <3> QED BY <3>1, <3>3 DEF lookup
  <2>3. ~UNCHANGED removing
    OBVIOUS
  <2> QED BY <1>1, <2>1, <2>2, <2>3 DEF Next, add_route, add_host_route, vars
<1> HIDE DEF OnlyWithdraws
<1>2. Spec => [][OnlyWithdraws]_vars
  BY <1>1, TableIsWellFormed, PTL DEF Spec
<1> QED BY <1>2, PTL DEF RemovalOnlyWithdraws, OnlyWithdraws

\* Both assignments of remove_peer_routes (src/router.py) done, no address goes
\* to the peer, by a network route or by a host route.
THEOREM RemovedAreUnreachable == Spec => RemovedIsUnreachable
<1> DEFINE Unreachable ==
      \A p \in Peers : removing = p /\ removing' = None =>
        \A ip \in Addresses : lookup(ip)' # p
<1>1. ASSUME RoutesInv, [Next]_vars PROVE Unreachable
  <2> SUFFICES ASSUME NEW p \in Peers, removing = p, removing' = None, NEW ip \in Addresses
               PROVE  lookup(ip)' # p
    OBVIOUS
  <2>0. None \notin Peers /\ p # None /\ routes \in Seq(Entries)
    BY <1>1, RouteAssumption DEF RoutesInv
  <2>1. RemoveHosts
    BY <1>1, <2>0 DEF Next, add_route, add_host_route, RemoveNetworks, vars
  <2>2. routes' = routes /\ host_routes'[ip] # p
    BY <2>0, <2>1 DEF RemoveHosts
  <2>3. BestRoute(routes, ip).peer_addr # p
    <3>1. CASE BestRoute(routes, ip) = NoRoute
      BY <2>0, <3>1 DEF NoRoute
    <3>2. ASSUME NEW i \in Longest(ip), BestRoute(routes, ip) = routes[i]
          PROVE  BestRoute(routes, ip).peer_addr # p
      <4>1. i \in 1..Len(routes) /\ Peerless(routes, p)
        BY <1>1, <2>0 DEF Longest, RoutesInv
      <4> QED BY <3>2, <4>1 DEF Peerless
    <3> QED BY <2>0, <3>1, <3>2, FindsLongest
  <2> QED BY <2>2, <2>3 DEF lookup
<1> HIDE DEF Unreachable
<1>2. Spec => [][Unreachable]_vars
  BY <1>1, TableIsWellFormed, PTL DEF Spec
<1> QED BY <1>2, PTL DEF RemovedIsUnreachable, Unreachable

\* add_route (src/router.py) moves an address only to a longer match.
THEOREM AddingRefines == Spec => AddingOnlyRefines
<1> DEFINE Refines ==
      Len(routes') > Len(routes) =>
        LET new == Last(routes') IN
          \A ip \in Addresses :
            lookup(ip)' # lookup(ip) =>
              /\ Covers(new, ip) /\ host_routes[ip] = None
              /\ \A i \in DOMAIN routes :
                   Covers(routes[i], ip) => routes[i].prefixlen < new.prefixlen
<1>1. ASSUME RoutesInv, [Next]_vars PROVE Refines
  <2> SUFFICES ASSUME Len(routes') > Len(routes), NEW ip \in Addresses,
                      lookup(ip)' # lookup(ip)
               PROVE  /\ Covers(Last(routes'), ip) /\ host_routes[ip] = None
                      /\ \A i \in DOMAIN routes :
                           Covers(routes[i], ip) => routes[i].prefixlen < Last(routes').prefixlen
    OBVIOUS
  <2>0. routes \in Seq(Entries) /\ Len(routes) \in Nat
    BY <1>1 DEF RoutesInv
  <2>1. \A q \in Peers : ~RemoveNetworks(q)
    <3>1. \A q \in Peers : Len(OthersRoutes(q)) <= Len(routes) /\ Len(OthersRoutes(q)) \in Nat
      BY <2>0, OthersStay
    <3> QED BY <2>0, <3>1 DEF RemoveNetworks
  <2>2. add_route
    <3>1. routes' # routes
      BY <2>0
    <3> QED BY <1>1, <2>1, <3>1 DEF Next, add_host_route, RemoveHosts, vars
  <2>3. PICK new \in Entries : routes' = Append(routes, new)
    BY <2>2, EntriesAreMade DEF add_route
  <2>4. Last(routes') = new
    BY <2>0, <2>3 DEF Last
  <2>5. host_routes' = host_routes
    BY <2>2 DEF add_route
  <2>6. BestRoute(routes', ip) = BestOf(BestRoute(routes, ip), new, ip)
    BY <2>0, <2>3, SearchAppended
  <2>7. host_routes[ip] = None /\ Better(BestRoute(routes, ip), new, ip)
    BY <2>5, <2>6 DEF lookup, BestOf
  <2>8. Covers(new, ip) /\ new.prefixlen > BestRoute(routes, ip).prefixlen
    BY <2>7, MatchesIsCovers DEF Better
  <2>9. ASSUME NEW j \in DOMAIN routes, Covers(routes[j], ip)
        PROVE  routes[j].prefixlen < new.prefixlen
    <3>1. j \in 1..Len(routes) /\ routes[j].prefixlen \in Int /\ new.prefixlen \in Int
      <4>1. new.prefixlen \in Int
        BY RouteAssumption DEF Entries, PrefixLengths
      <4> QED BY <2>0, <4>1, LengthsAreNumbers
    <3>2. PICK i \in Longest(ip) : BestRoute(routes, ip) = routes[i]
      BY <2>0, <2>9, <3>1, FindsLongest
    <3>3. routes[i].prefixlen \in Int
      BY <2>0, LengthsAreNumbers DEF Longest
    <3>4. routes[j].prefixlen <= routes[i].prefixlen
      BY <2>9, <3>1, <3>2, <3>3 DEF Longest
    <3> QED BY <2>8, <3>1, <3>2, <3>3, <3>4
  <2> QED BY <2>4, <2>7, <2>8, <2>9
<1> HIDE DEF Refines
<1>2. Spec => [][Refines]_vars
  BY <1>1, TableIsWellFormed, PTL DEF Spec
<1> QED BY <1>2, PTL DEF AddingOnlyRefines, Refines
=============================================================================
