------------------------- MODULE PointerTheorems -------------------------
(***************************************************************************)
(* Facts about free-running pointers that the proofs of the rings share:   *)
(* distances modulo the pointer range, slots of a ring, and the least and  *)
(* greatest members that stand in for induction.                           *)
(***************************************************************************)
EXTENDS Integers, WellFoundedInduction, TLAPS


\* A remainder is in range.
LEMMA Remainder ==
    ASSUME NEW m \in Nat \ {0}, NEW x \in Int
    PROVE  x % m \in 0 .. m - 1
OBVIOUS

\* Differences and successors of remainders, without the modulo.
LEMMA Wrap ==
    ASSUME NEW m \in Nat \ {0}, NEW a \in 0 .. m - 1, NEW b \in 0 .. m - 1
    PROVE  /\ a <= b => (b - a) % m = b - a
           /\ b < a => (b - a) % m = b - a + m
           /\ (b + 1) % m = IF b = m - 1 THEN 0 ELSE b + 1
OBVIOUS

\* Numbers less than m apart with the same remainder are the same.
LEMMA SameRemainder ==
    ASSUME NEW m \in Nat \ {0}, NEW x \in Int, NEW y \in Int,
           x % m = y % m, -m < y - x, y - x < m
    PROVE  x = y
<1>1. /\ x = m * (x \div m) + (x % m) /\ x \div m \in Int
      /\ y = m * (y \div m) + (y % m) /\ y \div m \in Int
  OBVIOUS
<1>2. y - x = m * (y \div m - x \div m)
  BY <1>1
<1>3. \A n \in Int : -m < m * n /\ m * n < m => n = 0
  OBVIOUS
<1>4. y \div m - x \div m = 0
  BY <1>1, <1>2, <1>3
<1>5. y - x = 0
  BY <1>2, <1>4
<1> QED BY <1>5

\* A remainder does not see multiples.
LEMMA Multiple ==
    ASSUME NEW m \in Nat \ {0}, NEW x \in Int, NEW k \in Int
    PROVE  (x + k * m) % m = x % m
<1> DEFINE y == x + k * m
<1>1. x = m * (x \div m) + (x % m) /\ x \div m \in Int /\ x % m \in 0 .. m - 1
  OBVIOUS
<1>2. y \in Int
  OBVIOUS
<1>3. y = m * (y \div m) + (y % m) /\ y \div m \in Int /\ y % m \in 0 .. m - 1
  BY <1>2
<1>4. y = m * (x \div m + k) + (x % m)
  <2>1. k * m = m * k /\ m * (x \div m) + m * k = m * (x \div m + k)
    BY <1>1
  <2> QED BY <1>1, <2>1
<1> HIDE DEF y
<1>5. m * ((x \div m + k) - y \div m) = (y % m) - (x % m)
  BY <1>1, <1>2, <1>3, <1>4
<1>6. \A n \in Int : -m < m * n /\ m * n < m => n = 0
  OBVIOUS
<1>7. (x \div m + k) - y \div m = 0
  BY <1>1, <1>2, <1>3, <1>5, <1>6
<1>8. y % m = x % m
  BY <1>1, <1>3, <1>5, <1>7
<1> QED BY <1>8 DEF y

\* The distance from pointer a on to pointer b, for pointers modulo m.
Ahead(m, a, b) == (b - a) % m

\* The value of a distance.
LEMMA AheadValue ==
    ASSUME NEW m \in Nat \ {0}, NEW a \in 0 .. m - 1, NEW b \in 0 .. m - 1
    PROVE  Ahead(m, a, b) = IF a <= b THEN b - a ELSE b - a + m
BY Wrap DEF Ahead

\* A distance is a number of entries less than m, 0 only between equal pointers.
LEMMA AheadRange ==
    ASSUME NEW m \in Nat \ {0}, NEW a \in 0 .. m - 1, NEW b \in 0 .. m - 1
    PROVE  /\ Ahead(m, a, b) \in Nat /\ Ahead(m, a, b) < m
           /\ Ahead(m, a, b) = 0 <=> a = b
BY AheadValue

\* Distances from a pointer to two others tell the distance between these.
LEMMA AheadSplit ==
    ASSUME NEW m \in Nat \ {0},
           NEW a \in 0 .. m - 1, NEW b \in 0 .. m - 1, NEW c \in 0 .. m - 1
    PROVE  /\ Ahead(m, a, b) <= Ahead(m, a, c) =>
                Ahead(m, b, c) = Ahead(m, a, c) - Ahead(m, a, b)
           /\ Ahead(m, a, b) + Ahead(m, b, c) < m =>
                Ahead(m, a, c) = Ahead(m, a, b) + Ahead(m, b, c)
           /\ Ahead(m, a, b) = Ahead(m, a, c) => b = c
BY AheadValue

\* One step of a pointer adds one to its distance.
LEMMA AheadNext ==
    ASSUME NEW m \in Nat \ {0}, NEW a \in 0 .. m - 1, NEW b \in 0 .. m - 1,
           Ahead(m, a, b) + 1 < m
    PROVE  Ahead(m, a, (b + 1) % m) = Ahead(m, a, b) + 1
<1>1. /\ (b + 1) % m = IF b = m - 1 THEN 0 ELSE b + 1
  BY Wrap
<1> DEFINE c == (b + 1) % m
<1>2. c \in 0 .. m - 1
  BY Remainder
<1> HIDE DEF c
<1>3. /\ Ahead(m, a, b) = IF a <= b THEN b - a ELSE b - a + m
      /\ Ahead(m, a, c) = IF a <= c THEN c - a ELSE c - a + m
  BY <1>2, AheadValue
<1>4. c = IF b = m - 1 THEN 0 ELSE b + 1
  BY <1>1 DEF c
<1>5. Ahead(m, a, c) = Ahead(m, a, b) + 1
  BY <1>2, <1>3, <1>4
<1> QED BY <1>5 DEF c

\* Pointers less than a ring of r entries apart have slots of their own, when
\* the pointers wrap after a whole number of laps.
LEMMA SlotsApart ==
    ASSUME NEW r \in Nat \ {0}, NEW l \in Nat \ {0},
           NEW p \in 0 .. l * r - 1, NEW q \in 0 .. l * r - 1,
           Ahead(l * r, p, q) < r, p % r = q % r
    PROVE  p = q
<1> DEFINE m == l * r
<1>1. m \in Nat \ {0}
  OBVIOUS
<1>2. (q + m) % r = q % r
  <2>1. q \in Int /\ l \in Int
    BY <1>1
  <2>2. (q + l * r) % r = q % r
    BY <2>1, Multiple
  <2> QED BY <2>2
<1>3. p \in 0 .. m - 1 /\ q \in 0 .. m - 1 /\ Ahead(m, p, q) < r
  OBVIOUS
<1> HIDE DEF m
<1>4. CASE p <= q
  <2>1. -r < q - p /\ q - p < r
    BY <1>1, <1>3, <1>4, AheadValue
  <2> QED BY <1>1, <1>3, <2>1, SameRemainder
<1>5. CASE q < p
  <2>1. -r < (q + m) - p /\ (q + m) - p < r /\ q + m \in Int
    BY <1>1, <1>3, <1>5, AheadValue
  <2>2. p % r = (q + m) % r /\ p \in Int
    BY <1>2, <1>3
  <2>3. p = q + m
    BY <2>1, <2>2, SameRemainder
  <2> QED BY <1>1, <1>3, <2>3
<1> QED BY <1>1, <1>3, <1>4, <1>5

\* n steps of a pointer add n to its distance.
LEMMA AheadPlus ==
    ASSUME NEW m \in Nat \ {0}, NEW a \in 0 .. m - 1, NEW b \in 0 .. m - 1, NEW n \in Nat,
           Ahead(m, a, b) + n < m
    PROVE  Ahead(m, a, (b + n) % m) = Ahead(m, a, b) + n
<1> DEFINE c == (b + n) % m
<1>1. Ahead(m, a, b) = IF a <= b THEN b - a ELSE b - a + m
  BY AheadValue
<1>2. n < m
  BY <1>1
<1>3. c = IF b + n < m THEN b + n ELSE b + n - m
  BY <1>2
<1>4. c \in 0 .. m - 1
  BY <1>2, <1>3
<1> HIDE DEF c
<1>5. Ahead(m, a, c) = IF a <= c THEN c - a ELSE c - a + m
  BY <1>4, AheadValue
<1>6. Ahead(m, a, c) = Ahead(m, a, b) + n
  BY <1>1, <1>2, <1>3, <1>5
<1> QED BY <1>6 DEF c

\* From a pointer, its distance to another leads to the other.
LEMMA AheadBack ==
    ASSUME NEW m \in Nat \ {0}, NEW a \in 0 .. m - 1, NEW b \in 0 .. m - 1
    PROVE  (a + Ahead(m, a, b)) % m = b
<1>1. Ahead(m, a, b) = IF a <= b THEN b - a ELSE b - a + m
  BY AheadValue
<1>2. CASE a <= b
  BY <1>1, <1>2
<1>3. CASE b < a
  <2>1. (b + m) % m = b
    OBVIOUS
  <2>2. a + Ahead(m, a, b) = b + m
    BY <1>1, <1>3
  <2> QED BY <2>1, <2>2
<1> QED BY <1>2, <1>3

\* The slot of a pointer that has wrapped is the slot of the sum it was before.
LEMMA SlotOfWrapped ==
    ASSUME NEW r \in Nat \ {0}, NEW l \in Nat \ {0}, NEW x \in Int
    PROVE  (x % (l * r)) % r = x % r
<1> DEFINE m == l * r
           d == x \div m
<1>1. m \in Nat \ {0}
  OBVIOUS
<1> HIDE DEF m
<1>2. x = m * d + (x % m) /\ d \in Int /\ x % m \in Int
  BY <1>1
<1> HIDE DEF d
<1>3. m * d = (l * d) * r /\ l * d \in Int
  BY <1>2 DEF m
<1>4. x = (x % m) + (l * d) * r
  BY <1>2, <1>3
<1>5. ((x % m) + (l * d) * r) % r = (x % m) % r
  BY <1>2, <1>3, Multiple
<1>6. x % r = (x % m) % r
  BY <1>4, <1>5
<1> QED BY <1>6 DEF m

\* A set of naturals has a least member.
LEMMA LeastExists ==
    ASSUME NEW T \in SUBSET Nat, T # {}
    PROVE  \E x \in T : \A y \in T : x <= y
<1> DEFINE R == OpToRel(<, Nat)
<1>1. IsWellFoundedOn(R, Nat)
  BY NatLessThanWellFounded
<1>2. \A a, b \in Nat : a < b => <<a, b>> \in R
  BY DEF OpToRel
<1> HIDE DEF R
<1>3. PICK x \in T : \A y \in T : ~(<<y, x>> \in R)
  BY <1>1, WFMin
<1>4. \A y \in T : ~(y < x) /\ y \in Nat /\ x \in Nat
  BY <1>2, <1>3
<1>5. \A y \in T : x <= y
  BY <1>4
<1> QED BY <1>5

\* A bounded set of naturals has a greatest member.
LEMMA GreatestExists ==
    ASSUME NEW D \in Nat, NEW T \in SUBSET (0..D), T # {}
    PROVE  \E x \in T : \A y \in T : y <= x
<1> DEFINE U == {D - x : x \in T}
<1>1. \A x \in T : D - x \in Nat /\ x \in Nat
  OBVIOUS
<1>2. U \in SUBSET Nat
  BY <1>1
<1>3. U # {}
  OBVIOUS
<1> HIDE DEF U
<1>4. PICK u \in U : \A v \in U : u <= v
  BY <1>2, <1>3, LeastExists
<1>5. PICK x \in T : u = D - x
  BY DEF U
<1>6. \A y \in T : D - y \in U
  BY DEF U
<1>7. \A y \in T : y <= x
  BY <1>1, <1>4, <1>5, <1>6
<1> QED BY <1>7

============================================================================
