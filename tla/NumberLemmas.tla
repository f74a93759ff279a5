---------------------------- MODULE NumberLemmas ----------------------------
(***************************************************************************)
(* Facts about natural numbers that the proofs about lists and counters    *)
(* need: the first and the last number of a set, and quotients and         *)
(* remainders by a number that is not known.                               *)
(***************************************************************************)
EXTENDS Integers, FiniteSetsExt, TLAPS, WellFoundedInduction

-----------------------------------------------------------------------------
(* Positions. *)

\* A set of positions has a first one.
LEMMA FirstOf ==
    ASSUME NEW S, S \subseteq Nat, S # {}
    PROVE  /\ Min(S) \in S
           /\ \A y \in S : Min(S) <= y
  <1> DEFINE Less == {p \in Nat \X Nat : p[1] < p[2]}
  <1>1. IsWellFoundedOn(Less, Nat)
    BY NatLessThanWellFounded DEF OpToRel
  <1> HIDE DEF Less
  <1>2. PICK x \in S : \A y \in S : ~ <<y, x>> \in Less
    BY <1>1, WFMin
  <1>3. ASSUME NEW y \in S PROVE x =< y
    <2>1. <<y, x>> \in Nat \X Nat /\ <<y, x>>[1] = y /\ <<y, x>>[2] = x
      OBVIOUS
    <2>2. ~ <<y, x>>[1] < <<y, x>>[2]
      BY <2>1, <1>2 DEF Less
    <2> QED  BY <2>1, <2>2
  <1> QED  BY <1>3 DEF Min

\* A set of positions that has a bound has a last one.
LEMMA LastOf ==
    ASSUME NEW S, NEW n \in Nat, S \subseteq 0..n, S # {}
    PROVE  /\ Max(S) \in S
           /\ \A y \in S : y <= Max(S)
  <1> DEFINE R == {n - x : x \in S}
  <1>1. R \subseteq Nat /\ R # {}
    <2>1. PICK x \in S : TRUE
      OBVIOUS
    <2>2. n - x \in R
      BY <2>1
    <2>3. \A y \in S : n - y \in Nat
      OBVIOUS
    <2> QED  BY <2>2, <2>3
  <1>2. Min(R) \in R /\ \A y \in R : Min(R) <= y
    BY <1>1, FirstOf
  <1>3. PICK x \in S : Min(R) = n - x
    BY <1>2
  <1>4. \A y \in S : x >= y
    BY <1>2, <1>3
  <1> QED  BY <1>4 DEF Max

-----------------------------------------------------------------------------
(* Quotients and remainders. *)

\* A quotient and its remainder.
LEMMA DivMod ==
    ASSUME NEW a \in Nat, NEW b \in Nat \ {0}
    PROVE  /\ a \div b \in Nat /\ a % b \in Nat /\ a % b < b
           /\ a = b * (a \div b) + (a % b)
  <1>1. a \div b \in Nat /\ a % b \in Nat /\ a % b < b
    OBVIOUS
  <1>2. a % b = a - b * (a \div b)
    OBVIOUS
  <1>3. b * (a \div b) \in Nat
    BY <1>1
  <1> QED  BY <1>1, <1>2, <1>3

LEMMA MulLess ==
    ASSUME NEW b \in Nat \ {0}, NEW p \in Int, NEW q \in Int, p < q
    PROVE  b * p + b <= b * q
  <1>1. q - p - 1 \in Nat
    OBVIOUS
  <1>2. b * (q - p - 1) >= 0
    BY <1>1
  <1>3. b * (q - p - 1) = b * q - b * p - b
    OBVIOUS
  <1>4. b * q \in Int /\ b * p \in Int
    OBVIOUS
  <1> QED  BY <1>2, <1>3, <1>4

\* There is no other.
LEMMA DivIs ==
    ASSUME NEW a \in Nat, NEW b \in Nat \ {0}, NEW q \in Nat, NEW r \in Nat, r < b, a = b * q + r
    PROVE  q = a \div b
  <1> DEFINE p == a \div b
             x == a % b
  <1>1. p \in Nat /\ x \in Nat /\ x < b /\ a = b * p + x
    BY DivMod
  <1> HIDE DEF p, x
  <1>2. b * p \in Int /\ b * q \in Int
    BY <1>1
  <1>3. ~ p < q
    <2>1. ASSUME p < q PROVE b * p + b <= b * q
      BY <2>1, <1>1, MulLess
    <2>2. a < b * p + b /\ b * q <= a
      BY <1>1, <1>2
    <2> QED  BY <2>1, <2>2, <1>1, <1>2
  <1>4. ~ q < p
    <2>1. ASSUME q < p PROVE b * q + b <= b * p
      BY <2>1, <1>1, MulLess
    <2>2. a < b * q + b /\ b * p <= a
      BY <1>1, <1>2
    <2> QED  BY <2>1, <2>2, <1>1, <1>2
  <1> QED  BY <1>1, <1>3, <1>4 DEF p

LEMMA DivByOne == ASSUME NEW a \in Nat PROVE a \div 1 = a
  OBVIOUS

\* Dividing twice is dividing by the product.
LEMMA DivDiv ==
    ASSUME NEW a \in Nat, NEW b \in Nat \ {0}, NEW c \in Nat \ {0}
    PROVE  (a \div b) \div c = a \div (b * c)
  <1> DEFINE q == a \div b
             r == a % b
             p == q \div c
             s == q % c
  <1>1. q \in Nat /\ r \in Nat /\ r < b /\ a = b * q + r
    BY DivMod
  <1>2. p \in Nat /\ s \in Nat /\ s < c /\ q = c * p + s
    BY <1>1, DivMod
  <1> HIDE DEF q, r, p, s
  <1>3. b * c \in Nat \ {0}
    OBVIOUS
  <1>4. b * s + r \in Nat /\ b * s + r < b * c
    <2>1. b * s + b <= b * c
      BY <1>2, MulLess
    <2>2. b * s \in Nat
      BY <1>2
    <2> QED  BY <2>1, <2>2, <1>1, <1>3
  <1>5. a = (b * c) * p + (b * s + r)
    <2>1. b * q = b * (c * p) + b * s
      BY <1>2
    <2>2. b * (c * p) = (b * c) * p
      BY <1>2
    <2>3. b * (c * p) \in Int /\ b * s \in Int
      BY <1>2
    <2> QED  BY <2>1, <2>2, <2>3, <1>1
  <1>6. p = a \div (b * c)
    BY <1>2, <1>3, <1>4, <1>5, DivIs
  <1> QED  BY <1>6 DEF p, q

\* The remainder of a sum is that of the sum of a remainder.
LEMMA ModOfSum ==
    ASSUME NEW a \in Nat, NEW b \in Nat \ {0}, NEW c \in Int, a + c \in Nat, (a % b) + c \in Nat
    PROVE  ((a % b) + c) % b = (a + c) % b
  <1> DEFINE q == a \div b
             x == (a % b) + c
             p == x \div b
             s == x % b
  <1>1. q \in Nat /\ a % b \in Nat /\ a = b * q + (a % b)
    BY DivMod
  <1>2. p \in Nat /\ s \in Nat /\ s < b /\ x = b * p + s
    BY DivMod
  <1>3. a + c = b * q + x /\ b * q \in Nat
    BY <1>1
  <1> HIDE DEF q, x, p, s
  <1>4. a + c = b * (q + p) + s /\ q + p \in Nat
    <2>1. b * (q + p) = b * q + b * p /\ b * p \in Nat
      BY <1>1, <1>2
    <2> QED  BY <2>1, <1>1, <1>2, <1>3
  <1>5. q + p = (a + c) \div b
    BY <1>2, <1>4, DivIs
  <1>6. (a + c) % b = (a + c) - b * ((a + c) \div b)
    OBVIOUS
  <1>7. (a + c) % b = s
    BY <1>2, <1>4, <1>5, <1>6
  <1> QED  BY <1>7 DEF x, s

LEMMA ModOfSmall == ASSUME NEW a \in Nat, NEW b \in Nat, a < b PROVE a % b = a
  OBVIOUS

LEMMA ModOfRing ==
    ASSUME NEW a \in Nat, NEW b \in Nat \ {0} PROVE (a + b) % b = a % b
  <1> DEFINE q == a \div b
             s == a % b
  <1>1. q \in Nat /\ s \in Nat /\ s < b /\ a = b * q + s
    BY DivMod
  <1> HIDE DEF q, s
  <1>2. b * (q + 1) = b * q + b /\ b * q \in Nat /\ q + 1 \in Nat
    BY <1>1
  <1>3. a + b = b * (q + 1) + s
    BY <1>1, <1>2
  <1>4. q + 1 = (a + b) \div b
    BY <1>1, <1>2, <1>3, DivIs
  <1>5. (a + b) % b = (a + b) - b * ((a + b) \div b)
    OBVIOUS
  <1>6. (a + b) % b = s
    BY <1>1, <1>2, <1>3, <1>4, <1>5
  <1> QED  BY <1>6 DEF s
=============================================================================
