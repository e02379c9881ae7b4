--------------------------- MODULE ByteArithmetic ---------------------------
(***************************************************************************)
(* Facts about quotient and remainder by a number of any size, for numbers  *)
(* that are written to memory byte by byte and read back.                   *)
(***************************************************************************)
EXTENDS Integers, TLAPS

(* Quotient and remainder put a number together again.                      *)
LEMMA DivMod ==
  ASSUME NEW n \in Nat, NEW b \in Nat \ {0}
  PROVE  /\ n \div b \in Nat
         /\ n % b \in 0 .. b - 1
         /\ n = b * (n \div b) + (n % b)
  OBVIOUS

(* A product with a larger factor is larger.                                *)
LEMMA ProductMonotone ==
  ASSUME NEW b \in Nat, NEW x \in Int, NEW y \in Int, x <= y
  PROVE  b * x <= b * y
  OBVIOUS

LEMMA ProductNat ==
  ASSUME NEW a \in Nat, NEW b \in Nat
  PROVE  a * b \in Nat
  OBVIOUS

(* There is only one way to divide.                                         *)
LEMMA DivModUnique ==
  ASSUME NEW b \in Nat \ {0}, NEW q \in Nat, NEW r \in 0 .. b - 1
  PROVE  (b * q + r) % b = r /\ (b * q + r) \div b = q
PROOF
  <1> DEFINE n == b * q + r
             q1 == n \div b
             r1 == n % b
  <1>1. n \in Nat
    BY ProductNat
  <1>2. q1 \in Nat /\ r1 \in 0 .. b - 1 /\ n = b * q1 + r1
    BY <1>1, DivMod
  <1> HIDE DEF q1, r1
  <1>3. q1 = q
    <2>1. CASE q1 < q
      <3>1. b * (q1 + 1) <= b * q
        BY <1>2, <2>1, ProductMonotone
      <3> QED
        BY <3>1, <1>2
    <2>2. CASE q < q1
      <3>1. b * (q + 1) <= b * q1
        BY <1>2, <2>2, ProductMonotone
      <3> QED
        BY <3>1, <1>2
    <2> QED
      BY <2>1, <2>2, <1>2
  <1> QED
    BY <1>2, <1>3 DEF q1, r1

(* Both for dividends below zero, too.                                      *)
LEMMA DivModInt ==
  ASSUME NEW n \in Int, NEW b \in Nat \ {0}
  PROVE  /\ n \div b \in Int
         /\ n % b \in 0 .. b - 1
         /\ n = b * (n \div b) + (n % b)
  OBVIOUS

LEMMA RemainderUnique ==
  ASSUME NEW b \in Nat \ {0}, NEW q \in Int, NEW r \in 0 .. b - 1
  PROVE  (b * q + r) % b = r
PROOF
  <1> DEFINE n == b * q + r
             q1 == n \div b
             r1 == n % b
  <1>1. n \in Int
    OBVIOUS
  <1>2. q1 \in Int /\ r1 \in 0 .. b - 1 /\ n = b * q1 + r1
    BY <1>1, DivModInt
  <1> HIDE DEF q1, r1
  <1>3. q1 = q
    <2>1. CASE q1 < q
      <3>1. b * (q1 + 1) <= b * q
        BY <1>2, <2>1, ProductMonotone
      <3> QED
        BY <3>1, <1>2
    <2>2. CASE q < q1
      <3>1. b * (q + 1) <= b * q1
        BY <1>2, <2>2, ProductMonotone
      <3> QED
        BY <3>1, <1>2
    <2> QED
      BY <2>1, <2>2, <1>2
  <1> QED
    BY <1>2, <1>3 DEF r1

(* Dividing by b and then by c is dividing by their product.                *)
LEMMA DivDiv ==
  ASSUME NEW n \in Nat, NEW b \in Nat \ {0}, NEW c \in Nat \ {0}
  PROVE  /\ n \div (b * c) = (n \div b) \div c
         /\ n % (b * c) = b * ((n \div b) % c) + (n % b)
PROOF
  <1> DEFINE q == n \div b
             r == n % b
             t == q \div c
             u == q % c
             s == b * u + r
  <1>1. q \in Nat /\ r \in 0 .. b - 1 /\ n = b * q + r
    BY DivMod
  <1> HIDE DEF q, r
  <1>2. t \in Nat /\ u \in 0 .. c - 1 /\ q = c * t + u
    BY <1>1, DivMod
  <1> HIDE DEF t, u
  <1>3. b * c \in Nat \ {0} /\ b * u \in Nat
    BY <1>2, ProductNat
  <1>4. s \in 0 .. b * c - 1
    <2>1. b * u <= b * (c - 1)
      BY <1>2, ProductMonotone
    <2>2. b * (c - 1) = b * c - b
      OBVIOUS
    <2> QED
      BY <1>1, <1>3, <2>1, <2>2
  <1>5. n = (b * c) * t + s
    <2>1. b * (c * t + u) = (b * c) * t + b * u
      BY <1>2
    <2> QED
      BY <1>1, <1>2, <1>3, <2>1
  <1> HIDE DEF s
  <1>6. n % (b * c) = s /\ n \div (b * c) = t
    BY <1>2, <1>3, <1>4, <1>5, DivModUnique
  <1> QED
    BY <1>6 DEF s, t, u, r, q

(* Two bytes hold the remainder by the square of their size.                *)
LEMMA TwoBytes ==
  ASSUME NEW n \in Nat, NEW b \in Nat \ {0}
  PROVE  n % (b * b) = ((n \div b) % b) * b + (n % b)
PROOF
  <1> DEFINE h == (n \div b) % b
  <1>1. h \in Int
    BY DivMod
  <1>2. n % (b * b) = b * h + (n % b)
    BY DivDiv
  <1> HIDE DEF h
  <1>3. b * h = h * b
    BY <1>1
  <1> QED
    BY <1>2, <1>3 DEF h

(* Three bytes hold the remainder by the third power of their size.         *)
LEMMA ThreeBytes ==
  ASSUME NEW n \in Nat, NEW b \in Nat \ {0}
  PROVE  n % (b * (b * b)) =
           (((n \div (b * b)) % b) * b + ((n \div b) % b)) * b + (n % b)
PROOF
  <1> DEFINE q == n \div b
             w == q % (b * b)
             e == (n \div (b * b)) % b
             h == q % b
  <1>1. q \in Nat /\ b * b \in Nat \ {0}
    BY DivMod
  <1>2. n % (b * (b * b)) = b * w + (n % b)
    BY <1>1, DivDiv
  <1>3. n \div (b * b) = q \div b
    BY DivDiv
  <1>4. w = ((q \div b) % b) * b + h
    BY <1>1, TwoBytes
  <1>5. w = e * b + h
    BY <1>3, <1>4
  <1>6. q \div b \in Nat
    BY <1>1, DivMod
  <1>7. e \in Int /\ h \in Int
    BY <1>1, <1>3, <1>6, DivMod
  <1> HIDE DEF w, e, h
  <1>8. b * w = (e * b + h) * b
    BY <1>5, <1>7
  <1> QED
    BY <1>2, <1>8 DEF e, h, q

=============================================================================
