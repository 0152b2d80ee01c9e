------------------------------- MODULE Arithmetic -------------------------------
(***************************************************************************)
(* What the proofs need of numbers: counting up and down, the remainders   *)
(* of a division, powers of two, and the sums of SumFunctionOnSet.  The    *)
(* induction is over sets of numbers and of subsets.                       *)
(***************************************************************************)
EXTENDS Integers, Functions, FiniteSetTheorems, TLAPS

-------------------------------------------------------------------------------
(* Counting *)

(* A set of numbers has a smallest one *)
LEMMA Smallest ==
  ASSUME NEW T, T \subseteq Nat, T # {}
  PROVE  \E m \in T : \A k \in T : m <= k
<1> DEFINE R == OpToRel(<, Nat)
<1>1. \A x, y \in Nat : <<y, x>> \in R <=> y < x
  BY DEF OpToRel
<1>2. IsWellFoundedOn(R, Nat)
  BY NatLessThanWellFounded
<1> HIDE DEF R
<1>3. PICK m \in T : \A y \in T : <<y, m>> \notin R
  BY <1>2, WFMin
<1>4. \A k \in T : k \in Nat /\ m \in Nat /\ ~(k < m)
  BY <1>1, <1>3
<1>5. \A k \in T : m <= k
  BY <1>4
<1> QED BY <1>5

(* Counting up from 0 reaches every number *)
LEMMA CountUp ==
  ASSUME NEW P, 0 \in P, \A n \in Nat : n \in P => n + 1 \in P
  PROVE  \A n \in Nat : n \in P
<1> DEFINE Bad == { n \in Nat : n \notin P }
<1>1. Bad = {}
  <2> SUFFICES ASSUME Bad # {} PROVE FALSE
    OBVIOUS
  <2>1. PICK m \in Bad : \A k \in Bad : m <= k
    BY Smallest
  <2>2. m \in Nat /\ m \notin P /\ m # 0
    BY <2>1
  <2>3. m - 1 \in Nat /\ ~(m <= m - 1)
    BY <2>2
  <2>4. m - 1 \in P
    BY <2>1, <2>3
  <2>5. (m - 1) + 1 \in P
    BY <2>3, <2>4
  <2> QED BY <2>2, <2>5
<1> QED BY <1>1

(* Taking one element away after the other comes down to the empty set *)
LEMMA CountDown ==
  ASSUME NEW S, IsFiniteSet(S), NEW P,
         \A T \in SUBSET S : (\A x \in T : T \ {x} \in P) => T \in P
  PROVE  \A T \in SUBSET S : T \in P
<1> DEFINE Q == { n \in Nat : \A T \in SUBSET S : Cardinality(T) = n => T \in P }
<1>0. \A T \in SUBSET S : /\ IsFiniteSet(T) /\ Cardinality(T) \in Nat
                          /\ (Cardinality(T) = 0 <=> T = {})
  BY FS_Subset, FS_CardinalityType, FS_EmptySet
<1>1. 0 \in Q
  BY <1>0
<1>2. ASSUME NEW n \in Nat, n \in Q
      PROVE  n + 1 \in Q
  <2> SUFFICES ASSUME NEW T \in SUBSET S, Cardinality(T) = n + 1
               PROVE  T \in P
    OBVIOUS
  <2>1. ASSUME NEW x \in T
        PROVE  T \ {x} \in P
    <3>1. Cardinality(T \ {x}) = Cardinality(T) - 1
      BY <1>0, FS_RemoveElement
    <3>2. Cardinality(T \ {x}) = n
      BY <3>1
    <3> QED BY <3>2, <1>2
  <2> QED BY <2>1
<1> HIDE DEF Q
<1>3. \A n \in Nat : n \in Q
  BY <1>1, <1>2, CountUp
<1> QED BY <1>0, <1>3 DEF Q

(* Adding one element after the other reaches every finite set *)
LEMMA AddUp ==
  ASSUME NEW S, IsFiniteSet(S), NEW P, {} \in P,
         \A T \in SUBSET S, x \in S : T \in P /\ x \notin T => T \cup {x} \in P
  PROVE  S \in P
<1>1. ASSUME NEW T \in SUBSET S, \A x \in T : T \ {x} \in P
      PROVE  T \in P
  <2>1. CASE T = {}
    BY <2>1
  <2>2. CASE T # {}
    <3>1. PICK x \in T : TRUE
      BY <2>2
    <3>2. T \ {x} \in P /\ x \notin T \ {x} /\ T \ {x} \in SUBSET S /\ x \in S
      BY <3>1, <1>1
    <3>3. (T \ {x}) \cup {x} \in P
      BY <3>2
    <3>4. (T \ {x}) \cup {x} = T
      BY <3>1
    <3> QED BY <3>3, <3>4
  <2> QED BY <2>1, <2>2
<1>2. \A T \in SUBSET S : T \in P
  BY <1>1, CountDown
<1> QED BY <1>2

(* A set with one element more has twice as many subsets *)
LEMMA PowerTwo ==
  ASSUME NEW n \in Nat
  PROVE  2 ^ n \in Nat \ {0} /\ 2 ^ (n + 1) = 2 * 2 ^ n
<1> DEFINE A == 1 .. n
           B == 1 .. (n + 1)
           a == n + 1
           X == SUBSET A
           Y == { T \cup {a} : T \in X }
           f == [T \in X |-> T \cup {a}]
<1>1. /\ IsFiniteSet(A) /\ Cardinality(A) = n
      /\ IsFiniteSet(B) /\ Cardinality(B) = n + 1
  <2> DEFINE m == n + 1
  <2>1. m \in Int /\ 1 \in Int /\ n \in Int /\ m = n + 1
    OBVIOUS
  <2>2. /\ IsFiniteSet(A) /\ Cardinality(A) = IF 1 > n THEN 0 ELSE n - 1 + 1
    BY <2>1, FS_Interval
  <2>3. /\ IsFiniteSet(B) /\ Cardinality(B) = IF 1 > m THEN 0 ELSE m - 1 + 1
    <3> HIDE DEF m
    <3> QED BY <2>1, FS_Interval
  <2> QED BY <2>2, <2>3
<1>2. a \notin A /\ B = A \cup {a}
  OBVIOUS
<1> HIDE DEF A, B, a
<1>3. /\ IsFiniteSet(X) /\ Cardinality(X) = 2 ^ n
      /\ IsFiniteSet(SUBSET B) /\ Cardinality(SUBSET B) = 2 ^ (n + 1)
  BY <1>1, FS_SUBSET
<1>4. SUBSET B = X \cup Y /\ X \cap Y = {}
  <2>1. ASSUME NEW T \in SUBSET B
        PROVE  T \in X \cup Y
    <3>1. CASE a \in T
      <4>1. T \ {a} \in X /\ T = (T \ {a}) \cup {a}
        BY <1>2, <3>1
      <4> QED BY <4>1
    <3>2. CASE a \notin T
      BY <1>2, <3>2
    <3> QED BY <3>1, <3>2
  <2> QED BY <1>2, <2>1
<1>5. f \in Bijection(X, Y)
  <2>1. f \in [X -> Y]
    OBVIOUS
  <2>2. ASSUME NEW S \in X, NEW T \in X, f[S] = f[T]
        PROVE  S = T
    <3>1. S \cup {a} = T \cup {a} /\ a \notin S /\ a \notin T
      BY <1>2, <2>2
    <3> HIDE DEF f, X, Y
    <3> QED BY <3>1
  <2>3. f \in Injection(X, Y)
    <3> HIDE DEF f, X, Y
    <3> QED BY <2>1, <2>2 DEF Injection, IsInjective
  <2>4. \A y \in Y : \E T \in X : f[T] = y
    OBVIOUS
  <2> HIDE DEF f, X, Y
  <2> QED BY <2>1, <2>3, <2>4 DEF Bijection, Surjection
<1> HIDE DEF f, X, Y
<1>6. IsFiniteSet(Y) /\ Cardinality(Y) = Cardinality(X)
  BY <1>3, <1>5, FS_Bijection DEF ExistsBijection
<1>7. Cardinality(X \cup Y) = Cardinality(X) + Cardinality(Y) - Cardinality({})
  BY <1>3, <1>4, <1>6, FS_Union
<1>8. Cardinality({}) = 0
  BY FS_EmptySet
<1>9. {} \in X /\ Cardinality(X) \in Nat
  BY <1>3, FS_CardinalityType DEF X
<1>10. Cardinality(X) # 0
  BY <1>3, <1>9, FS_EmptySet
<1> DEFINE c == Cardinality(X)
           d == Cardinality(X \cup Y)
<1>11. c \in Nat /\ d = c + c - 0
  BY <1>6, <1>7, <1>8, <1>9
<1>12. c = 2 ^ n /\ c # 0 /\ d = 2 ^ (n + 1)
  BY <1>3, <1>4, <1>10
<1> HIDE DEF c, d
<1>13. d = 2 * c /\ c \in Nat \ {0}
  BY <1>11, <1>12
<1> QED BY <1>12, <1>13

-------------------------------------------------------------------------------
(* Remainders *)

(* Division leaves one remainder only *)
LEMMA Remainder ==
  ASSUME NEW M \in Nat \ {0}, NEW a \in Int, NEW q \in Int,
         NEW b \in 0 .. (M - 1), a = M * q + b
  PROVE  a % M = b
<1> DEFINE p == a \div M
           c == a % M
<1>1. p \in Int /\ c \in 0 .. (M - 1) /\ a = M * p + c
  OBVIOUS
<1> HIDE DEF p, c
<1>2. M * q + b = M * p + c
  BY <1>1
<1>3. p = q
  <2>1. CASE p >= q + 1
    <3>1. M * p >= M * (q + 1)
      BY <1>1, <2>1
    <3> QED BY <1>1, <1>2, <3>1
  <2>2. CASE q >= p + 1
    <3>1. M * q >= M * (p + 1)
      BY <1>1, <2>2
    <3> QED BY <1>1, <1>2, <3>1
  <2> QED BY <1>1, <2>1, <2>2
<1>4. b = c
  BY <1>1, <1>2, <1>3
<1> QED BY <1>4 DEF c

(* What division leaves, and how often it divides *)
LEMMA Division ==
  ASSUME NEW M \in Nat \ {0}, NEW a \in Int
  PROVE  /\ a % M \in 0 .. (M - 1)
         /\ \E q \in Int : a = M * q + (a % M)
<1>1. a % M \in 0 .. (M - 1)
  OBVIOUS
<1>2. a \div M \in Int /\ a = M * (a \div M) + (a % M)
  OBVIOUS
<1> QED BY <1>1, <1>2

(* Multiples of the modulus do not matter *)
LEMMA SameResidue ==
  ASSUME NEW M \in Nat \ {0}, NEW a \in Int, NEW b \in Int, NEW q \in Int,
         a = b + M * q
  PROVE  a % M = b % M
<1>1. PICK p \in Int : b = M * p + (b % M)
  BY Division
<1>2. b % M \in 0 .. (M - 1)
  BY Division
<1> DEFINE c == b % M
<1>3. c \in 0 .. (M - 1) /\ b = M * p + c
  BY <1>1, <1>2
<1> HIDE DEF c
<1>4. a = M * (p + q) + c
  BY <1>3
<1>5. a % M = c
  BY <1>3, <1>4, Remainder
<1> QED BY <1>5 DEF c

(* The quotient *)
LEMMA Quotient ==
  ASSUME NEW Q \in Nat \ {0}, NEW a \in Int, NEW q \in Int, NEW b \in 0 .. (Q - 1), a = Q * q + b
  PROVE  a \div Q = q
<1> DEFINE p == a \div Q
           c == a % Q
<1>1. p \in Int /\ c \in 0 .. (Q - 1) /\ a = Q * p + c
  OBVIOUS
<1> HIDE DEF p, c
<1>2. Q * (p - q) = b - c /\ b - c < Q /\ c - b < Q
  BY <1>1
<1>3. p - q < 1 /\ q - p < 1
  <2>1. p - q >= 1 => Q * (p - q) >= Q
    BY <1>1
  <2>2. q - p >= 1 => Q * (q - p) >= Q
    BY <1>1
  <2>3. Q * (q - p) = c - b
    BY <1>1
  <2> QED BY <1>1, <1>2, <2>1, <2>2, <2>3
<1>4. p = q
  BY <1>1, <1>3
<1> QED BY <1>4 DEF p

(* The quotient of a difference is that of the quotients, or one more *)
LEMMA QuotientDifference ==
  ASSUME NEW Q \in Nat \ {0}, NEW a \in Int, NEW b \in Int
  PROVE  /\ a \div Q \in Int /\ b \div Q \in Int /\ (a - b) \div Q \in Int
         /\ \E e \in 0 .. 1 : (a \div Q) - (b \div Q) = ((a - b) \div Q) + e
<1> DEFINE p == a \div Q
           q == b \div Q
           c == a % Q
           d == b % Q
           f == (a - b) \div Q
<1>1. /\ p \in Int /\ c \in 0 .. (Q - 1) /\ a = Q * p + c
      /\ q \in Int /\ d \in 0 .. (Q - 1) /\ b = Q * q + d
  OBVIOUS
<1> HIDE DEF p, q, c, d
<1>2. f \in Int /\ \E e \in 0 .. 1 : p - q = f + e
  <2>1. CASE c >= d
    <3>1. a - b = Q * (p - q) + (c - d) /\ c - d \in 0 .. (Q - 1) /\ p - q \in Int /\ a - b \in Int
      BY <1>1, <2>1
    <3>2. f = p - q
      BY <3>1, Quotient
    <3> HIDE DEF f
    <3>3. p - q = f + 0
      BY <3>1, <3>2
    <3> QED BY <3>1, <3>2, <3>3
  <2>2. CASE c < d
    <3> DEFINE g == p - q - 1
               h == c - d + Q
               i == a - b
    <3>1. i = Q * g + h /\ h \in 0 .. (Q - 1) /\ g \in Int /\ i \in Int
      BY <1>1, <2>2
    <3>2. i \div Q = g
      <4> HIDE DEF g, h, i
      <4> QED BY <3>1, Quotient
    <3>3. f = p - q - 1
      BY <3>2
    <3> HIDE DEF f
    <3>4. f \in Int /\ p - q = f + 1
      BY <1>1, <3>3
    <3> QED BY <3>4
  <2> QED BY <1>1, <2>1, <2>2
<1> HIDE DEF f
<1> QED BY <1>1, <1>2 DEF p, q, f

(* Dividing twice, and what dividing does to the order *)
LEMMA QuotientTwice ==
  ASSUME NEW Q \in Nat \ {0}, NEW a \in Int
  PROVE  (a \div Q) \div 2 = a \div (2 * Q)
<1> DEFINE p == a \div Q
           c == a % Q
           h == p \div 2
           b == p % 2
<1>1. p \in Int /\ c \in 0 .. (Q - 1) /\ a = Q * p + c
  OBVIOUS
<1> HIDE DEF p, c
<1>2. h \in Int /\ b \in 0 .. 1 /\ p = 2 * h + b
  BY <1>1
<1> HIDE DEF h, b
<1> DEFINE R == 2 * Q
           d == Q * b + c
<1>3. d = c \/ d = Q + c
  BY <1>1, <1>2
<1>4. R \in Nat \ {0} /\ d \in 0 .. (R - 1)
  BY <1>1, <1>3
<1>5. a = R * h + d
  BY <1>1, <1>2
<1> HIDE DEF R, d
<1>6. a \div R = h
  BY <1>2, <1>4, <1>5, Quotient
<1> QED BY <1>6 DEF R, h, p

LEMMA QuotientOrder ==
  ASSUME NEW Q \in Nat \ {0}, NEW a \in Int, NEW b \in Int, a <= b
  PROVE  a \div Q <= b \div Q
<1> DEFINE p == a \div Q
           c == a % Q
           q == b \div Q
           d == b % Q
<1>1. /\ p \in Int /\ c \in 0 .. (Q - 1) /\ a = Q * p + c
      /\ q \in Int /\ d \in 0 .. (Q - 1) /\ b = Q * q + d
  OBVIOUS
<1> HIDE DEF p, q, c, d
<1>2. p > q => Q * (p - q) >= Q
  BY <1>1
<1>3. Q * (p - q) = (a - b) + (d - c)
  BY <1>1
<1>4. p <= q
  BY <1>1, <1>2, <1>3
<1> QED BY <1>4 DEF p, q

(* One of two neighbours is even *)
LEMMA HalfProduct ==
  ASSUME NEW a \in Int
  PROVE  ((a * (a + 1)) \div 2) \in Int /\ 2 * ((a * (a + 1)) \div 2) = a * (a + 1)
<1>1. \E k \in Int : a * (a + 1) = 2 * k
  <2> DEFINE q == a \div 2
  <2>1. q \in Int /\ (a = 2 * q \/ a = 2 * q + 1)
    OBVIOUS
  <2> HIDE DEF q
  <2>2. CASE a = 2 * q
    <3>1. a * (a + 1) = 2 * (q * (a + 1)) /\ q * (a + 1) \in Int
      BY <2>1, <2>2
    <3> QED BY <3>1
  <2>3. CASE a = 2 * q + 1
    <3>1. a * (a + 1) = 2 * (a * (q + 1)) /\ a * (q + 1) \in Int
      BY <2>1, <2>3
    <3> QED BY <3>1
  <2> QED BY <2>1, <2>2, <2>3
<1>2. PICK k \in Int : a * (a + 1) = 2 * k
  BY <1>1
<1>3. (2 * k) \div 2 = k
  OBVIOUS
<1> QED BY <1>2, <1>3

(* Numbers that are the same modulo M.  The lemmas are about all integers,  *)
(* so that a chain of them needs no other fact than the types.              *)
Same(M, a, b) == a % M = b % M

LEMMA SameEqual ==
  ASSUME NEW M \in Nat \ {0}, NEW a \in 0 .. (M - 1), NEW b \in 0 .. (M - 1), Same(M, a, b)
  PROVE  a = b
<1>1. a = M * 0 + a /\ b = M * 0 + b /\ a \in Int /\ b \in Int /\ 0 \in Int
  OBVIOUS
<1>2. a % M = a
  BY <1>1, Remainder
<1>3. b % M = b
  BY <1>1, Remainder
<1> QED BY <1>2, <1>3 DEF Same

LEMMA SameTrans ==
  ASSUME NEW M, NEW a, NEW b, NEW c, Same(M, a, b), Same(M, b, c)
  PROVE  Same(M, a, c)
BY DEF Same

LEMMA SameSym ==
  ASSUME NEW M, NEW a, NEW b, Same(M, a, b)
  PROVE  Same(M, b, a)
BY DEF Same

LEMMA SameShift ==
  ASSUME NEW M \in Nat \ {0}, NEW a \in Int, NEW b \in Int
  PROVE  Same(M, a, b) <=> \E q \in Int : a = b + M * q
<1>1. ASSUME Same(M, a, b)
      PROVE  \E q \in Int : a = b + M * q
  <2>1. PICK p \in Int : a = M * p + (a % M)
    BY Division
  <2>2. PICK q \in Int : b = M * q + (b % M)
    BY Division
  <2> DEFINE c == b % M
  <2>3. c \in Int /\ a = M * p + c /\ b = M * q + c
    BY <2>1, <2>2, <1>1 DEF Same
  <2> HIDE DEF c
  <2>4. a = b + M * (p - q) /\ p - q \in Int
    BY <2>3
  <2> QED BY <2>4
<1>2. ASSUME \E q \in Int : a = b + M * q
      PROVE  Same(M, a, b)
  BY <1>2, SameResidue DEF Same
<1> QED BY <1>1, <1>2

LEMMA SameMod ==
  ASSUME NEW M \in Nat \ {0}, NEW a \in Int
  PROVE  a % M \in Int /\ a % M \in 0 .. (M - 1) /\ Same(M, a % M, a) /\ Same(M, a, a % M)
<1> DEFINE b == a % M
<1>1. b \in 0 .. (M - 1) /\ b \in Int /\ b = M * 0 + b /\ 0 \in Int
  BY Division
<1>2. b = a % M
  OBVIOUS
<1> HIDE DEF b
<1>3. b % M = b
  BY <1>1, Remainder
<1>4. Same(M, b, a) /\ Same(M, a, b)
  BY <1>2, <1>3 DEF Same
<1> QED BY <1>1, <1>4 DEF b

LEMMA ModShift ==
  ASSUME NEW M \in Nat \ {0}, NEW a \in Int
  PROVE  a % M \in Int /\ \E q \in Int : (a % M) = a + M * q
<1> DEFINE b == a % M
<1>1. b \in Int /\ Same(M, b, a)
  BY SameMod
<1> HIDE DEF b
<1>2. \E q \in Int : b = a + M * q
  BY <1>1, SameShift
<1> QED BY <1>1, <1>2 DEF b

LEMMA SamePlus ==
  ASSUME NEW M \in Nat \ {0}, NEW a \in Int, NEW b \in Int, NEW c \in Int, NEW d \in Int,
         Same(M, a, b), Same(M, c, d)
  PROVE  Same(M, a + c, b + d)
<1>1. PICK p \in Int : a = b + M * p
  BY SameShift
<1>2. PICK q \in Int : c = d + M * q
  BY SameShift
<1>3. a + c = (b + d) + M * (p + q) /\ p + q \in Int /\ a + c \in Int /\ b + d \in Int
  BY <1>1, <1>2
<1> QED BY <1>3, SameShift

LEMMA SameMinus ==
  ASSUME NEW M \in Nat \ {0}, NEW a \in Int, NEW b \in Int, NEW c \in Int, NEW d \in Int,
         Same(M, a, b), Same(M, c, d)
  PROVE  Same(M, a - c, b - d)
<1>1. PICK p \in Int : a = b + M * p
  BY SameShift
<1>2. PICK q \in Int : c = d + M * q
  BY SameShift
<1>3. a - c = (b - d) + M * (p - q) /\ p - q \in Int /\ a - c \in Int /\ b - d \in Int
  BY <1>1, <1>2
<1> QED BY <1>3, SameShift

LEMMA SameTimes ==
  ASSUME NEW M \in Nat \ {0}, NEW a \in Int, NEW b \in Int, NEW c \in Int,
         Same(M, a, b)
  PROVE  Same(M, c * a, c * b)
<1>1. PICK p \in Int : a = b + M * p
  BY SameShift
<1>2. c * a = c * b + M * (c * p) /\ c * p \in Int /\ c * a \in Int /\ c * b \in Int
  BY <1>1
<1> QED BY <1>2, SameShift

LEMMA SameProduct ==
  ASSUME NEW M \in Nat \ {0}, NEW a \in Int, NEW b \in Int, NEW c \in Int, NEW d \in Int,
         Same(M, a, b), Same(M, c, d)
  PROVE  Same(M, a * c, b * d)
<1>1. Same(M, c * a, c * b)
  BY SameTimes
<1>2. Same(M, b * c, b * d)
  BY SameTimes
<1>3. c * a = a * c /\ c * b = b * c
  OBVIOUS
<1> QED BY <1>1, <1>2, <1>3, SameTrans

-------------------------------------------------------------------------------
(* Sums *)

(* g sums f over the subsets of S, the way SumFunctionOnSet does *)
IsSum(f, S, g) ==
  g = [T \in SUBSET S |->
         IF T = {} THEN 0
         ELSE f[CHOOSE x \in T : TRUE] + g[T \ {CHOOSE x \in T : TRUE}]]

LEMMA SumExists ==
  ASSUME NEW f, NEW S, IsFiniteSet(S)
  PROVE  \E g : IsSum(f, S, g)
<1> DEFINE one(T) == CHOOSE x \in T : TRUE
           body(g, T) == IF T = {} THEN 0 ELSE f[one(T)] + g[T \ {one(T)}]
           upto(n) == { T \in SUBSET S : Cardinality(T) <= n }
           defined(n) == \E g : g = [T \in upto(n) |-> body(g, T)]
           P == { n \in Nat : defined(n) }
<1>0. \A T \in SUBSET S : /\ IsFiniteSet(T) /\ Cardinality(T) \in Nat
                          /\ Cardinality(T) <= Cardinality(S)
                          /\ (Cardinality(T) = 0 <=> T = {})
  BY FS_Subset, FS_CardinalityType, FS_EmptySet
<1>1. 0 \in P
  <2> DEFINE g == [T \in upto(0) |-> 0]
  <2>1. \A T \in upto(0) : T = {}
    BY <1>0
  <2>2. g = [T \in upto(0) |-> body(g, T)]
    BY <2>1
  <2> QED BY <2>2
<1>2. ASSUME NEW n \in Nat, n \in P
      PROVE  n + 1 \in P
  <2>1. PICK g : g = [T \in upto(n) |-> body(g, T)]
    BY <1>2
  <2> DEFINE h == [T \in upto(n + 1) |-> body(g, T)]
  <2>2. ASSUME NEW T \in upto(n + 1)
        PROVE  h[T] = body(h, T)
    <3>1. CASE T = {}
      BY <3>1
    <3>2. CASE T # {}
      <4> DEFINE U == T \ {one(T)}
      <4>1. one(T) \in T
        BY <3>2
      <4>2. Cardinality(U) = Cardinality(T) - 1
        BY <4>1, <1>0, FS_RemoveElement
      <4>3. U \in upto(n) /\ U \in upto(n + 1)
        BY <4>2, <1>0
      <4>4. h[U] = body(g, U)
        BY <4>3
      <4>5. g[U] = body(g, U)
        BY <2>1, <4>3, Zenon
      <4>6. h[T] = f[one(T)] + g[U]
        BY <3>2
      <4> QED BY <3>2, <4>4, <4>5, <4>6, Zenon
    <3> QED BY <3>1, <3>2
  <2>3. h = [T \in upto(n + 1) |-> h[T]]
    OBVIOUS
  <2> HIDE DEF h
  <2>4. h = [T \in upto(n + 1) |-> body(h, T)]
    BY <2>2, <2>3, Zenon
  <2>5. defined(n + 1)
    BY <2>4, Zenon
  <2> HIDE DEF defined
  <2> QED BY <2>5
<1> HIDE DEF P
<1>3. \A n \in Nat : n \in P
  BY <1>1, <1>2, CountUp
<1>4. Cardinality(S) \in P
  BY <1>3, FS_CardinalityType
<1>5. PICK g : g = [T \in upto(Cardinality(S)) |-> body(g, T)]
  BY <1>4 DEF P
<1>6. upto(Cardinality(S)) = SUBSET S
  BY <1>0
<1>7. g = [T \in SUBSET S |-> body(g, T)]
  BY <1>5, <1>6
<1> QED BY <1>7 DEF IsSum

(* There is one such function only *)
LEMMA SumUnique ==
  ASSUME NEW f, NEW S, IsFiniteSet(S), NEW g, IsSum(f, S, g),
         NEW R \in SUBSET S, NEW h, IsSum(f, R, h)
  PROVE  g[R] = h[R]
<1> DEFINE one(T) == CHOOSE x \in T : TRUE
           P == { T \in SUBSET R : g[T] = h[T] }
<1>1. IsFiniteSet(R)
  BY FS_Subset
<1>2. ASSUME NEW T \in SUBSET R, \A x \in T : T \ {x} \in P
      PROVE  T \in P
  <2>1. /\ g[T] = IF T = {} THEN 0 ELSE f[one(T)] + g[T \ {one(T)}]
        /\ h[T] = IF T = {} THEN 0 ELSE f[one(T)] + h[T \ {one(T)}]
    BY Zenon DEF IsSum
  <2>2. T # {} => one(T) \in T
    OBVIOUS
  <2> HIDE DEF one
  <2>3. T # {} => g[T \ {one(T)}] = h[T \ {one(T)}]
    BY <2>2, <1>2
  <2> QED BY <2>1, <2>3
<1> HIDE DEF P
<1>3. \A T \in SUBSET R : T \in P
  BY <1>1, <1>2, CountDown
<1> QED BY <1>3 DEF P

LEMMA SumIs ==
  ASSUME NEW f, NEW S, IsFiniteSet(S), NEW g, IsSum(f, S, g)
  PROVE  SumFunctionOnSet(f, S) = g[S]
<1> DEFINE h == CHOOSE iter : IsSum(f, S, iter)
<1>1. SumFunctionOnSet(f, S) = h[S]
  BY Zenon DEF SumFunctionOnSet, FoldFunctionOnSet, MapThenFoldSet, IsSum
<1>2. IsSum(f, S, h)
  OBVIOUS
<1> HIDE DEF h
<1> QED BY <1>1, <1>2, SumUnique

LEMMA SumStep ==
  ASSUME NEW f, NEW S, IsFiniteSet(S)
  PROVE  SumFunctionOnSet(f, S) =
           IF S = {} THEN 0
           ELSE f[CHOOSE x \in S : TRUE] + SumFunctionOnSet(f, S \ {CHOOSE x \in S : TRUE})
<1> DEFINE c == CHOOSE x \in S : TRUE
<1>1. PICK g : IsSum(f, S, g)
  BY SumExists
<1>2. SumFunctionOnSet(f, S) = g[S]
  BY <1>1, SumIs
<1>3. g[S] = IF S = {} THEN 0 ELSE f[c] + g[S \ {c}]
  BY <1>1, Zenon DEF IsSum
<1> HIDE DEF c
<1>4. IsFiniteSet(S \ {c})
  BY FS_Subset
<1>5. PICK h : IsSum(f, S \ {c}, h)
  BY <1>4, SumExists
<1>6. SumFunctionOnSet(f, S \ {c}) = h[S \ {c}]
  BY <1>4, <1>5, SumIs
<1>7. g[S \ {c}] = h[S \ {c}]
  <2>1. S \ {c} \in SUBSET S
    OBVIOUS
  <2> QED BY <1>1, <1>5, <2>1, SumUnique
<1>8. SumFunctionOnSet(f, S) = IF S = {} THEN 0 ELSE f[c] + SumFunctionOnSet(f, S \ {c})
  BY <1>2, <1>3, <1>6, <1>7
<1> QED BY <1>8 DEF c

(* The sum over the empty set *)
LEMMA SumEmpty == ASSUME NEW f PROVE SumFunctionOnSet(f, {}) = 0
BY FS_EmptySet, SumStep

(* The sum of integers is one *)
LEMMA SumInt ==
  ASSUME NEW f, NEW S, IsFiniteSet(S), \A x \in S : f[x] \in Int
  PROVE  SumFunctionOnSet(f, S) \in Int
<1> DEFINE P == { T \in SUBSET S : SumFunctionOnSet(f, T) \in Int }
<1>1. ASSUME NEW T \in SUBSET S, \A x \in T : T \ {x} \in P
      PROVE  T \in P
  <2> DEFINE c == CHOOSE x \in T : TRUE
  <2>1. IsFiniteSet(T)
    BY FS_Subset
  <2>2. SumFunctionOnSet(f, T) = IF T = {} THEN 0 ELSE f[c] + SumFunctionOnSet(f, T \ {c})
    BY <2>1, SumStep
  <2>3. T # {} => c \in T
    OBVIOUS
  <2> HIDE DEF c
  <2>4. T # {} => f[c] \in Int /\ SumFunctionOnSet(f, T \ {c}) \in Int
    BY <2>3, <1>1
  <2> QED BY <2>2, <2>4
<1> HIDE DEF P
<1>2. \A T \in SUBSET S : T \in P
  BY <1>1, CountDown
<1> QED BY <1>2 DEF P

(* Any element can be taken out of a sum *)
LEMMA SumTake ==
  ASSUME NEW f, NEW S, IsFiniteSet(S), \A x \in S : f[x] \in Int, NEW a \in S
  PROVE  SumFunctionOnSet(f, S) = f[a] + SumFunctionOnSet(f, S \ {a})
<1> DEFINE sum(T) == SumFunctionOnSet(f, T)
           P == { T \in SUBSET S : \A x \in T : sum(T) = f[x] + sum(T \ {x}) }
<1>1. ASSUME NEW T \in SUBSET S, \A x \in T : T \ {x} \in P
      PROVE  T \in P
  <2> SUFFICES ASSUME NEW x \in T PROVE sum(T) = f[x] + sum(T \ {x})
    OBVIOUS
  <2> DEFINE c == CHOOSE y \in T : TRUE
  <2>1. sum(T) = f[c] + sum(T \ {c})
    BY FS_Subset, SumStep
  <2>2. c \in T
    OBVIOUS
  <2> HIDE DEF c, sum
  <2>3. CASE x = c
    BY <2>1, <2>3
  <2>4. CASE x # c
    <3>1. T \ {c} \in P /\ T \ {x} \in P
      BY <2>2, <1>1
    <3>2. /\ sum(T \ {c}) = f[x] + sum((T \ {c}) \ {x})
          /\ sum(T \ {x}) = f[c] + sum((T \ {x}) \ {c})
      BY <3>1, <2>2, <2>4
    <3>3. (T \ {c}) \ {x} = (T \ {x}) \ {c}
      OBVIOUS
    <3> DEFINE rest == (T \ {x}) \ {c}
    <3>4. sum(rest) \in Int
      <4>1. IsFiniteSet(rest) /\ \A y \in rest : f[y] \in Int
        BY FS_Subset
      <4> QED BY <4>1, SumInt DEF sum
    <3>5. f[x] \in Int /\ f[c] \in Int
      BY <2>2
    <3>6. /\ sum(T \ {c}) = f[x] + sum(rest)
          /\ sum(T \ {x}) = f[c] + sum(rest)
      BY <3>2, <3>3
    <3> HIDE DEF rest
    <3> QED BY <2>1, <3>4, <3>5, <3>6
  <2> QED BY <2>3, <2>4
<1> HIDE DEF P
<1>2. \A T \in SUBSET S : T \in P
  BY <1>1, CountDown
<1>3. S \in P
  BY <1>2
<1> QED BY <1>3 DEF P

(* Terms that are the same modulo M have sums that are *)
LEMMA SumModulo ==
  ASSUME NEW S, IsFiniteSet(S), NEW f, NEW g, NEW M \in Nat \ {0},
         \A x \in S : f[x] \in Int /\ g[x] \in Int /\ Same(M, f[x], g[x])
  PROVE  Same(M, SumFunctionOnSet(f, S), SumFunctionOnSet(g, S))
<1> DEFINE F(T) == SumFunctionOnSet(f, T)
           G(T) == SumFunctionOnSet(g, T)
           P == { T \in SUBSET S : Same(M, F(T), G(T)) }
<1>1. {} \in P
  <2>1. F({}) = 0 /\ G({}) = 0
    BY SumEmpty
  <2> HIDE DEF F, G
  <2> QED BY <2>1 DEF Same
<1>2. ASSUME NEW T \in SUBSET S, NEW x \in S, T \in P, x \notin T
      PROVE  T \cup {x} \in P
  <2> DEFINE U == T \cup {x}
  <2>1. IsFiniteSet(U) /\ IsFiniteSet(T) /\ x \in U /\ U \in SUBSET S
    BY FS_Subset, FS_AddElement
  <2>2. U \ {x} = T
    BY <1>2
  <2> HIDE DEF U
  <2>3. F(U) = f[x] + F(T)
    BY <2>1, <2>2, SumTake
  <2>4. G(U) = g[x] + G(T)
    BY <2>1, <2>2, SumTake
  <2>5. F(T) \in Int /\ G(T) \in Int
    BY <2>1, SumInt
  <2> HIDE DEF F, G
  <2>6. Same(M, F(T), G(T)) /\ Same(M, f[x], g[x]) /\ f[x] \in Int /\ g[x] \in Int
    BY <1>2
  <2>7. Same(M, f[x] + F(T), g[x] + G(T))
    BY <2>5, <2>6, SamePlus
  <2>8. Same(M, F(U), G(U))
    BY <2>3, <2>4, <2>7
  <2> QED BY <2>1, <2>8 DEF U
<1> HIDE DEF P
<1>3. S \in P
  BY <1>1, <1>2, AddUp
<1> QED BY <1>3 DEF P

(* The same terms have the same sum *)
LEMMA SumSame ==
  ASSUME NEW S, IsFiniteSet(S), NEW f, NEW g,
         \A x \in S : g[x] = f[x]
  PROVE  SumFunctionOnSet(f, S) = SumFunctionOnSet(g, S)
<1> DEFINE P == { T \in SUBSET S : SumFunctionOnSet(f, T) = SumFunctionOnSet(g, T) }
<1>1. ASSUME NEW T \in SUBSET S, \A x \in T : T \ {x} \in P
      PROVE  T \in P
  <2> DEFINE c == CHOOSE y \in T : TRUE
  <2>1. /\ SumFunctionOnSet(f, T) = IF T = {} THEN 0 ELSE f[c] + SumFunctionOnSet(f, T \ {c})
        /\ SumFunctionOnSet(g, T) = IF T = {} THEN 0 ELSE g[c] + SumFunctionOnSet(g, T \ {c})
    BY FS_Subset, SumStep
  <2>2. T # {} => c \in T
    OBVIOUS
  <2> HIDE DEF c
  <2>3. T # {} => f[c] = g[c] /\ SumFunctionOnSet(f, T \ {c}) = SumFunctionOnSet(g, T \ {c})
    BY <2>2, <1>1
  <2> QED BY <2>1, <2>3
<1> HIDE DEF P
<1>2. \A T \in SUBSET S : T \in P
  BY <1>1, CountDown
<1> QED BY <1>2 DEF P

(* The sum of the differences is the difference of the sums *)
LEMMA SumDiff ==
  ASSUME NEW S, IsFiniteSet(S), NEW f, NEW g, NEW h,
         \A x \in S : f[x] \in Int /\ g[x] \in Int /\ h[x] = f[x] - g[x]
  PROVE  SumFunctionOnSet(h, S) = SumFunctionOnSet(f, S) - SumFunctionOnSet(g, S)
<1> DEFINE F(T) == SumFunctionOnSet(f, T)
           G(T) == SumFunctionOnSet(g, T)
           H(T) == SumFunctionOnSet(h, T)
           P == { T \in SUBSET S : H(T) = F(T) - G(T) }
<1>1. {} \in P
  <2>1. F({}) = 0 /\ G({}) = 0 /\ H({}) = 0
    BY SumEmpty
  <2> HIDE DEF F, G, H
  <2> QED BY <2>1
<1>2. ASSUME NEW T \in SUBSET S, NEW x \in S, T \in P, x \notin T
      PROVE  T \cup {x} \in P
  <2> DEFINE U == T \cup {x}
  <2>1. IsFiniteSet(U) /\ IsFiniteSet(T) /\ x \in U /\ U \in SUBSET S
    BY FS_Subset, FS_AddElement
  <2>2. U \ {x} = T
    BY <1>2
  <2> HIDE DEF U
  <2>3. F(U) = f[x] + F(T)
    BY <2>1, <2>2, SumTake
  <2>4. G(U) = g[x] + G(T)
    BY <2>1, <2>2, SumTake
  <2>5. \A y \in S : h[y] \in Int
    OBVIOUS
  <2>6. H(U) = h[x] + H(T)
    BY <2>1, <2>2, <2>5, SumTake
  <2>7. F(T) \in Int /\ G(T) \in Int
    BY <2>1, SumInt
  <2> HIDE DEF F, G, H
  <2>8. H(U) = F(U) - G(U)
    BY <1>2, <2>3, <2>4, <2>6, <2>7
  <2> QED BY <2>1, <2>8 DEF U
<1> HIDE DEF P
<1>3. S \in P
  BY <1>1, <1>2, AddUp
<1> QED BY <1>3 DEF P

(* The sum of the sums of two terms *)
LEMMA SumPlus ==
  ASSUME NEW S, IsFiniteSet(S), NEW f, NEW g, NEW h,
         \A x \in S : f[x] \in Int /\ g[x] \in Int /\ h[x] = f[x] + g[x]
  PROVE  SumFunctionOnSet(h, S) = SumFunctionOnSet(f, S) + SumFunctionOnSet(g, S)
<1>1. \A x \in S : h[x] \in Int /\ g[x] \in Int /\ f[x] = h[x] - g[x]
  OBVIOUS
<1> DEFINE u == SumFunctionOnSet(f, S)
           v == SumFunctionOnSet(g, S)
           y == SumFunctionOnSet(h, S)
<1>2. u \in Int /\ v \in Int /\ y \in Int
  BY <1>1, SumInt
<1>3. u = y - v
  BY <1>1, SumDiff
<1> HIDE DEF u, v, y
<1>4. y = u + v
  BY <1>2, <1>3
<1> QED BY <1>4 DEF u, v, y

(* A sum over an interval, taken at its end; sums of one, two and three *)
LEMMA SumFirst ==
  ASSUME NEW f, NEW n \in Nat, \A k \in 1 .. (n + 1) : f[k] \in Int
  PROVE  SumFunctionOnSet(f, 1 .. (n + 1)) = SumFunctionOnSet(f, 1 .. n) + f[n + 1]
<1> DEFINE a == n + 1
           S == 1 .. a
           T == 1 .. n
<1>1. a \in Int /\ n \in Int /\ 1 \in Int
  OBVIOUS
<1>2. IsFiniteSet(S) /\ IsFiniteSet(T)
  <2> HIDE DEF a
  <2> QED BY <1>1, FS_Interval
<1>3. a \in S /\ S \ {a} = T
  OBVIOUS
<1>4. \A k \in S : f[k] \in Int
  OBVIOUS
<1> HIDE DEF S, T, a
<1>5. f[a] \in Int /\ \A k \in T : f[k] \in Int
  BY <1>3, <1>4
<1>6. SumFunctionOnSet(f, S) = f[a] + SumFunctionOnSet(f, S \ {a})
  BY <1>2, <1>3, <1>4, SumTake
<1>7. SumFunctionOnSet(f, T) \in Int
  BY <1>2, <1>5, SumInt
<1>8. SumFunctionOnSet(f, S) = f[a] + SumFunctionOnSet(f, T)
  BY <1>3, <1>6
<1> DEFINE t == SumFunctionOnSet(f, T)
           e == f[a]
<1>9. t \in Int /\ e \in Int
  BY <1>5, <1>7
<1>10. SumFunctionOnSet(f, S) = t + e
  <2>1. SumFunctionOnSet(f, S) = e + t
    BY <1>8
  <2> HIDE DEF t, e
  <2> QED BY <1>9, <2>1
<1> QED BY <1>10 DEF S, T, a

LEMMA SumOne ==
  ASSUME NEW f, f[1] \in Int
  PROVE  SumFunctionOnSet(f, 1 .. 1) = f[1]
<1>1. 0 \in Nat /\ \A k \in 1 .. 1 : f[k] \in Int
  OBVIOUS
<1>2. 0 + 1 = 1 /\ 1 .. 0 = {}
  OBVIOUS
<1>3. SumFunctionOnSet(f, 1 .. 1) = SumFunctionOnSet(f, 1 .. 0) + f[1]
  BY <1>1, <1>2, SumFirst
<1>4. SumFunctionOnSet(f, {}) = 0
  BY SumEmpty
<1>5. SumFunctionOnSet(f, 1 .. 1) = 0 + f[1]
  BY <1>2, <1>3, <1>4
<1> QED BY <1>5

LEMMA SumTwo ==
  ASSUME NEW f, f[1] \in Int, f[2] \in Int
  PROVE  SumFunctionOnSet(f, 1 .. 2) = f[1] + f[2]
<1>1. 1 \in Nat /\ \A k \in 1 .. 2 : f[k] \in Int
  OBVIOUS
<1>2. 1 + 1 = 2
  OBVIOUS
<1>3. SumFunctionOnSet(f, 1 .. 2) = SumFunctionOnSet(f, 1 .. 1) + f[2]
  BY <1>1, <1>2, SumFirst
<1> QED BY <1>3, SumOne

LEMMA SumThree ==
  ASSUME NEW f, f[1] \in Int, f[2] \in Int, f[3] \in Int
  PROVE  SumFunctionOnSet(f, 1 .. 3) = f[1] + f[2] + f[3]
<1>1. 2 \in Nat /\ \A k \in 1 .. 3 : f[k] \in Int
  OBVIOUS
<1>2. 2 + 1 = 3
  OBVIOUS
<1>3. SumFunctionOnSet(f, 1 .. 3) = SumFunctionOnSet(f, 1 .. 2) + f[3]
  BY <1>1, <1>2, SumFirst
<1> QED BY <1>3, SumTwo

(* A sum with one term that counts *)
LEMMA SumOnly ==
  ASSUME NEW S, IsFiniteSet(S), NEW f, NEW a \in S, f[a] \in Int,
         \A x \in S \ {a} : f[x] = 0
  PROVE  SumFunctionOnSet(f, S) = f[a]
<1> DEFINE z == [x \in S |-> 0]
           R == S \ {a}
<1>1. IsFiniteSet(R)
  BY FS_Subset
<1>2. SumFunctionOnSet(f, S) = f[a] + SumFunctionOnSet(f, R)
  BY SumTake
<1>3. SumFunctionOnSet(f, R) = SumFunctionOnSet(z, R)
  BY <1>1, SumSame
<1>4. SumFunctionOnSet(z, R) = SumFunctionOnSet(z, R) - SumFunctionOnSet(z, R)
  BY <1>1, SumDiff
<1>5. SumFunctionOnSet(z, R) \in Int
  BY <1>1, SumInt
<1> HIDE DEF z, R
<1> QED BY <1>2, <1>3, <1>4, <1>5
===============================================================================
