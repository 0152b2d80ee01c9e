------------------------------- MODULE RamProofs -------------------------------
(***************************************************************************)
(* Proofs about RamShares: opening an index recovers its distance to the   *)
(* hidden point, for every length and every word size that leaves room for *)
(* it, and the two copies of a share never part.  A product with the lists *)
(* of a key pair picks the element at the address (Products), a conversion *)
(* moves no value and a write adds the difference at the address only: the *)
(* players together implement Memory.                                      *)
(***************************************************************************)
EXTENDS RamShares, Arithmetic, TLAPS

-------------------------------------------------------------------------------
(* The normalisation of an opened index *)

(* The loop stops at the first turn that reaches the lower half of the      *)
(* words                                                                    *)
LEMMA TurnsIs ==
  ASSUME NEW d \in Word, NEW n \in 0 .. W, Low((d + n * L) % W),
         \A j \in 0 .. (n - 1) : ~Low((d + j * L) % W)
  PROVE  Turns(d) = n
<1> DEFINE P(k) == Low((d + k * L) % W) /\ \A j \in 0 .. (k - 1) : ~Low((d + j * L) % W)
           t == Turns(d)
<1>1. \E k \in 0 .. W : P(k)
  <2>1. P(n)
    OBVIOUS
  <2> QED BY <2>1
<1>2. t = CHOOSE k \in 0 .. W : P(k)
  BY DEF Turns
<1>3. t \in 0 .. W /\ P(t)
  BY <1>1, <1>2
<1> HIDE DEF t
<1>4. W \in Nat
  BY SizeAssumption
<1>5. ~(t < n)
  <2>1. t < n => t \in 0 .. (n - 1)
    BY <1>3, <1>4
  <2> QED BY <2>1, <1>3
<1>6. ~(n < t)
  <2>1. n < t => n \in 0 .. (t - 1)
    BY <1>3, <1>4
  <2> QED BY <2>1, <1>3
<1>7. t = n
  BY <1>3, <1>4, <1>5, <1>6
<1> QED BY <1>7 DEF t

(* Whatever is opened between -2L and 3L comes back as its residue: if it   *)
(* was negative, the loop adds the length until it wraps around.            *)
LEMMA Recover ==
  ASSUME NEW z \in Int, -2 * L + 2 <= z, z <= 3 * L - 3
  PROVE  Normalise(z % W) = z % L
<1> DEFINE h == W \div 2
<1>0. /\ L \in Nat /\ L >= 3 /\ W \in Nat /\ h \in Nat /\ W = 2 * h
      /\ 3 * L - 3 <= h
  BY SizeAssumption
<1> HIDE DEF h
<1>low. ASSUME NEW d \in Int
        PROVE  Low(d) <=> d <= h
  BY DEF Low, h
<1>word. ASSUME NEW x \in Int, 0 <= x, x < W
         PROVE  x % W = x
  BY <1>0, <1>word
<1>wrap. ASSUME NEW x \in Int, -W <= x, x < 0
         PROVE  x % W = x + W
  <2>1. x = W * (-1) + (x + W)
    BY <1>0, <1>wrap
  <2>2. x + W \in 0 .. (W - 1)
    BY <1>0, <1>wrap
  <2>3. W \in Nat \ {0}
    BY <1>0
  <2> HIDE <1>wrap
  <2> QED BY <2>1, <2>2, <2>3, Remainder
<1>done. ASSUME NEW n \in 0 .. 2, NEW d \in Word,
                Turns(d) = n, (d + n * L) % W = z + n * L
         PROVE  Normalise(d) = z % L
  <2>1. Normalise(d) = (z + n * L) % L
    BY <1>done DEF Normalise
  <2>2. z + n * L = z + L * n /\ z + n * L \in Int /\ L \in Nat \ {0} /\ n \in Int
    BY <1>0
  <2>3. (z + n * L) % L = z % L
    BY <2>2, SameResidue
  <2> QED BY <2>1, <2>3
<1>1. CASE 0 <= z
  <2>1. z % W = z /\ z \in Word
    BY <1>0, <1>1, <1>word DEF Word
  <2>2. (z + 0 * L) % W = z + 0 * L
    BY <1>0, <2>1
  <2>3. Low((z + 0 * L) % W)
    BY <1>0, <1>low, <2>2
  <2>4. Turns(z) = 0
    BY <1>0, <2>1, <2>3, TurnsIs
  <2> QED BY <1>done, <2>1, <2>2, <2>4
<1>2. CASE z < 0 /\ -L <= z
  <2> DEFINE d == z + W
  <2>1. z % W = d /\ d \in Word
    BY <1>0, <1>2, <1>wrap DEF Word
  <2>2. (d + 0 * L) % W = d /\ ~Low(d)
    BY <1>0, <1>2, <1>low, <1>word
  <2>3. (d + 1 * L) % W = z + 1 * L
    <3> DEFINE t == d + 1 * L
               b == z + 1 * L
    <3>1. t = W * 1 + b /\ t \in Int /\ b \in 0 .. (W - 1) /\ W \in Nat \ {0}
      BY <1>0, <1>2
    <3> HIDE DEF t, b
    <3>2. t % W = b
      BY <3>1, Remainder
    <3> QED BY <3>2 DEF t, b
  <2>4. Low((d + 1 * L) % W)
    BY <1>0, <1>2, <1>low, <2>3
  <2> HIDE DEF d
  <2>5. \A j \in 0 .. (1 - 1) : ~Low((d + j * L) % W)
    BY <2>2
  <2>6. 1 \in 0 .. W
    BY <1>0
  <2>7. Turns(d) = 1
    BY <2>1, <2>4, <2>5, <2>6, TurnsIs
  <2> QED BY <1>done, <2>1, <2>3, <2>7
<1>3. CASE z < -L
  <2> DEFINE d == z + W
  <2>1. z % W = d /\ d \in Word
    BY <1>0, <1>3, <1>wrap DEF Word
  <2>2. (d + 0 * L) % W = d /\ ~Low(d)
    BY <1>0, <1>3, <1>low, <1>word
  <2>3. (d + 1 * L) % W = d + L /\ ~Low(d + L)
    BY <1>0, <1>3, <1>low, <1>word
  <2>4. (d + 2 * L) % W = z + 2 * L
    <3> DEFINE t == d + 2 * L
               b == z + 2 * L
    <3>1. t = W * 1 + b /\ t \in Int /\ b \in 0 .. (W - 1) /\ W \in Nat \ {0}
      BY <1>0, <1>3
    <3> HIDE DEF t, b
    <3>2. t % W = b
      BY <3>1, Remainder
    <3> QED BY <3>2 DEF t, b
  <2>5. Low((d + 2 * L) % W)
    BY <1>0, <1>3, <1>low, <2>4
  <2> HIDE DEF d
  <2>6. \A j \in 0 .. (2 - 1) : ~Low((d + j * L) % W)
    <3>1. SUFFICES ASSUME NEW j \in 0 .. 1 PROVE ~Low((d + j * L) % W)
      OBVIOUS
    <3>2. CASE j = 0
      BY <3>2, <2>2
    <3>3. CASE j = 1
      BY <3>3, <2>3
    <3> QED BY <3>2, <3>3
  <2>7. 2 \in 0 .. W
    BY <1>0
  <2>8. Turns(d) = 2
    BY <2>1, <2>5, <2>6, <2>7, TurnsIs
  <2> QED BY <1>done, <2>1, <2>4, <2>8
<1> QED BY <1>0, <1>1, <1>2, <1>3

(* The second share of a hidden point is an address, and the two shares add *)
(* up to the point or to the point and one length.                          *)
LEMMA Shares ==
  ASSUME NEW deal \in Deals
  PROVE  /\ deal[1] \in Address /\ deal[2] \in Address
         /\ SecondShare(deal[1], deal[2]) \in Address
         /\ \E m \in {0, 1} :
              deal[2] + SecondShare(deal[1], deal[2]) = deal[1] + L * m
<1>1. deal \in Address \X Address
  BY RandomAssumption
<1>2. deal[1] \in Address /\ deal[2] \in Address
  BY <1>1
<1>3. L \in Nat /\ L >= 3
  BY SizeAssumption
<1>4. CASE deal[1] >= deal[2]
  BY <1>2, <1>3, <1>4 DEF Address, SecondShare, Sub
<1>5. CASE ~(deal[1] >= deal[2])
  BY <1>2, <1>3, <1>5 DEF Address, SecondShare, Sub
<1> QED BY <1>2, <1>4, <1>5

(* sub takes the second number away, but for a length *)
LEMMA SubIs ==
  ASSUME NEW x \in Nat, NEW d \in Address
  PROVE  \E k \in {0, 1} : Sub(x, d) = x - d + L * k /\ (k = 1 => d >= 1)
<1>1. L \in Nat /\ L >= 3
  BY SizeAssumption
<1>2. CASE x >= d
  BY <1>1, <1>2 DEF Sub, Address
<1>3. CASE ~(x >= d)
  BY <1>1, <1>3 DEF Sub, Address
<1> QED BY <1>2, <1>3

(* Words x and y and the sum of the others share the address a: what is     *)
(* opened is the distance from the hidden point to a, whatever the shares   *)
(* and wherever they wrap around.                                           *)
LEMMA Opened ==
  ASSUME NEW a \in Address, NEW x \in Word, NEW y \in Word, NEW o \in Int,
         NEW q \in Int, x + y + o = a + W * q,
         NEW deal \in Deals
  PROVE  OpenIndex(x, y, o, deal) = (a - deal[1]) % L
<1> DEFINE r == deal[1]
           d == deal[2]
           e == SecondShare(r, d)
<1>0. /\ L \in Nat /\ L >= 3 /\ W \in Nat /\ W \in Nat \ {0}
      /\ x \in Nat /\ y \in Nat /\ a \in Nat /\ a <= L - 1
  BY SizeAssumption DEF Address, Word
<1>1. /\ r \in Nat /\ r <= L - 1 /\ d \in Address /\ d \in Nat /\ d <= L - 1
      /\ e \in Address /\ e \in Nat /\ e <= L - 1
  BY Shares, <1>0 DEF Address
<1>2. PICK m \in {0, 1} : d + e = r + L * m
  BY Shares
<1>3. PICK j \in {0, 1} : Sub(x, d) = x - d + L * j /\ (j = 1 => d >= 1)
  BY <1>0, <1>1, SubIs
<1>4. PICK k \in {0, 1} : Sub(y, e) = y - e + L * k /\ (k = 1 => e >= 1)
  BY <1>0, <1>1, SubIs
<1>5. OpenIndex(x, y, o, deal) = Normalise((Sub(x, d) + Sub(y, e) + o) % W)
  BY DEF OpenIndex
<1> HIDE DEF r, d, e
<1> DEFINE z == a - d - e + L * (j + k)
<1>6. z \in Int /\ -2 * L + 2 <= z /\ z <= 3 * L - 3
  BY <1>0, <1>1, <1>3, <1>4
<1>7. Sub(x, d) + Sub(y, e) + o = z + W * q
  BY <1>0, <1>1, <1>3, <1>4
<1>8. (Sub(x, d) + Sub(y, e) + o) % W = z % W
  <2>1. z + W * q \in Int
    BY <1>0, <1>6
  <2> HIDE DEF z
  <2>2. (z + W * q) % W = z % W
    BY <1>0, <1>6, <2>1, SameResidue
  <2> QED BY <1>7, <2>2
<1>9. z = (a - r) + L * (j + k - m)
  BY <1>0, <1>1, <1>2
<1>10. z % L = (a - r) % L
  <2>1. a - r \in Int /\ j + k - m \in Int /\ L \in Nat \ {0}
    BY <1>0, <1>1
  <2> DEFINE b == a - r
             n == j + k - m
  <2>2. z \in Int /\ b \in Int /\ n \in Int /\ z = b + L * n
    BY <1>6, <1>9, <2>1
  <2> HIDE DEF z, b, n
  <2>3. z % L = b % L
    BY <2>1, <2>2, SameResidue
  <2> QED BY <2>3 DEF b
<1>11. Normalise(z % W) = z % L
  BY <1>6, Recover
<1> QED BY <1>5, <1>8, <1>10, <1>11 DEF r

-------------------------------------------------------------------------------
(* The invariant *)

(* The index shares of a write: those of player0 and player2 and those of   *)
(* player1 and player3, with the others or without, share the same address. *)
LEMMA WriteShares ==
  ASSUME NEW a \in Address, NEW s \in Splits, NEW rep \in BOOLEAN
  PROVE  LET x == IF rep THEN RepWrite(a, s) ELSE Additive(a, s)
             rest(u) == IF rep THEN 0 ELSE u
         IN  /\ \A n \in 1 .. 4 : x[n] \in Word
             /\ \E q \in Int : x[1] + x[3] + rest(x[2] + x[4]) = a + W * q
             /\ \E q \in Int : x[2] + x[4] + rest(x[1] + x[3]) = a + W * q
<1>0. W \in Nat \ {0} /\ L \in Nat
  BY SizeAssumption
<1>1. s \in Word \X Word \X Word
  BY RandomAssumption
<1>2. s[1] \in Word /\ s[2] \in Word /\ s[3] \in Word
  BY <1>1
<1>3. ASSUME NEW u \in Int
      PROVE  u % W \in Word /\ \E q \in Int : u % W = u + W * q
  <2>1. PICK q \in Int : u = W * q + (u % W)
    BY <1>0, Division
  <2>2. u % W \in 0 .. (W - 1)
    BY <1>0, Division
  <2> DEFINE v == u % W
  <2>3. u = W * q + v /\ v \in 0 .. (W - 1)
    BY <2>1, <2>2
  <2> HIDE DEF v
  <2>4. v = u + W * (-q) /\ -q \in Int
    BY <1>0, <2>3
  <2> QED BY <2>3, <2>4 DEF v, Word
<1>4. a \in Int /\ s[1] \in Int /\ s[2] \in Int /\ s[3] \in Int
  BY <1>0, <1>2 DEF Word, Address
<1>5. CASE rep
  <2> DEFINE v == (a - s[1]) % W
             w == (a - s[2]) % W
  <2>1. v \in Word /\ \E p \in Int : v = (a - s[1]) + W * p
    BY <1>3, <1>4
  <2>2. w \in Word /\ \E q \in Int : w = (a - s[2]) + W * q
    BY <1>3, <1>4
  <2>3. RepWrite(a, s) = <<s[1], s[2], v, w>>
    BY DEF RepWrite
  <2> HIDE DEF v, w
  <2>4. v \in Int /\ w \in Int
    BY <1>0, <2>1, <2>2 DEF Word
  <2>5. \E q \in Int : s[1] + v + 0 = a + W * q
    <3>1. PICK q \in Int : v = (a - s[1]) + W * q
      BY <2>1
    <3>2. W * q \in Int
      BY <1>0
    <3>3. s[1] + v + 0 = a + W * q
      BY <1>4, <2>4, <3>1, <3>2
    <3> QED BY <3>3
  <2>6. \E q \in Int : s[2] + w + 0 = a + W * q
    <3>1. PICK q \in Int : w = (a - s[2]) + W * q
      BY <2>2
    <3>2. W * q \in Int
      BY <1>0
    <3>3. s[2] + w + 0 = a + W * q
      BY <1>4, <2>4, <3>1, <3>2
    <3> QED BY <3>3
  <2> DEFINE x == <<s[1], s[2], v, w>>
  <2>7. \A n \in 1 .. 4 : x[n] \in Word
    BY <1>2, <2>1, <2>2
  <2> QED BY <1>5, <2>3, <2>5, <2>6, <2>7
<1>6. CASE ~rep
  <2> DEFINE u == (a - s[1] - s[2] - s[3])
             v == u % W
  <2>1. u \in Int
    BY <1>4
  <2>2. v \in Word /\ \E q \in Int : v = u + W * q
    BY <1>3, <2>1
  <2>3. Additive(a, s) = <<s[1], s[2], s[3], v>>
    BY DEF Additive
  <2> HIDE DEF v
  <2>4. v \in Int
    BY <1>0, <2>2 DEF Word
  <2>5. \E q \in Int : s[1] + s[3] + (s[2] + v) = a + W * q
    <3>1. PICK q \in Int : v = u + W * q
      BY <2>2
    <3>2. W * q \in Int
      BY <1>0
    <3>3. s[1] + s[3] + (s[2] + v) = a + W * q
      BY <1>4, <2>4, <3>1, <3>2
    <3> QED BY <3>3
  <2>6. \E q \in Int : s[2] + v + (s[1] + s[3]) = a + W * q
    <3>1. PICK q \in Int : v = u + W * q
      BY <2>2
    <3>2. W * q \in Int
      BY <1>0
    <3>3. s[2] + v + (s[1] + s[3]) = a + W * q
      BY <1>4, <2>4, <3>1, <3>2
    <3> QED BY <3>3
  <2> DEFINE x == <<s[1], s[2], s[3], v>>
  <2>7. \A n \in 1 .. 4 : x[n] \in Word
    BY <1>2, <2>2
  <2> QED BY <1>6, <2>3, <2>5, <2>6, <2>7
<1> QED BY <1>5, <1>6

(* Every player of a write opens the same distance *)
LEMMA SameDistance ==
  ASSUME NEW a \in Address, NEW s \in Splits, NEW rep \in BOOLEAN,
         NEW deal \in Deals, NEW p \in Player
  PROVE  Distance(p, WriteIndex(a, s, rep), rep, deal) = (a - deal[1]) % L
<1> DEFINE x == WriteIndex(a, s, rep)
           rest(u) == IF rep THEN 0 ELSE u
<1>1. /\ \A n \in 1 .. 4 : x[n] \in Word
      /\ \E q \in Int : x[1] + x[3] + rest(x[2] + x[4]) = a + W * q
      /\ \E q \in Int : x[2] + x[4] + rest(x[1] + x[3]) = a + W * q
  BY WriteShares DEF WriteIndex
<1> HIDE DEF x
<1>2. x[1] \in Word /\ x[2] \in Word /\ x[3] \in Word /\ x[4] \in Word
  BY <1>1
<1>3. rest(x[2] + x[4]) \in Int /\ rest(x[1] + x[3]) \in Int
  BY <1>2, SizeAssumption DEF Word
<1>4. OpenIndex(x[1], x[3], rest(x[2] + x[4]), deal) = (a - deal[1]) % L
  BY <1>1, <1>2, <1>3, Opened
<1>5. OpenIndex(x[2], x[4], rest(x[1] + x[3]), deal) = (a - deal[1]) % L
  BY <1>1, <1>2, <1>3, Opened
<1> QED BY <1>4, <1>5 DEF Distance, x

(* replicated_share deals two copies *)
LEMMA InitKeeps ==
  ASSUME Init
  PROVE  RInv
<1>1. L \in Nat /\ L >= 3 /\ Itr \in Nat
  BY SizeAssumption, RandomAssumption
<1>2. at \in Address /\ next = "read"
  BY <1>1 DEF Init, Address
<1>3. Counting
  BY <1>1 DEF Init, Counting
<1>4. data[0] = data[1] /\ data[2] = data[3]
  BY DEF Init, Player
<1>5. tmp[0] = tmp[1] /\ tmp[2] = tmp[3]
  BY DEF Init, Player
<1> QED BY <1>2, <1>3, <1>4, <1>5 DEF RInv, Replicas

(* A read leaves the data alone, and its result need not be replicated *)
LEMMA ReadKeeps ==
  ASSUME RInv, Read
  PROVE  RInv'
<1>1. at' \in Address /\ next' = "convert" /\ data' = data /\ ptr' = ptr /\ left' = left
  BY DEF Read
<1>2. next = "read" /\ left > 0
  BY DEF Read
<1>3. Counting'
  BY <1>1, <1>2 DEF RInv, Counting
<1>4. Replicas'
  BY <1>1 DEF RInv, Replicas
<1> QED BY <1>1, <1>3, <1>4 DEF RInv

(* There is a zero share, so that both players of a pair end with the same  *)
(* sum                                                                      *)
LEMMA ConvertKeeps ==
  ASSUME RInv, Convert
  PROVE  RInv'
<1>1. next = "convert" /\ next' = "write" /\ data' = data /\ at' = at /\ left' = left
  BY DEF Convert, ConvertIf
<1>2. left \in 0 .. Itr /\ left > 0 /\ ptr = Itr - left + 0 /\ Itr \in Nat
  BY <1>1, RandomAssumption DEF RInv, Counting
<1>3. ptr + 1 <= Itr
  BY <1>2
<1>4. ptr' = ptr + 1
  BY <1>3 DEF Convert, ConvertIf
<1>5. tmp'[0] = tmp'[1] /\ tmp'[2] = tmp'[3]
  <2>1. PICK z0 \in Random, z1 \in Random, z2 \in Random : ConvertWith(z0, z1, z2)
    BY <1>3 DEF Convert, ConvertIf
  <2> QED BY <2>1 DEF ConvertWith, Player
<1>6. Counting'
  BY <1>1, <1>2, <1>4 DEF Counting
<1>7. Replicas'
  BY <1>1, <1>5 DEF RInv, Replicas
<1> QED BY <1>1, <1>6, <1>7 DEF RInv

(* Both players of a pair open the same two distances and the same          *)
(* difference, so that they change their equal copies in the same way.      *)
LEMMA WriteKeeps ==
  ASSUME RInv, Write
  PROVE  RInv'
<1>1. next = "write" /\ next' = "read" /\ tmp' = tmp /\ at' = at /\ ptr' = ptr
      /\ left' = left - 1
  BY DEF Write
<1>2. at \in Address /\ data[0] = data[1] /\ data[2] = data[3]
      /\ tmp[0] = tmp[1] /\ tmp[2] = tmp[3]
  BY <1>1 DEF RInv, Replicas
<1>3. Counting'
  <2>1. left \in 0 .. Itr /\ left > 0 /\ ptr = Itr - left + 1 /\ Itr \in Nat
    BY <1>1, RandomAssumption DEF RInv, Counting
  <2> QED BY <1>1, <2>1 DEF Counting
<1>4. data'[0] = data'[1] /\ data'[2] = data'[3]
  <2>1. PICK target \in Value, t0 \in Random, v0 \in Random, v \in Payloads,
             s \in Splits, rep \in BOOLEAN, f \in Deals, g \in Deals,
             e \in Lists, h \in Lists :
         WriteWith(target, t0, v, v0, s, rep, f, g, e, h)
    BY DEF Write
  <2> DEFINE x == WriteIndex(at, s, rep)
             df == [p \in Player |-> Distance(p, x, rep, f)]
             dg == [p \in Player |-> Distance(p, x, rep, g)]
             dv == [p \in Player |-> DeltaV(p, tmp, target, t0, v, v0)]
             change(p, i) == KeyList(p, e, f[1], v)[Sub(i, df[p])]
                               + dv[p] * KeyList(p, h, g[1], 1)[Sub(i, dg[p])]
  <2>2. data' = [p \in Player |-> [i \in Address |->
          IF p < 2 THEN (data[p][i] + change(p, i)) % V
                   ELSE (data[p][i] - change(p, i)) % V]]
    BY <2>1 DEF WriteWith
  <2>3. df[0] = df[1] /\ df[2] = df[3] /\ dg[0] = dg[1] /\ dg[2] = dg[3]
    BY <1>2, SameDistance DEF Player
  <2>4. dv[0] = dv[1] /\ dv[2] = dv[3]
    BY <1>2 DEF DeltaV, Plus, Player
  <2> HIDE DEF df, dg, dv
  <2>5. \A i : change(0, i) = change(1, i) /\ change(2, i) = change(3, i)
    BY <2>3, <2>4 DEF KeyList
  <2> HIDE DEF change
  <2>6. /\ data'[0] = [i \in Address |-> (data[0][i] + change(0, i)) % V]
        /\ data'[1] = [i \in Address |-> (data[1][i] + change(1, i)) % V]
        /\ data'[2] = [i \in Address |-> (data[2][i] - change(2, i)) % V]
        /\ data'[3] = [i \in Address |-> (data[3][i] - change(3, i)) % V]
    BY <2>2 DEF Player
  <2> QED BY <1>2, <2>5, <2>6
<1> QED BY <1>1, <1>2, <1>3, <1>4 DEF RInv, Replicas

(* The end of the iterations changes nothing *)
LEMMA StutterKeeps ==
  ASSUME RInv, UNCHANGED vars
  PROVE  RInv'
BY DEF RInv, Counting, Replicas, vars

(* The invariant of the replicated shares holds in every run: whatever the  *)
(* hidden points, the shares of the indices and the lists of the keys, and  *)
(* for every length and word size that leaves room for the normalisation.   *)
THEOREM Inductive == Spec => []RInv
<1>1. Init => RInv
  BY InitKeeps
<1>2. RInv /\ [Next]_vars => RInv'
  <2> SUFFICES ASSUME RInv, [Next]_vars PROVE RInv'
    OBVIOUS
  <2>1. CASE Read
    BY <2>1, ReadKeeps
  <2>2. CASE Convert
    BY <2>2, ConvertKeeps
  <2>3. CASE Write
    BY <2>3, WriteKeeps
  <2>4. CASE Terminated
    BY <2>4, StutterKeeps DEF Terminated
  <2>5. CASE UNCHANGED vars
    BY <2>5, StutterKeeps
  <2> QED BY <2>1, <2>2, <2>3, <2>4, <2>5 DEF Next
<1> QED BY <1>1, <1>2, PTL DEF Spec

(* The two players of a pair never hold different copies of a share: what   *)
(* Ram::write may assume of data_ptr and of the old value it is given.      *)
THEOREM Replicated == Spec => []Replicas
<1>1. RInv => Replicas
  BY DEF RInv
<1> QED BY <1>1, Inductive, PTL

-------------------------------------------------------------------------------
(* The values of the elements *)

LEMMA Sizes ==
  /\ L \in Nat /\ L >= 3 /\ L \in Nat \ {0} /\ V \in Nat \ {0}
  /\ IsFiniteSet(Address) /\ (\A x \in Value : x \in Int) /\ 0 \in Value /\ 0 \in Address
<1>1. L \in Nat /\ L >= 3 /\ V \in Nat \ {0}
  BY SizeAssumption
<1>2. IsFiniteSet(0 .. (L - 1))
  BY <1>1, FS_Interval
<1> QED BY <1>1, <1>2 DEF Address, Value

LEMMA ModValue ==
  ASSUME NEW a \in Int
  PROVE  a % V \in Value /\ a % V \in Int /\ Same(V, a % V, a) /\ Same(V, a, a % V)
BY Sizes, SameMod DEF Value

(* The list turned by the distance from the hidden point r to a has its     *)
(* special value at a, and nowhere else.                                    *)
LEMMA Turned ==
  ASSUME NEW a \in Address, NEW r \in Address, NEW i \in Address
  PROVE  /\ Sub(i, (a - r) % L) \in Address
         /\ Sub(i, (a - r) % L) = r <=> i = a
<1>1. L \in Nat /\ L >= 3 /\ L \in Nat \ {0}
  BY SizeAssumption
<1>2. CASE a >= r
  <2>1. a - r \in Int /\ 0 \in Int /\ a - r \in 0 .. (L - 1) /\ a - r = L * 0 + (a - r)
    BY <1>1, <1>2 DEF Address
  <2>2. (a - r) % L = a - r
    BY <1>1, <2>1, Remainder
  <2> QED BY <1>1, <1>2, <2>2 DEF Address, Sub
<1>3. CASE ~(a >= r)
  <2>1. a - r \in Int /\ -1 \in Int /\ (a - r) + L \in 0 .. (L - 1) /\ a - r = L * (-1) + ((a - r) + L)
    BY <1>1, <1>3 DEF Address
  <2>2. (a - r) % L = (a - r) + L
    BY <1>1, <2>1, Remainder
  <2> QED BY <1>1, <1>3, <2>2 DEF Address, Sub
<1> QED BY <1>2, <1>3

(* The two lists of a key pair differ by the payload, at the point only *)
LEMMA KeyPair ==
  ASSUME NEW list \in [Address -> Value], NEW r \in Address, NEW v \in Int, NEW j \in Address
  PROVE  /\ list[j] \in Value /\ list[j] \in Int
         /\ SecondList(list, r, v)[j] \in Value /\ SecondList(list, r, v)[j] \in Int
         /\ Same(V, list[j] - SecondList(list, r, v)[j], IF j = r THEN v ELSE 0)
<1> DEFINE e == list[j]
           f == SecondList(list, r, v)[j]
<1>1. V \in Nat \ {0} /\ \A x \in Value : x \in Int
  BY Sizes
<1>2. e \in Value /\ e \in Int
  BY <1>1
<1>3. CASE j = r
  <2>1. f = (e - v) % V
    BY <1>3 DEF SecondList
  <2> HIDE DEF e, f
  <2>2. e - v \in Int /\ e - (e - v) = v
    BY <1>2
  <2>3. f \in Value /\ f \in Int /\ Same(V, f, e - v)
    BY <2>1, <2>2, ModValue
  <2>4. Same(V, e, e)
    BY DEF Same
  <2>5. Same(V, e - f, e - (e - v))
    BY <1>1, <1>2, <2>2, <2>3, <2>4, SameMinus
  <2>6. Same(V, e - f, v)
    BY <2>2, <2>5
  <2> QED BY <1>2, <1>3, <2>3, <2>6 DEF e, f
<1>4. CASE j # r
  <2>1. f = e
    BY <1>4 DEF SecondList
  <2> HIDE DEF e, f
  <2>2. e - f = 0
    BY <1>2, <2>1
  <2>3. Same(V, e - f, 0)
    BY <2>2 DEF Same
  <2> QED BY <1>2, <1>4, <2>1, <2>3 DEF e, f
<1> QED BY <1>3, <1>4

(* The two parts of a product with a key pair that hides the point r, both  *)
(* turned by the distance to a, add up to the element at a.                 *)
LEMMA Products ==
  ASSUME NEW d \in [Address -> Value], NEW list \in [Address -> Value],
         NEW a \in Address, NEW r \in Address
  PROVE  LET delta == (a - r) % L
             x == Dot(d, FirstList(list), delta)
             y == (-Dot(d, SecondList(list, r, 1), delta)) % V
         IN  x \in Value /\ y \in Value /\ Same(V, x + y, d[a])
<1> DEFINE delta == (a - r) % L
           second == SecondList(list, r, 1)
           f == [i \in Address |-> d[i] * list[Sub(i, delta)]]
           g == [i \in Address |-> d[i] * second[Sub(i, delta)]]
           h == [i \in Address |-> f[i] - g[i]]
           one == [i \in Address |-> IF i = a THEN d[a] ELSE 0]
           F == SumFunctionOnSet(f, Address)
           G == SumFunctionOnSet(g, Address)
           H == SumFunctionOnSet(h, Address)
<1>1. IsFiniteSet(Address) /\ V \in Nat \ {0} /\ \A x \in Value : x \in Int
  BY Sizes
<1>2. ASSUME NEW i \in Address
      PROVE  /\ f[i] \in Int /\ g[i] \in Int /\ h[i] \in Int /\ one[i] \in Int
             /\ Same(V, h[i], one[i])
  <2> DEFINE j == Sub(i, delta)
             u == list[j]
             w == second[j]
             c == d[i]
             k == IF j = r THEN 1 ELSE 0
             o == one[i]
  <2>1. j \in Address /\ (j = r <=> i = a)
    BY Turned
  <2> HIDE DEF j
  <2>2. u \in Int /\ w \in Int /\ Same(V, u - w, k)
    <3>1. 1 \in Int
      OBVIOUS
    <3> QED BY <2>1, <3>1, KeyPair
  <2>3. c \in Int
    BY <1>1
  <2>4. f[i] = c * u /\ g[i] = c * w /\ h[i] = f[i] - g[i]
    BY DEF j
  <2>5. o = c * k /\ k \in Int
    BY <2>1, <2>3
  <2> HIDE DEF u, w, c, k, o, f, g, h
  <2>6. u - w \in Int
    BY <2>2
  <2>7. Same(V, c * (u - w), c * k)
    BY <1>1, <2>2, <2>3, <2>5, <2>6, SameTimes
  <2>8. f[i] \in Int /\ g[i] \in Int /\ h[i] \in Int /\ o \in Int /\ h[i] = c * (u - w)
    BY <2>2, <2>3, <2>4, <2>5
  <2> QED BY <2>5, <2>7, <2>8 DEF o
<1> HIDE DEF f, g, h, one
<1>3. F \in Int /\ G \in Int
  BY <1>1, <1>2, SumInt
<1>4. H = F - G
  <2>1. \A i \in Address : f[i] \in Int /\ g[i] \in Int /\ h[i] = f[i] - g[i]
    BY <1>2 DEF h
  <2> QED BY <1>1, <2>1, SumDiff
<1>5. Same(V, H, SumFunctionOnSet(one, Address))
  BY <1>1, <1>2, SumModulo
<1>6. SumFunctionOnSet(one, Address) = d[a]
  <2>1. one[a] = d[a] /\ one[a] \in Int /\ \A i \in Address \ {a} : one[i] = 0
    BY <1>2 DEF one
  <2> QED BY <1>1, <2>1, SumOnly
<1>7. /\ Dot(d, FirstList(list), delta) = F % V
      /\ Dot(d, second, delta) = G % V
  BY DEF Dot, FirstList, SumFunction, f, g
<1> HIDE DEF F, G, H, delta, second
<1> DEFINE x == F % V
           z == G % V
           y == (-z) % V
<1>8. x \in Value /\ x \in Int /\ Same(V, x, F)
  BY <1>3, ModValue
<1>9. z \in Value /\ z \in Int /\ Same(V, z, G)
  BY <1>3, ModValue
<1> HIDE DEF x, z
<1>10. -z \in Int
  BY <1>9
<1>11. y \in Value /\ y \in Int /\ Same(V, y, -z)
  BY <1>10, ModValue
<1> HIDE DEF y
<1>12. Same(V, x + y, F + (-z))
  BY <1>1, <1>3, <1>8, <1>10, <1>11, SamePlus
<1>13. F + (-z) = F - z /\ F - z \in Int
  BY <1>3, <1>9
<1>14. Same(V, F, F)
  BY DEF Same
<1>15. Same(V, F - z, F - G)
  BY <1>1, <1>3, <1>9, <1>14, SameMinus
<1>16. Same(V, x + y, d[a])
  BY <1>4, <1>5, <1>6, <1>12, <1>13, <1>15, SameTrans
<1> QED BY <1>7, <1>8, <1>11, <1>16 DEF x, y, z, delta, second

(* The index shares of a read: those of player0 and player1 and those of    *)
(* player2 and player3, with the others or without, share the same address. *)
LEMMA ReadShares ==
  ASSUME NEW a \in Address, NEW s \in Splits, NEW rep \in BOOLEAN
  PROVE  LET x == IF rep THEN RepRead(a, s) ELSE Additive(a, s)
             rest(u) == IF rep THEN 0 ELSE u
         IN  /\ \A n \in 1 .. 4 : x[n] \in Word
             /\ \E q \in Int : x[1] + x[2] + rest(x[3] + x[4]) = a + W * q
             /\ \E q \in Int : x[3] + x[4] + rest(x[1] + x[2]) = a + W * q
<1>0. W \in Nat \ {0} /\ L \in Nat
  BY SizeAssumption
<1>1. s \in Word \X Word \X Word
  BY RandomAssumption
<1>2. s[1] \in Word /\ s[2] \in Word /\ s[3] \in Word
  BY <1>1
<1>3. ASSUME NEW u \in Int
      PROVE  u % W \in Word /\ \E q \in Int : (u % W) = u + W * q
  BY <1>0, SameMod, SameShift DEF Word
<1>4. a \in Int /\ s[1] \in Int /\ s[2] \in Int /\ s[3] \in Int
  BY <1>0, <1>2 DEF Word, Address
<1>5. CASE rep
  <2> DEFINE v == (a - s[1]) % W
             w == (a - s[3]) % W
  <2>1. v \in Word /\ \E p \in Int : v = (a - s[1]) + W * p
    BY <1>3, <1>4
  <2>2. w \in Word /\ \E q \in Int : w = (a - s[3]) + W * q
    BY <1>3, <1>4
  <2>3. RepRead(a, s) = <<s[1], v, s[3], w>>
    BY DEF RepRead
  <2> HIDE DEF v, w
  <2>4. v \in Int /\ w \in Int
    BY <1>0, <2>1, <2>2 DEF Word
  <2>5. \E q \in Int : s[1] + v + 0 = a + W * q
    <3>1. PICK q \in Int : v = (a - s[1]) + W * q
      BY <2>1
    <3>2. W * q \in Int
      BY <1>0
    <3>3. s[1] + v + 0 = a + W * q
      BY <1>4, <2>4, <3>1, <3>2
    <3> QED BY <3>3
  <2>6. \E q \in Int : s[3] + w + 0 = a + W * q
    <3>1. PICK q \in Int : w = (a - s[3]) + W * q
      BY <2>2
    <3>2. W * q \in Int
      BY <1>0
    <3>3. s[3] + w + 0 = a + W * q
      BY <1>4, <2>4, <3>1, <3>2
    <3> QED BY <3>3
  <2> DEFINE x == <<s[1], v, s[3], w>>
  <2>7. \A n \in 1 .. 4 : x[n] \in Word
    BY <1>2, <2>1, <2>2
  <2> QED BY <1>5, <2>3, <2>5, <2>6, <2>7
<1>6. CASE ~rep
  <2> DEFINE u == (a - s[1] - s[2] - s[3])
             v == u % W
  <2>1. u \in Int
    BY <1>4
  <2>2. v \in Word /\ \E q \in Int : v = u + W * q
    BY <1>3, <2>1
  <2>3. Additive(a, s) = <<s[1], s[2], s[3], v>>
    BY DEF Additive
  <2> HIDE DEF v
  <2>4. v \in Int
    BY <1>0, <2>2 DEF Word
  <2>5. \E q \in Int : s[1] + s[2] + (s[3] + v) = a + W * q /\ s[3] + v + (s[1] + s[2]) = a + W * q
    <3>1. PICK q \in Int : v = u + W * q
      BY <2>2
    <3>2. W * q \in Int
      BY <1>0
    <3>3. s[1] + s[2] + (s[3] + v) = a + W * q /\ s[3] + v + (s[1] + s[2]) = a + W * q
      BY <1>4, <2>4, <3>1, <3>2
    <3> QED BY <3>3
  <2> DEFINE x == <<s[1], s[2], s[3], v>>
  <2>6. \A n \in 1 .. 4 : x[n] \in Word
    BY <1>2, <2>2
  <2> QED BY <1>6, <2>3, <2>5, <2>6
<1> QED BY <1>5, <1>6

(* What both pairs of players open in a read *)
LEMMA ReadDistances ==
  ASSUME NEW a \in Address, NEW s \in Splits, NEW rep \in BOOLEAN,
         NEW f \in Deals, NEW g \in Deals
  PROVE  LET x == IF rep THEN RepRead(a, s) ELSE Additive(a, s)
             rest(u) == IF rep THEN 0 ELSE u
         IN  /\ OpenIndex(x[1], x[2], rest(x[3] + x[4]), f) = (a - f[1]) % L
             /\ OpenIndex(x[3], x[4], rest(x[1] + x[2]), g) = (a - g[1]) % L
<1> DEFINE x == IF rep THEN RepRead(a, s) ELSE Additive(a, s)
           rest(u) == IF rep THEN 0 ELSE u
<1>1. /\ \A n \in 1 .. 4 : x[n] \in Word
      /\ \E q \in Int : x[1] + x[2] + rest(x[3] + x[4]) = a + W * q
      /\ \E q \in Int : x[3] + x[4] + rest(x[1] + x[2]) = a + W * q
  BY ReadShares
<1> HIDE DEF x
<1>2. x[1] \in Word /\ x[2] \in Word /\ x[3] \in Word /\ x[4] \in Word
  BY <1>1
<1>3. rest(x[3] + x[4]) \in Int /\ rest(x[1] + x[2]) \in Int
  BY <1>2, SizeAssumption DEF Word
<1>4. OpenIndex(x[1], x[2], rest(x[3] + x[4]), f) = (a - f[1]) % L
  BY <1>1, <1>2, <1>3, Opened
<1>5. OpenIndex(x[3], x[4], rest(x[1] + x[2]), g) = (a - g[1]) % L
  BY <1>1, <1>2, <1>3, Opened
<1> QED BY <1>4, <1>5 DEF x

-------------------------------------------------------------------------------
(* The players' shares are an array *)

AInv == RInv /\ TypeOK /\ OrgIsCurrent

LEMMA InitArray ==
  ASSUME Init
  PROVE  AInv /\ Array!Init
<1>1. RInv
  BY InitKeeps
<1>2. PICK mem \in Lists, d0 \in Lists :
        data = [p \in Player |->
                  IF p < 2 THEN d0 ELSE [i \in Address |-> (mem[i] - d0[i]) % V]]
  BY DEF Init
<1>3. mem \in [Address -> Value] /\ d0 \in [Address -> Value]
  BY RandomAssumption
<1>4. \A i \in Address : (mem[i] - d0[i]) % V \in Value
  <2> SUFFICES ASSUME NEW i \in Address PROVE (mem[i] - d0[i]) % V \in Value
    OBVIOUS
  <2>1. mem[i] - d0[i] \in Int
    BY <1>3, Sizes
  <2> QED BY <2>1, ModValue
<1>5. data \in [Player -> [Address -> Value]]
  BY <1>2, <1>3, <1>4
<1>6. /\ at = 0 /\ asked = 0 /\ tmp = [p \in Player |-> 0] /\ ptr = 0 /\ left = Itr
      /\ next = "read" /\ Itr \in Nat
  BY RandomAssumption DEF Init
<1>7. TypeOK
  BY <1>5, <1>6, Sizes DEF TypeOK
<1>8. Mem \in [Address -> Value]
  <2> SUFFICES ASSUME NEW i \in Address PROVE (data[0][i] + data[2][i]) % V \in Value
    BY DEF Mem
  <2>1. data[0][i] + data[2][i] \in Int
    BY <1>5, Sizes DEF Player
  <2> QED BY <2>1, ModValue
<1>9. Out \in Value
  <2>1. tmp[0] + tmp[2] \in Int
    BY <1>6 DEF Player
  <2> QED BY <2>1, <1>6, ModValue DEF Out
<1> QED BY <1>1, <1>6, <1>7, <1>8, <1>9 DEF AInv, OrgIsCurrent, Array!Init, TypeOK

LEMMA ReadArray ==
  ASSUME AInv, Read
  PROVE  TypeOK' /\ OrgIsCurrent' /\ Array!Read
<1>1. PICK a \in Address, s \in Splits, rep \in BOOLEAN,
           f \in Deals, g \in Deals, e \in Lists, h \in Lists :
       LET x == IF rep THEN RepRead(a, s) ELSE Additive(a, s)
           rest(u) == IF rep THEN 0 ELSE u
           d01 == OpenIndex(x[1], x[2], rest(x[3] + x[4]), f)
           d23 == OpenIndex(x[3], x[4], rest(x[1] + x[2]), g)
       IN  /\ tmp' = [p \in Player |->
                CASE p = 0 -> Dot(data[0], FirstList(e), d01)
                  [] p = 1 -> (-Dot(data[1], SecondList(e, f[1], 1), d01)) % V
                  [] p = 2 -> Dot(data[2], FirstList(h), d23)
                  [] p = 3 -> (-Dot(data[3], SecondList(h, g[1], 1), d23)) % V]
           /\ at' = a
  BY DEF Read
<1>2. next' = "convert" /\ UNCHANGED <<data, asked, ptr, left>>
  BY DEF Read
<1>3. /\ data \in [Player -> [Address -> Value]] /\ data[0] = data[1] /\ data[2] = data[3]
  BY DEF AInv, RInv, TypeOK, Replicas
<1>4. data[0] \in [Address -> Value] /\ data[2] \in [Address -> Value]
  BY <1>3 DEF Player
<1>5. /\ e \in [Address -> Value] /\ h \in [Address -> Value]
      /\ f[1] \in Address /\ g[1] \in Address
  BY RandomAssumption, Shares
<1> DEFINE df == (a - f[1]) % L
           dg == (a - g[1]) % L
           x0 == Dot(data[0], FirstList(e), df)
           x1 == (-Dot(data[0], SecondList(e, f[1], 1), df)) % V
           x2 == Dot(data[2], FirstList(h), dg)
           x3 == (-Dot(data[2], SecondList(h, g[1], 1), dg)) % V
<1>6. /\ tmp' = [p \in Player |->
                   CASE p = 0 -> x0 [] p = 1 -> x1 [] p = 2 -> x2 [] p = 3 -> x3]
      /\ at' = a
  <2> DEFINE x == IF rep THEN RepRead(a, s) ELSE Additive(a, s)
             rest(u) == IF rep THEN 0 ELSE u
             d01 == OpenIndex(x[1], x[2], rest(x[3] + x[4]), f)
             d23 == OpenIndex(x[3], x[4], rest(x[1] + x[2]), g)
  <2>1. d01 = df /\ d23 = dg
    BY ReadDistances
  <2> HIDE DEF x, rest
  <2>2. /\ tmp' = [p \in Player |->
                CASE p = 0 -> Dot(data[0], FirstList(e), d01)
                  [] p = 1 -> (-Dot(data[1], SecondList(e, f[1], 1), d01)) % V
                  [] p = 2 -> Dot(data[2], FirstList(h), d23)
                  [] p = 3 -> (-Dot(data[3], SecondList(h, g[1], 1), d23)) % V]
        /\ at' = a
    BY <1>1 DEF x, rest
  <2> HIDE DEF d01, d23, df, dg
  <2> QED BY <1>3, <2>1, <2>2
<1>7. x0 \in Value /\ x1 \in Value /\ Same(V, x0 + x1, data[0][a])
  BY <1>4, <1>5, Products
<1>8. x2 \in Value /\ x3 \in Value /\ Same(V, x2 + x3, data[2][a])
  BY <1>4, <1>5, Products
<1> HIDE DEF x0, x1, x2, x3
<1>9. tmp' \in [Player -> Value] /\ tmp'[0] = x0 /\ tmp'[1] = x1 /\ tmp'[2] = x2 /\ tmp'[3] = x3
  BY <1>6, <1>7, <1>8 DEF Player
<1>10. TypeOK'
  BY <1>2, <1>6, <1>9 DEF AInv, TypeOK
<1>11. Mem' = Mem
  BY <1>2 DEF Mem
<1>12. Out' = (x0 + x1 + x2 + x3) % V
  BY <1>2, <1>9 DEF Out
<1>13. Out' = Mem[a]
  <2>1. /\ x0 + x1 \in Int /\ x2 + x3 \in Int /\ x0 + x1 + x2 + x3 = (x0 + x1) + (x2 + x3)
        /\ data[0][a] \in Int /\ data[2][a] \in Int
    BY <1>4, <1>7, <1>8, Sizes
  <2>2. Same(V, (x0 + x1) + (x2 + x3), data[0][a] + data[2][a])
    BY <1>7, <1>8, <2>1, Sizes, SamePlus
  <2> QED BY <1>12, <2>1, <2>2 DEF Same, Mem
<1>14. OrgIsCurrent'
  BY <1>6, <1>11, <1>13 DEF OrgIsCurrent
<1> QED BY <1>2, <1>6, <1>10, <1>11, <1>13, <1>14 DEF Array!Read

LEMMA ConvertArray ==
  ASSUME AInv, Convert
  PROVE  TypeOK' /\ OrgIsCurrent' /\ UNCHANGED <<Mem, at, Out, asked>>
<1>1. next = "convert" /\ next' = "write" /\ UNCHANGED <<data, at, asked, left>>
  BY DEF Convert, ConvertIf
<1>2. left \in 0 .. Itr /\ left > 0 /\ ptr = Itr - left + 0 /\ Itr \in Nat
  BY <1>1, RandomAssumption DEF AInv, RInv, Counting
<1>3. ptr + 1 <= Itr /\ ptr + 1 \in 0 .. Itr
  BY <1>2
<1>4. PICK z0 \in Random, z1 \in Random, z2 \in Random : ConvertWith(z0, z1, z2)
  BY <1>3 DEF Convert, ConvertIf
<1>5. ptr' = ptr + 1
  BY <1>3 DEF Convert, ConvertIf
<1>6. /\ z0 \in Int /\ z1 \in Int /\ z2 \in Int /\ tmp \in [Player -> Value]
      /\ V \in Nat \ {0} /\ \A y \in Value : y \in Int
  BY RandomAssumption, Sizes DEF AInv, TypeOK
<1> DEFINE t0 == tmp[0]
           t1 == tmp[1]
           t2 == tmp[2]
           t3 == tmp[3]
<1>7. t0 \in Int /\ t1 \in Int /\ t2 \in Int /\ t3 \in Int
  BY <1>6 DEF Player
<1> DEFINE z3 == (0 - z0 - z1 - z2) % V
           d0 == (t0 + z0) % V
           d1 == (t1 + z1) % V
           d2 == (t2 + z2) % V
           d3 == (t3 + z3) % V
           u == (d0 + d1) % V
           w == (d2 + d3) % V
<1>8. tmp' = [p \in Player |-> IF p < 2 THEN u ELSE w]
  BY <1>4 DEF ConvertWith, Player
<1>9. z3 \in Int /\ \E q \in Int : z3 = (0 - z0 - z1 - z2) + V * q
  <2> DEFINE b == 0 - z0 - z1 - z2
  <2>1. b \in Int /\ z3 = b % V
    BY <1>6
  <2> HIDE DEF b, z3
  <2>2. z3 \in Int /\ \E q \in Int : z3 = b + V * q
    BY <1>6, <2>1, ModShift
  <2> QED BY <2>2 DEF b
<1> HIDE DEF t0, t1, t2, t3, z3
<1>sum. ASSUME NEW t \in Int, NEW z \in Int
        PROVE  (t + z) % V \in Int /\ \E q \in Int : ((t + z) % V) = (t + z) + V * q
  <2> DEFINE b == t + z
  <2>1. b \in Int
    OBVIOUS
  <2> HIDE DEF b
  <2>2. b % V \in Int /\ \E q \in Int : (b % V) = b + V * q
    BY <1>6, <2>1, ModShift
  <2> QED BY <2>2 DEF b
<1>10. /\ d0 \in Int /\ \E q \in Int : d0 = (t0 + z0) + V * q
       /\ d1 \in Int /\ \E q \in Int : d1 = (t1 + z1) + V * q
       /\ d2 \in Int /\ \E q \in Int : d2 = (t2 + z2) + V * q
       /\ d3 \in Int /\ \E q \in Int : d3 = (t3 + z3) + V * q
  BY <1>6, <1>7, <1>9, <1>sum
<1> HIDE DEF d0, d1, d2, d3
<1>11. /\ d0 + d1 \in Int /\ d2 + d3 \in Int
  BY <1>10
<1>12. /\ u \in Value /\ u \in Int /\ \E q \in Int : u = (d0 + d1) + V * q
       /\ w \in Value /\ w \in Int /\ \E q \in Int : w = (d2 + d3) + V * q
  BY <1>6, <1>11, ModValue, ModShift
<1> HIDE DEF u, w
<1>13. Same(V, u + w, t0 + t1 + t2 + t3)
  <2>1. PICK q0 \in Int : d0 = (t0 + z0) + V * q0
    BY <1>10
  <2>2. PICK q1 \in Int : d1 = (t1 + z1) + V * q1
    BY <1>10
  <2>3. PICK q2 \in Int : d2 = (t2 + z2) + V * q2
    BY <1>10
  <2>4. PICK q3 \in Int : d3 = (t3 + z3) + V * q3
    BY <1>10
  <2>5. PICK q4 \in Int : z3 = (0 - z0 - z1 - z2) + V * q4
    BY <1>9
  <2>6. PICK q5 \in Int : u = (d0 + d1) + V * q5
    BY <1>12
  <2>7. PICK q6 \in Int : w = (d2 + d3) + V * q6
    BY <1>12
  <2>8. u + w = (t0 + t1 + t2 + t3) + V * (q0 + q1 + q2 + q3 + q4 + q5 + q6)
    BY <1>6, <1>7, <2>1, <2>2, <2>3, <2>4, <2>5, <2>6, <2>7
  <2>9. /\ q0 + q1 + q2 + q3 + q4 + q5 + q6 \in Int /\ u + w \in Int
        /\ t0 + t1 + t2 + t3 \in Int
    BY <1>7, <1>12
  <2> QED BY <1>6, <2>8, <2>9, SameShift
<1>14. tmp'[0] = u /\ tmp'[2] = w /\ tmp' \in [Player -> Value]
  BY <1>8, <1>12 DEF Player
<1>15. Out' = Out
  BY <1>1, <1>13, <1>14 DEF Out, Same, t0, t1, t2, t3
<1>16. Mem' = Mem
  BY <1>1 DEF Mem
<1>17. TypeOK'
  BY <1>1, <1>3, <1>5, <1>14 DEF AInv, TypeOK
<1>18. OrgIsCurrent'
  BY <1>1, <1>15, <1>16 DEF AInv, OrgIsCurrent
<1> QED BY <1>1, <1>15, <1>16, <1>17, <1>18

(* What a write adds to the two shares of an element: nothing together,     *)
(* except at the address, where it is the difference the players opened.    *)
LEMMA WriteArray ==
  ASSUME AInv, Write
  PROVE  TypeOK' /\ OrgIsCurrent' /\ Array!Write
<1>1. PICK target \in Value, t0 \in Random, v0 \in Random, v \in Payloads,
           s \in Splits, rep \in BOOLEAN, f \in Deals, g \in Deals,
           e \in Lists, h \in Lists :
       WriteWith(target, t0, v, v0, s, rep, f, g, e, h) /\ asked' = target
  BY DEF Write
<1>2. next = "write" /\ next' = "read" /\ left' = left - 1 /\ UNCHANGED <<tmp, at, ptr>>
  BY DEF Write
<1>3. /\ data \in [Player -> [Address -> Value]] /\ tmp \in [Player -> Value]
      /\ at \in Address /\ left \in 0 .. Itr /\ Itr \in Nat /\ left > 0
      /\ V \in Nat \ {0} /\ \A x \in Value : x \in Int
  BY <1>2, RandomAssumption, Sizes DEF AInv, RInv, TypeOK, Counting
<1>4. /\ target \in Int /\ t0 \in Int /\ v0 \in Int /\ v \in Int
      /\ e \in [Address -> Value] /\ h \in [Address -> Value]
      /\ f[1] \in Address /\ g[1] \in Address
  BY <1>3, RandomAssumption, Shares
<1> DEFINE x == WriteIndex(at, s, rep)
           df == [p \in Player |-> Distance(p, x, rep, f)]
           dg == [p \in Player |-> Distance(p, x, rep, g)]
           dv == [p \in Player |-> DeltaV(p, tmp, target, t0, v, v0)]
           change(p, i) == KeyList(p, e, f[1], v)[Sub(i, df[p])]
                             + dv[p] * KeyList(p, h, g[1], 1)[Sub(i, dg[p])]
<1>5. data' = [p \in Player |-> [i \in Address |->
        IF p < 2 THEN (data[p][i] + change(p, i)) % V
                 ELSE (data[p][i] - change(p, i)) % V]]
  BY <1>1 DEF WriteWith
<1>6. \A p \in Player : df[p] = (at - f[1]) % L /\ dg[p] = (at - g[1]) % L
  BY <1>3, SameDistance
<1> HIDE DEF df, dg
<1>7. 0 \in Player /\ 1 \in Player /\ 2 \in Player /\ 3 \in Player
  BY DEF Player
<1> DEFINE d == t0 - tmp[0] - v0
           dd == (target - t0) - tmp[2] - (v - v0)
           b == t0 - tmp[1] - v0
           bb == (target - t0) - tmp[3] - (v - v0)
<1>8. /\ tmp[0] \in Int /\ tmp[1] \in Int /\ tmp[2] \in Int /\ tmp[3] \in Int
  BY <1>3, <1>7
<1>9. /\ \A p \in Player : dv[p] \in Int
      /\ dv[0] = (d + dd) % V /\ dv[2] = dv[0]
  <2>1. d + dd \in Int /\ b + bb \in Int
    BY <1>4, <1>8
  <2>2. Plus(0, tmp, target, t0, v, v0) = d /\ Plus(2, tmp, target, t0, v, v0) = dd
    BY DEF Plus
  <2>3. Plus(1, tmp, target, t0, v, v0) = b /\ Plus(3, tmp, target, t0, v, v0) = bb
    BY DEF Plus
  <2> HIDE DEF d, dd, b, bb
  <2>4. \A p \in Player : dv[p] = IF p \in {0, 2} THEN (d + dd) % V ELSE (b + bb) % V
    BY <2>2, <2>3 DEF DeltaV
  <2> HIDE DEF dv
  <2>5. dv[0] = (d + dd) % V /\ dv[2] = (d + dd) % V
    BY <2>4, <1>7
  <2>6. (d + dd) % V \in Int /\ (b + bb) % V \in Int
    BY <2>1, ModValue
  <2> QED BY <2>4, <2>5, <2>6
<1>10. Same(V, dv[0], target - (tmp[0] + tmp[2]) - v)
  <2>1. d + dd = target - (tmp[0] + tmp[2]) - v /\ d + dd \in Int
    BY <1>4, <1>8
  <2> HIDE DEF d, dd
  <2>2. Same(V, (d + dd) % V, d + dd)
    BY <2>1, ModValue
  <2> QED BY <1>9, <2>1, <2>2
<1> HIDE DEF dv, d, dd, b, bb, x
<1>11. ASSUME NEW i \in Address
       PROVE  LET j == Sub(i, (at - f[1]) % L)
                  k == Sub(i, (at - g[1]) % L)
              IN  /\ e[j] \in Int /\ SecondList(e, f[1], v)[j] \in Int
                  /\ h[k] \in Int /\ SecondList(h, g[1], 1)[k] \in Int
                  /\ Same(V, e[j] - SecondList(e, f[1], v)[j], IF i = at THEN v ELSE 0)
                  /\ Same(V, h[k] - SecondList(h, g[1], 1)[k], IF i = at THEN 1 ELSE 0)
  <2> DEFINE j == Sub(i, (at - f[1]) % L)
             k == Sub(i, (at - g[1]) % L)
  <2>1. j \in Address /\ (j = f[1] <=> i = at) /\ k \in Address /\ (k = g[1] <=> i = at)
    BY <1>3, <1>4, Turned
  <2> HIDE DEF j, k
  <2>2. /\ e[j] \in Int /\ SecondList(e, f[1], v)[j] \in Int
        /\ Same(V, e[j] - SecondList(e, f[1], v)[j], IF i = at THEN v ELSE 0)
    BY <1>4, <2>1, KeyPair
  <2>3. /\ h[k] \in Int /\ SecondList(h, g[1], 1)[k] \in Int
        /\ Same(V, h[k] - SecondList(h, g[1], 1)[k], IF i = at THEN 1 ELSE 0)
    <3>1. 1 \in Int
      OBVIOUS
    <3> QED BY <1>4, <2>1, <3>1, KeyPair
  <2> QED BY <2>2, <2>3 DEF j, k
<1>12. ASSUME NEW p \in Player, NEW i \in Address
       PROVE  change(p, i) \in Int
  <2> DEFINE j == Sub(i, (at - f[1]) % L)
             k == Sub(i, (at - g[1]) % L)
             u == KeyList(p, e, f[1], v)[j]
             w == KeyList(p, h, g[1], 1)[k]
  <2>1. u \in Int /\ w \in Int
    BY <1>11 DEF KeyList, FirstList
  <2>2. change(p, i) = u + dv[p] * w
    BY <1>6
  <2> HIDE DEF u, w, change
  <2>3. dv[p] \in Int
    BY <1>9
  <2> QED BY <2>1, <2>2, <2>3
<1>13. ASSUME NEW i \in Address
       PROVE  Same(V, change(0, i) - change(2, i), IF i = at THEN v + dv[0] ELSE 0)
  <2> DEFINE j == Sub(i, (at - f[1]) % L)
             k == Sub(i, (at - g[1]) % L)
             u == e[j]
             uu == SecondList(e, f[1], v)[j]
             w == h[k]
             ww == SecondList(h, g[1], 1)[k]
             y == IF i = at THEN v ELSE 0
             z == IF i = at THEN 1 ELSE 0
             c == dv[0]
  <2>1. change(0, i) = u + c * w /\ change(2, i) = uu + c * ww
    BY <1>6, <1>7, <1>9 DEF KeyList, FirstList
  <2>2. /\ u \in Int /\ uu \in Int /\ w \in Int /\ ww \in Int
        /\ Same(V, u - uu, y) /\ Same(V, w - ww, z)
    BY <1>11
  <2>3. c \in Int /\ y \in Int /\ z \in Int
    BY <1>4, <1>7, <1>9
  <2>4. y + c * z = IF i = at THEN v + dv[0] ELSE 0
    BY <1>4, <2>3
  <2> HIDE DEF u, uu, w, ww, y, z, c, change
  <2>5. u - uu \in Int /\ w - ww \in Int /\ c * (w - ww) \in Int /\ c * z \in Int
    BY <2>2, <2>3
  <2>6. Same(V, c * (w - ww), c * z)
    BY <1>3, <2>2, <2>3, <2>5, SameTimes
  <2>7. Same(V, (u - uu) + c * (w - ww), y + c * z)
    BY <1>3, <2>2, <2>3, <2>5, <2>6, SamePlus
  <2>8. change(0, i) - change(2, i) = (u - uu) + c * (w - ww)
    BY <2>1, <2>2, <2>3
  <2> QED BY <2>4, <2>7, <2>8
<1> HIDE DEF change
<1>14. data' \in [Player -> [Address -> Value]]
  <2> SUFFICES ASSUME NEW p \in Player, NEW i \in Address
               PROVE  (data[p][i] + change(p, i)) % V \in Value /\ (data[p][i] - change(p, i)) % V \in Value
    BY <1>5
  <2>1. data[p][i] \in Int
    BY <1>3
  <2>2. data[p][i] + change(p, i) \in Int /\ data[p][i] - change(p, i) \in Int
    BY <2>1, <1>12
  <2> QED BY <2>2, ModValue
<1>15. ASSUME NEW i \in Address
       PROVE  Mem'[i] = IF i = at THEN target ELSE Mem[i]
  <2> DEFINE m == data[0][i]
             n == data[2][i]
             c == change(0, i)
             k == change(2, i)
             y == IF i = at THEN v + dv[0] ELSE 0
             mm == data'[0][i]
             nn == data'[2][i]
  <2>1. m \in Int /\ n \in Int /\ c \in Int /\ k \in Int /\ y \in Int /\ mm \in Int /\ nn \in Int
    <3>1. data[0] \in [Address -> Value] /\ data[2] \in [Address -> Value]
      BY <1>3, <1>7
    <3>2. data'[0] \in [Address -> Value] /\ data'[2] \in [Address -> Value]
      BY <1>7, <1>14
    <3>3. m \in Int /\ n \in Int /\ mm \in Int /\ nn \in Int
      BY <1>3, <3>1, <3>2
    <3>4. c \in Int /\ k \in Int
      BY <1>7, <1>12
    <3>5. y \in Int
      BY <1>4, <1>7, <1>9
    <3> QED BY <3>3, <3>4, <3>5
  <2>2. mm = (m + c) % V /\ nn = (n - k) % V
    BY <1>5, <1>7
  <2>3. Mem'[i] = (mm + nn) % V /\ Mem[i] = (m + n) % V
    BY DEF Mem
  <2>4. Same(V, c - k, y)
    BY <1>13
  <2> HIDE DEF m, n, c, k, y, mm, nn
  <2>5. m + c \in Int /\ n - k \in Int /\ m + n \in Int /\ c - k \in Int /\ mm + nn \in Int
    BY <2>1
  <2>6. Same(V, mm, m + c) /\ Same(V, nn, n - k)
    BY <2>2, <2>5, ModValue
  <2>7. Same(V, mm + nn, (m + c) + (n - k))
    BY <1>3, <2>1, <2>5, <2>6, SamePlus
  <2>8. Same(V, m + n, m + n)
    BY DEF Same
  <2>9. Same(V, (m + n) + (c - k), (m + n) + y)
    BY <1>3, <2>1, <2>4, <2>5, <2>8, SamePlus
  <2>10. (m + c) + (n - k) = (m + n) + (c - k)
    BY <2>1
  <2>11. Same(V, mm + nn, (m + n) + y)
    BY <2>7, <2>9, <2>10, SameTrans
  <2>12. CASE i # at
    <3>1. y = 0 /\ (m + n) + y = m + n
      BY <2>1, <2>12 DEF y
    <3> QED BY <2>3, <2>11, <2>12, <3>1 DEF Same
  <2>13. CASE i = at
    <3> DEFINE o == tmp[0] + tmp[2]
    <3>1. o \in Int /\ Same(V, m + n, o)
      <4>1. o \in Int
        BY <1>8
      <4>2. Out = o % V /\ Out = Mem[at]
        BY <1>2 DEF AInv, OrgIsCurrent, Out
      <4> HIDE DEF o
      <4>3. o % V = (m + n) % V
        BY <2>3, <2>13, <4>2
      <4> QED BY <4>1, <4>3 DEF Same
    <3>2. y = v + dv[0] /\ Same(V, dv[0], target - o - v) /\ dv[0] \in Int
      BY <1>7, <1>9, <1>10, <2>13 DEF y
    <3> HIDE DEF o
    <3>3. (m + n) + y = ((m + n) + v) + dv[0] /\ (m + n) + v \in Int /\ target - o - v \in Int
      BY <1>4, <2>1, <3>1, <3>2
    <3>4. Same(V, v, v)
      BY DEF Same
    <3>5. Same(V, (m + n) + v, o + v) /\ o + v \in Int
      BY <1>3, <1>4, <2>5, <3>1, <3>4, SamePlus
    <3>6. Same(V, ((m + n) + v) + dv[0], (o + v) + (target - o - v))
      BY <1>3, <3>2, <3>3, <3>5, SamePlus
    <3>7. (o + v) + (target - o - v) = target
      BY <1>4, <3>1
    <3>8. Same(V, mm + nn, target)
      BY <2>11, <3>3, <3>6, <3>7, SameTrans
    <3>9. (mm + nn) % V = target % V
      BY <3>8 DEF Same
    <3>10. Same(V, target % V, target) /\ target % V \in Value
      BY <1>4, ModValue
    <3>11. target % V = target
      BY <1>3, <3>10, SameEqual DEF Value
    <3> QED BY <2>3, <2>13, <3>9, <3>11
  <2> QED BY <2>12, <2>13
<1>16. TypeOK'
  <2>1. left' \in 0 .. Itr
    BY <1>2, <1>3
  <2> QED BY <1>1, <1>2, <1>14, <2>1 DEF AInv, TypeOK
<1>17. OrgIsCurrent'
  BY <1>2 DEF OrgIsCurrent
<1>18. Mem' = [Mem EXCEPT ![at] = asked']
  <2>1. Mem = [i \in Address |-> Mem[i]] /\ Mem' = [i \in Address |-> Mem'[i]]
    BY DEF Mem
  <2> HIDE DEF Mem
  <2> QED BY <1>1, <1>15, <2>1
<1>19. Out' = Out
  BY <1>2 DEF Out
<1> QED BY <1>1, <1>2, <1>16, <1>17, <1>18, <1>19 DEF Array!Write

LEMMA StutterArray ==
  ASSUME AInv, UNCHANGED vars
  PROVE  TypeOK' /\ OrgIsCurrent' /\ UNCHANGED <<Mem, at, Out, asked>>
BY DEF AInv, TypeOK, OrgIsCurrent, Mem, Out, vars

(* One step of the players is a step of the array, or leaves it as it is *)
LEMMA StepArray ==
  ASSUME AInv, [Next]_vars
  PROVE  AInv' /\ [Array!Next]_<<Mem, at, Out, asked>>
<1>1. CASE Read
  BY <1>1, ReadArray, ReadKeeps DEF AInv, Array!Next
<1>2. CASE Convert
  BY <1>2, ConvertArray, ConvertKeeps DEF AInv
<1>3. CASE Write
  BY <1>3, WriteArray, WriteKeeps DEF AInv, Array!Next
<1>4. CASE Terminated \/ UNCHANGED vars
  BY <1>4, StutterArray, StutterKeeps DEF AInv, Terminated
<1> QED BY <1>1, <1>2, <1>3, <1>4 DEF Next

(* The shares add up to the array's elements in every state.               *)
THEOREM ArrayInductive == Spec => []AInv
<1>1. Init => AInv
  BY InitArray
<1>2. AInv /\ [Next]_vars => AInv'
  BY StepArray
<1> QED BY <1>1, <1>2, PTL DEF Spec

(* Every variable of the shared array keeps its type *)
THEOREM TypeCorrect == Spec => []TypeOK
<1>1. AInv => TypeOK
  BY DEF AInv
<1> QED BY <1>1, ArrayInductive, PTL

(* What Ram::write subtracts as org is the element it writes over *)
THEOREM Current == Spec => []OrgIsCurrent
<1>1. AInv => OrgIsCurrent
  BY DEF AInv
<1> QED BY <1>1, ArrayInductive, PTL

(* The players' shares implement an array *)
THEOREM Implements == Spec => ImplementsMemory
<1>1. Init => Array!Init
  BY InitArray
<1>2. AInv /\ [Next]_vars => [Array!Next]_<<Mem, at, Out, asked>>
  BY StepArray
<1> QED BY <1>1, <1>2, ArrayInductive, PTL DEF Spec, ImplementsMemory, Array!Spec
===============================================================================
