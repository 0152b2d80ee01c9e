------------------------------ MODULE MaskedProofs ------------------------------
(***************************************************************************)
(* MaskedShares for every width of a word, mask, factor and number of      *)
(* operands.                                                               *)
(*                                                                         *)
(* Every equation of the protocol holds modulo W only, so what is carried  *)
(* through the lemmas is Same(W, a, b): the numbers differ by a multiple   *)
(* of W.  It is kept by sums, products and the sums over operands of       *)
(* Arithmetic.  A product's share is then the product of the values        *)
(* (OneProduct, DotRight); what is folded is a product, a line or a        *)
(* parabola (InterTwo and what follows it); Trunc is a quotient of a       *)
(* difference (QuotientDifference); and Sign finds the first place at      *)
(* which the bits of two numbers differ, where the sum of the differences  *)
(* is 1 for the first time (FirstDifference, Ones).                        *)
(*                                                                         *)
(* MInv is inductive: the registers are shares, and the last call was      *)
(* right.                                                                  *)
(***************************************************************************)
EXTENDS MaskedShares, Arithmetic, TLAPS

-------------------------------------------------------------------------------
(* The numbers of the model *)
LEMMA Widths ==
  /\ W \in Nat \ {0} /\ Half \in Nat \ {0} /\ W = 2 * Half
  /\ 2 ^ Prec \in Nat \ {0}
  /\ \A w \in Word : w \in Int
  /\ Rand \in Word /\ Rand \in Int /\ Delta \in Int
<1> DEFINE k == L - 1
           h == 2 ^ k
           w == 2 ^ (k + 1)
<1>1. L \in Nat \ {0} /\ Prec \in Nat /\ k \in Nat /\ L = k + 1
  BY MaskedAssumption
<1>2. h \in Nat \ {0} /\ w \in Nat \ {0} /\ w = 2 * h
  <2> HIDE DEF k
  <2>1. k + 1 \in Nat
    BY <1>1
  <2> QED BY <1>1, <2>1, PowerTwo
<1>3. W = w
  BY <1>1 DEF W
<1> HIDE DEF h, w
<1>4. w \div 2 = h
  BY <1>2
<1>5. Half = h
  BY <1>3, <1>4 DEF Half
<1>6. 2 ^ Prec \in Nat \ {0}
  BY <1>1, PowerTwo
<1>7. Rand \in Word /\ Delta \in Word /\ \A v \in Word : v \in Int
  BY MaskedAssumption DEF Word
<1> QED BY <1>2, <1>3, <1>5, <1>6, <1>7

(* What is taken modulo W *)
LEMMA ModWord ==
  ASSUME NEW n \in Int
  PROVE  n % W \in Word /\ n % W \in Int /\ Same(W, n % W, n) /\ Same(W, n, n % W)
BY Widths, SameMod DEF Word

(* A share is made of words *)
LEMMA Parts ==
  ASSUME NEW x \in AShare
  PROVE  /\ x.r \in Word /\ x.r \in Int
         /\ \A p \in 1 .. 2 : /\ x.r1[p] \in Word /\ x.r1[p] \in Int
                              /\ x.r2[p] \in Word /\ x.r2[p] \in Int
BY Widths DEF AShare

(* The value is m - r *)
LEMMA ValueTypes ==
  ASSUME NEW x \in AShare
  PROVE  ValueOf(x) \in Word /\ ValueOf(x) \in Int /\ Same(W, ValueOf(x), x.r1[1] - x.r)
<1> DEFINE d == x.r1[1] - x.r
<1>1. d \in Int
  BY Parts
<1>2. ValueOf(x) = d % W
  BY DEF ValueOf
<1> HIDE DEF d
<1>3. ValueOf(x) \in Word /\ ValueOf(x) \in Int /\ Same(W, ValueOf(x), d)
  BY <1>1, <1>2, ModWord
<1> QED BY <1>3 DEF d

(* What the players make of one product: the masks, shared unevenly, fall out *)
LEMMA OneProduct ==
  ASSUME NEW m \in Int, NEW n \in Int, NEW rx \in Int, NEW ry \in Int,
         NEW x1 \in Int, NEW x2 \in Int, NEW y1 \in Int, NEW y2 \in Int,
         NEW vx \in Int, NEW vy \in Int,
         Same(W, x1 + x2, rx), Same(W, y1 + y2, ry), Same(W, vx, m - rx), Same(W, vy, n - ry)
  PROVE  Same(W, (rx * ry + (m * n - m * y1 - x1 * n)) + (0 - m * y2 - x2 * n), vx * vy)
<1> DEFINE a == x1 + x2
           b == y1 + y2
           u == m - rx
           v == n - ry
<1>1. a \in Int /\ b \in Int /\ u \in Int /\ v \in Int /\ m * b \in Int /\ m * ry \in Int
      /\ n * a \in Int /\ n * rx \in Int
  OBVIOUS
<1>2. Same(W, m * b, m * ry) /\ Same(W, n * a, n * rx)
  <2> HIDE DEF a, b
  <2>1. Same(W, a, rx) /\ Same(W, b, ry)
    BY DEF a, b
  <2> QED BY <1>1, <2>1, Widths, SameTimes
<1> DEFINE mb == m * b
           mr == m * ry
           na == n * a
           nr == n * rx
           s == rx * ry + m * n
<1>3. s \in Int /\ mb \in Int /\ mr \in Int /\ na \in Int /\ nr \in Int
      /\ Same(W, mb, mr) /\ Same(W, na, nr) /\ Same(W, s, s)
  BY <1>1, <1>2 DEF Same
<1>4. (rx * ry + (m * n - m * y1 - x1 * n)) + (0 - m * y2 - x2 * n) = (s - mb) - na
  OBVIOUS
<1>5. u * v = (s - mr) - nr
  OBVIOUS
<1>6. Same(W, u * v, vx * vy)
  <2>1. Same(W, vx, u) /\ Same(W, vy, v)
    OBVIOUS
  <2> HIDE DEF u, v
  <2>2. Same(W, vx * vy, u * v)
    BY <1>1, <2>1, Widths, SameProduct
  <2> QED BY <2>2, SameSym
<1> HIDE DEF s, mb, mr, na, nr
<1>7. s - mb \in Int /\ s - mr \in Int /\ Same(W, s - mb, s - mr)
  BY <1>3, Widths, SameMinus
<1>8. Same(W, (s - mb) - na, (s - mr) - nr)
  <2> DEFINE p == s - mb
             q == s - mr
  <2>1. p \in Int /\ q \in Int /\ Same(W, p, q)
    BY <1>7
  <2> HIDE DEF p, q
  <2>2. Same(W, p - na, q - nr)
    BY <1>3, <2>1, Widths, SameMinus
  <2> QED BY <2>2 DEF p, q
<1> QED BY <1>4, <1>5, <1>6, <1>8, SameTrans

DotSum(xs, ys) == SumOf(DOMAIN xs, LAMBDA i : ValueOf(xs[i]) * ValueOf(ys[i]))

(* A result's mask is shared *)
LEMMA MaskedTypes ==
  /\ Masked.r \in Word /\ Masked.r \in Int /\ Masked.r2 \in [1 .. 2 -> Word]
  /\ Masked.r2[1] = Rand /\ Masked.r2[2] = Rand
  /\ (Masked.r2[1] + Masked.r2[2]) % W = Masked.r
<1> DEFINE s == 2 * Rand
<1>1. s \in Int /\ Rand + Rand = s
  BY Widths
<1>2. Masked.r = s % W /\ Masked.r2 = << Rand, Rand >>
  BY DEF Masked
<1> HIDE DEF s
<1>3. s % W \in Word /\ s % W \in Int
  BY <1>1, ModWord
<1> QED BY <1>1, <1>2, <1>3, Widths

(* A shared number is the sum of its shares *)
LEMMA SharedB ==
  ASSUME NEW v \in Int
  PROVE  /\ ShareB(v)[1] \in Word /\ ShareB(v)[1] \in Int
         /\ ShareB(v)[2] \in Word /\ ShareB(v)[2] \in Int
         /\ Same(W, ShareB(v)[1] + ShareB(v)[2], v)
<1> DEFINE d == v - Rand
           e == d % W
<1>1. d \in Int /\ d + Rand = v
  BY Widths
<1>2. ShareB(v)[1] = e /\ ShareB(v)[2] = Rand
  BY DEF ShareB
<1>3. e \in Word /\ e \in Int /\ Same(W, e, d)
  <2> HIDE DEF d
  <2> QED BY <1>1, ModWord
<1> HIDE DEF d, e
<1>4. Same(W, Rand, Rand)
  BY DEF Same
<1>5. Same(W, e + Rand, d + Rand)
  BY <1>1, <1>3, <1>4, Widths, SamePlus
<1> QED BY <1>1, <1>2, <1>3, <1>5, Widths

(* Both players see the sum *)
LEMMA Revealed ==
  ASSUME NEW a \in Int, NEW b \in Int, NEW s, s[1] = a, s[2] = b
  PROVE  /\ RevealB(s) \in [1 .. 2 -> Word] /\ RevealB(s)[1] = RevealB(s)[2]
         /\ RevealB(s)[1] \in Int /\ Same(W, RevealB(s)[1], a + b)
<1> DEFINE c == a + b
<1>1. c \in Int
  OBVIOUS
<1>2. RevealB(s) = << c % W, c % W >>
  BY DEF RevealB
<1> HIDE DEF c
<1>3. c % W \in Word /\ c % W \in Int /\ Same(W, c % W, c)
  BY <1>1, ModWord
<1>4. Same(W, RevealB(s)[1], c)
  BY <1>2, <1>3
<1> QED BY <1>2, <1>3, <1>4 DEF c

(* A product's share: what the shared number and the players' terms add up to *)
LEMMA DotTypes ==
  ASSUME NEW xs \in Seq(AShare), NEW ys \in Seq(AShare), Len(ys) = Len(xs), NEW mal \in BOOLEAN
  PROVE  LET z == DotOf(xs, ys, mal)
             S == DOMAIN xs
             k == IF mal THEN 1 ELSE 0
             g == [j \in S |-> xs[j].r * ys[j].r]
             f1 == [j \in S |-> xs[j].r1[1] * ys[j].r1[1] - xs[j].r1[1] * ys[j].r2[1]
                                - xs[j].r2[1] * ys[j].r1[1]]
             f2 == [j \in S |-> 0 - xs[j].r1[2] * ys[j].r2[2] - xs[j].r2[2] * ys[j].r1[2]]
         IN  /\ z \in AShare /\ z.r1[1] = z.r1[2]
             /\ z.r = Masked.r /\ z.r2 = Masked.r2
             /\ IsFiniteSet(S)
             /\ \A j \in S : xs[j] \in AShare /\ ys[j] \in AShare
             /\ \A j \in S : g[j] \in Int /\ f1[j] \in Int /\ f2[j] \in Int
             /\ Same(W, z.r1[1], SumFunctionOnSet(g, S) + SumFunctionOnSet(f1, S)
                                 + SumFunctionOnSet(f2, S) + Masked.r + k)
<1> DEFINE z == DotOf(xs, ys, mal)
           S == DOMAIN xs
           k == IF mal THEN 1 ELSE 0
           g == [j \in S |-> xs[j].r * ys[j].r]
           f1 == [j \in S |-> xs[j].r1[1] * ys[j].r1[1] - xs[j].r1[1] * ys[j].r2[1]
                              - xs[j].r2[1] * ys[j].r1[1]]
           f2 == [j \in S |-> 0 - xs[j].r1[2] * ys[j].r2[2] - xs[j].r2[2] * ys[j].r1[2]]
           G == SumFunctionOnSet(g, S)
           F1 == SumFunctionOnSet(f1, S)
           F2 == SumFunctionOnSet(f2, S)
<1>1. S = 1 .. Len(xs) /\ Len(xs) \in Nat /\ \A j \in S : xs[j] \in AShare /\ ys[j] \in AShare
  OBVIOUS
<1>2. IsFiniteSet(S)
  <2> DEFINE n == Len(xs)
  <2>1. n \in Int /\ 1 \in Int /\ S = 1 .. n
    BY <1>1
  <2> HIDE DEF n, S
  <2> QED BY <2>1, FS_Interval
<1>3. ASSUME NEW j \in S
      PROVE  g[j] \in Int /\ f1[j] \in Int /\ f2[j] \in Int
  <2>1. xs[j] \in AShare /\ ys[j] \in AShare
    BY <1>1
  <2> DEFINE x == xs[j]
             y == ys[j]
             m1 == x.r1[1]
             n1 == y.r1[1]
             m2 == x.r1[2]
             n2 == y.r1[2]
             a1 == x.r2[1]
             b1 == y.r2[1]
             a2 == x.r2[2]
             b2 == y.r2[2]
             rx == x.r
             ry == y.r
  <2>2. /\ rx \in Int /\ ry \in Int /\ m1 \in Int /\ n1 \in Int /\ m2 \in Int /\ n2 \in Int
        /\ a1 \in Int /\ b1 \in Int /\ a2 \in Int /\ b2 \in Int
    BY <2>1, Parts
  <2>3. g[j] = rx * ry /\ f1[j] = m1 * n1 - m1 * b1 - a1 * n1 /\ f2[j] = 0 - m2 * b2 - a2 * n2
    OBVIOUS
  <2> HIDE DEF rx, ry, m1, n1, m2, n2, a1, b1, a2, b2
  <2>4. /\ rx * ry \in Int /\ m1 * n1 - m1 * b1 - a1 * n1 \in Int
        /\ 0 - m2 * b2 - a2 * n2 \in Int
    BY <2>2
  <2> QED BY <2>3, <2>4
<1> DEFINE gamma == Gamma(xs, ys, mal)
           s == ShareB(gamma)
           o == [p \in 1 .. 2 |-> Online(p, s[p], xs, ys)]
           o1 == s[1] + F1
           o2 == s[2] + F2
<1>4. gamma = G + Masked.r + k
  BY DEF Gamma, SumOf
<1>5. /\ Online(1, s[1], xs, ys) = o1 % W
      /\ Online(2, s[2], xs, ys) = o2 % W
  <2>1. f1 = [j \in S |-> (IF 1 = 1 THEN xs[j].r1[1] * ys[j].r1[1] ELSE 0)
                          - xs[j].r1[1] * ys[j].r2[1] - xs[j].r2[1] * ys[j].r1[1]]
    OBVIOUS
  <2>2. f2 = [j \in S |-> (IF 2 = 1 THEN xs[j].r1[2] * ys[j].r1[2] ELSE 0)
                          - xs[j].r1[2] * ys[j].r2[2] - xs[j].r2[2] * ys[j].r1[2]]
    OBVIOUS
  <2> HIDE DEF f1, f2, s
  <2> QED BY <2>1, <2>2 DEF Online, SumOf
<1>6. z.r1 = RevealB(o) /\ z.r2 = Masked.r2 /\ z.r = Masked.r
      /\ z = [r1 |-> z.r1, r2 |-> z.r2, r |-> z.r]
  <2> HIDE DEF gamma, s, o
  <2>1. z = [r1 |-> RevealB(o), r2 |-> Masked.r2, r |-> Masked.r]
    BY DEF DotOf, gamma, s, o
  <2> QED BY <2>1
<1> HIDE DEF g, f1, f2, S
<1>7. G \in Int /\ F1 \in Int /\ F2 \in Int
  BY <1>2, <1>3, SumInt
<1> HIDE DEF G, F1, F2
<1>8. gamma \in Int /\ k \in Int
  BY <1>4, <1>7, MaskedTypes
<1> HIDE DEF gamma, k
<1>9. s[1] \in Int /\ s[2] \in Int /\ Same(W, s[1] + s[2], gamma)
  BY <1>8, SharedB
<1> HIDE DEF s
<1>10. o1 \in Int /\ o2 \in Int /\ o[1] = o1 % W /\ o[2] = o2 % W
  BY <1>5, <1>7, <1>9
<1> DEFINE u == o1 % W
           v == o2 % W
<1>11. o[1] = u /\ o[2] = v /\ o1 + o2 = (s[1] + s[2]) + (F1 + F2)
  BY <1>7, <1>9, <1>10
<1> HIDE DEF o1, o2, o
<1>12. u \in Int /\ v \in Int /\ Same(W, u, o1) /\ Same(W, v, o2)
  BY <1>10, ModWord
<1> HIDE DEF u, v
<1>13. Same(W, u + v, o1 + o2)
  BY <1>10, <1>12, Widths, SamePlus
<1>14. Same(W, (s[1] + s[2]) + (F1 + F2), gamma + (F1 + F2))
  <2> DEFINE a == s[1] + s[2]
             b == F1 + F2
  <2>1. a \in Int /\ b \in Int /\ Same(W, a, gamma) /\ Same(W, b, b)
    BY <1>7, <1>9 DEF Same
  <2> HIDE DEF a, b
  <2>2. Same(W, a + b, gamma + b)
    BY <1>8, <2>1, Widths, SamePlus
  <2> QED BY <2>2 DEF a, b
<1>15. gamma + (F1 + F2) = G + F1 + F2 + Masked.r + k
  BY <1>4, <1>7, <1>8, MaskedTypes
<1>16. /\ RevealB(o) \in [1 .. 2 -> Word] /\ RevealB(o)[1] = RevealB(o)[2]
       /\ RevealB(o)[1] \in Int /\ Same(W, RevealB(o)[1], u + v)
  BY <1>11, <1>12, Revealed
<1>17. Same(W, z.r1[1], G + F1 + F2 + Masked.r + k)
  BY <1>6, <1>11, <1>13, <1>14, <1>15, <1>16, SameTrans
<1>18. z \in AShare
  BY <1>6, <1>16, MaskedTypes DEF AShare
<1> QED BY <1>1, <1>2, <1>3, <1>6, <1>16, <1>17, <1>18 DEF G, F1, F2, S, g, f1, f2, k

(* What Consistent says of numbers *)
LEMMA Agreed ==
  ASSUME NEW x \in AShare, Consistent(x)
  PROVE  x.r1[2] = x.r1[1] /\ Same(W, x.r2[1] + x.r2[2], x.r)
<1> DEFINE d == x.r2[1] + x.r2[2]
<1>1. d \in Int /\ d % W = x.r
  BY Parts DEF Consistent
<1> HIDE DEF d
<1>2. Same(W, d, x.r)
  BY <1>1, ModWord
<1> QED BY <1>2 DEF d, Consistent

(* A product stands for the sum of the products, whatever the masks and the *)
(* sharing of them                                                          *)
LEMMA DotRight ==
  ASSUME NEW xs \in Seq(AShare), NEW ys \in Seq(AShare), Len(ys) = Len(xs), NEW mal \in BOOLEAN,
         AllConsistent(xs), AllConsistent(ys)
  PROVE  LET z == DotOf(xs, ys, mal)
         IN  /\ Consistent(z) /\ DotSum(xs, ys) \in Int
             /\ Same(W, ValueOf(z), DotSum(xs, ys) + (IF mal THEN 1 ELSE 0))
<1> DEFINE z == DotOf(xs, ys, mal)
           S == DOMAIN xs
           k == IF mal THEN 1 ELSE 0
           g == [j \in S |-> xs[j].r * ys[j].r]
           f1 == [j \in S |-> xs[j].r1[1] * ys[j].r1[1] - xs[j].r1[1] * ys[j].r2[1]
                              - xs[j].r2[1] * ys[j].r1[1]]
           f2 == [j \in S |-> 0 - xs[j].r1[2] * ys[j].r2[2] - xs[j].r2[2] * ys[j].r1[2]]
           h == [j \in S |-> ValueOf(xs[j]) * ValueOf(ys[j])]
           gf == [j \in S |-> g[j] + f1[j]]
           sum == [j \in S |-> gf[j] + f2[j]]
           R == Masked.r
           G == SumFunctionOnSet(g, S)
           F1 == SumFunctionOnSet(f1, S)
           F2 == SumFunctionOnSet(f2, S)
           GF == SumFunctionOnSet(gf, S)
           A == SumFunctionOnSet(sum, S)
           H == SumFunctionOnSet(h, S)
<1>1. /\ z \in AShare /\ z.r1[1] = z.r1[2] /\ z.r = R /\ z.r2 = Masked.r2
      /\ IsFiniteSet(S)
      /\ \A j \in S : xs[j] \in AShare /\ ys[j] \in AShare
      /\ \A j \in S : g[j] \in Int /\ f1[j] \in Int /\ f2[j] \in Int
      /\ Same(W, z.r1[1], G + F1 + F2 + R + k)
  BY DotTypes
<1>2. \A j \in S : Consistent(xs[j]) /\ Consistent(ys[j])
  BY DEF AllConsistent
<1>3. ASSUME NEW j \in S
      PROVE  sum[j] \in Int /\ h[j] \in Int /\ Same(W, sum[j], h[j])
  <2>1. xs[j] \in AShare /\ ys[j] \in AShare /\ Consistent(xs[j]) /\ Consistent(ys[j])
    BY <1>1, <1>2
  <2> DEFINE x == xs[j]
             y == ys[j]
             m == x.r1[1]
             n == y.r1[1]
             x1 == x.r2[1]
             y1 == y.r2[1]
             x2 == x.r2[2]
             y2 == y.r2[2]
             rx == x.r
             ry == y.r
             vx == ValueOf(x)
             vy == ValueOf(y)
  <2>2. /\ rx \in Int /\ ry \in Int /\ m \in Int /\ n \in Int
        /\ x1 \in Int /\ y1 \in Int /\ x2 \in Int /\ y2 \in Int
    BY <2>1, Parts
  <2>3. vx \in Int /\ vy \in Int /\ Same(W, vx, m - rx) /\ Same(W, vy, n - ry)
    BY <2>1, ValueTypes
  <2>4. /\ x.r1[2] = m /\ y.r1[2] = n
        /\ Same(W, x1 + x2, rx) /\ Same(W, y1 + y2, ry)
    BY <2>1, Agreed
  <2>5. sum[j] = (rx * ry + (m * n - m * y1 - x1 * n)) + (0 - m * y2 - x2 * n)
        /\ h[j] = vx * vy
    BY <2>4
  <2> HIDE DEF rx, ry, m, n, x1, x2, y1, y2, vx, vy
  <2>6. Same(W, (rx * ry + (m * n - m * y1 - x1 * n)) + (0 - m * y2 - x2 * n), vx * vy)
    BY <2>2, <2>3, <2>4, OneProduct
  <2>7. (rx * ry + (m * n - m * y1 - x1 * n)) + (0 - m * y2 - x2 * n) \in Int /\ vx * vy \in Int
    BY <2>2, <2>3
  <2> QED BY <2>5, <2>6, <2>7
<1>4. \A j \in S : gf[j] \in Int /\ gf[j] = g[j] + f1[j] /\ sum[j] = gf[j] + f2[j]
  BY <1>1
<1>5. DotSum(xs, ys) = H
  BY DEF DotSum, SumOf
<1> HIDE DEF S, g, f1, f2, gf, sum, h
<1>6. GF = G + F1
  BY <1>1, <1>4, SumPlus
<1>7. A = GF + F2
  BY <1>1, <1>4, SumPlus
<1>8. Same(W, A, H)
  BY <1>1, <1>3, Widths, SumModulo
<1>9. G \in Int /\ F1 \in Int /\ F2 \in Int /\ A \in Int /\ H \in Int
  BY <1>1, <1>3, SumInt
<1>10. R \in Int /\ k \in Int
  BY MaskedTypes
<1> HIDE DEF G, F1, F2, GF, A, H, k, R
<1> DEFINE t == R + k
<1>11. t \in Int /\ G + F1 + F2 + R + k = A + t /\ Same(W, t, t)
  BY <1>6, <1>7, <1>9, <1>10 DEF Same
<1> HIDE DEF t
<1>12. Same(W, A + t, H + t)
  BY <1>8, <1>9, <1>11, Widths, SamePlus
<1> DEFINE m == z.r1[1]
           hk == H + t
<1>13. m \in Int /\ Same(W, m, hk) /\ hk \in Int /\ Same(W, R, R)
  BY <1>1, <1>9, <1>11, <1>12, Parts, SameTrans DEF Same
<1>14. Same(W, m - R, hk - R)
  <2> HIDE DEF m, hk
  <2> QED BY <1>10, <1>13, Widths, SameMinus
<1>15. hk - R = H + k
  BY <1>9, <1>10 DEF t
<1>16. Same(W, ValueOf(z), m - R)
  BY <1>1, ValueTypes
<1>17. Same(W, ValueOf(z), H + k)
  BY <1>14, <1>15, <1>16, SameTrans
<1>18. Consistent(z)
  BY <1>1, MaskedTypes DEF Consistent, R
<1> QED BY <1>5, <1>9, <1>17, <1>18 DEF k

InterSum(d, hs) == SumOf(DOMAIN hs, LAMBDA k : d[k] * ValueOf(hs[k]))

(* A sum of registers is a register *)
LEMMA InterTypes ==
  ASSUME NEW hs \in Seq(AShare), NEW d, \A k \in DOMAIN hs : d[k] \in Int
  PROVE  LET S == DOMAIN hs
             z == Inter(d, hs)
             m(p) == [k \in S |-> d[k] * hs[k].r1[p]]
             b(p) == [k \in S |-> d[k] * hs[k].r2[p]]
             r == [k \in S |-> d[k] * hs[k].r]
         IN  /\ z \in AShare
             /\ IsFiniteSet(S) /\ \A k \in S : hs[k] \in AShare
             /\ \A k \in S : r[k] \in Int /\ \A p \in 1 .. 2 : m(p)[k] \in Int /\ b(p)[k] \in Int
             /\ z.r = SumFunctionOnSet(r, S) % W
             /\ \A p \in 1 .. 2 : /\ z.r1[p] = SumFunctionOnSet(m(p), S) % W
                                  /\ z.r2[p] = SumFunctionOnSet(b(p), S) % W
<1> DEFINE S == DOMAIN hs
           z == Inter(d, hs)
           m(p) == [k \in S |-> d[k] * hs[k].r1[p]]
           b(p) == [k \in S |-> d[k] * hs[k].r2[p]]
           r == [k \in S |-> d[k] * hs[k].r]
           M(p) == SumFunctionOnSet(m(p), S)
           B(p) == SumFunctionOnSet(b(p), S)
           R == SumFunctionOnSet(r, S)
<1>1. S = 1 .. Len(hs) /\ Len(hs) \in Nat /\ \A j \in S : hs[j] \in AShare
  OBVIOUS
<1>2. IsFiniteSet(S)
  <2> DEFINE n == Len(hs)
  <2>1. n \in Int /\ 1 \in Int /\ S = 1 .. n
    BY <1>1
  <2> HIDE DEF n, S
  <2> QED BY <2>1, FS_Interval
<1>3. ASSUME NEW k \in S
      PROVE  r[k] \in Int /\ \A p \in 1 .. 2 : m(p)[k] \in Int /\ b(p)[k] \in Int
  <2> DEFINE e == d[k]
             h == hs[k]
             c == h.r
  <2>1. h \in AShare /\ e \in Int
    BY <1>1
  <2>2. c \in Int /\ \A p \in 1 .. 2 : h.r1[p] \in Int /\ h.r2[p] \in Int
    BY <2>1, Parts
  <2>3. r[k] = e * c /\ \A p \in 1 .. 2 : m(p)[k] = e * h.r1[p] /\ b(p)[k] = e * h.r2[p]
    OBVIOUS
  <2> HIDE DEF r, m, b, e, c, h
  <2>4. e * c \in Int
    BY <2>1, <2>2
  <2>5. \A p \in 1 .. 2 : e * h.r1[p] \in Int /\ e * h.r2[p] \in Int
    BY <2>1, <2>2
  <2> QED BY <2>3, <2>4, <2>5
<1>4. /\ z = [r1 |-> [p \in 1 .. 2 |-> M(p) % W], r2 |-> [p \in 1 .. 2 |-> B(p) % W], r |-> R % W]
  BY DEF Inter, SumOf
<1> HIDE DEF S, m, b, r
<1>5. R \in Int /\ \A p \in 1 .. 2 : M(p) \in Int /\ B(p) \in Int
  BY <1>2, <1>3, SumInt
<1> HIDE DEF R, M, B
<1>6. R % W \in Word /\ \A p \in 1 .. 2 : (M(p) % W) \in Word /\ (B(p) % W) \in Word
  BY <1>5, ModWord
<1> HIDE DEF z
<1>7. z \in AShare
  BY <1>4, <1>6 DEF AShare
<1>8. z.r = R % W /\ \A p \in 1 .. 2 : z.r1[p] = M(p) % W /\ z.r2[p] = B(p) % W
  BY <1>4
<1> QED BY <1>1, <1>2, <1>3, <1>7, <1>8 DEF z, S, m, b, r, R, M, B

(* It stands for the sum of the values *)
LEMMA InterRight ==
  ASSUME NEW hs \in Seq(AShare), NEW d, \A k \in DOMAIN hs : d[k] \in Int, AllConsistent(hs)
  PROVE  /\ Consistent(Inter(d, hs)) /\ InterSum(d, hs) \in Int
         /\ Same(W, ValueOf(Inter(d, hs)), InterSum(d, hs))
<1> DEFINE S == DOMAIN hs
           z == Inter(d, hs)
           m(p) == [k \in S |-> d[k] * hs[k].r1[p]]
           b(p) == [k \in S |-> d[k] * hs[k].r2[p]]
           r == [k \in S |-> d[k] * hs[k].r]
           m1 == m(1)
           m2 == m(2)
           b1 == b(1)
           b2 == b(2)
           bb == [k \in S |-> b1[k] + b2[k]]
           mr == [k \in S |-> m1[k] - r[k]]
           v == [k \in S |-> d[k] * ValueOf(hs[k])]
           M1 == SumFunctionOnSet(m1, S)
           M2 == SumFunctionOnSet(m2, S)
           B1 == SumFunctionOnSet(b1, S)
           B2 == SumFunctionOnSet(b2, S)
           BB == SumFunctionOnSet(bb, S)
           MR == SumFunctionOnSet(mr, S)
           R == SumFunctionOnSet(r, S)
           VV == SumFunctionOnSet(v, S)
<1>1. /\ z \in AShare /\ IsFiniteSet(S) /\ \A k \in S : hs[k] \in AShare
      /\ \A k \in S : r[k] \in Int /\ \A p \in 1 .. 2 : m(p)[k] \in Int /\ b(p)[k] \in Int
      /\ z.r = R % W
      /\ \A p \in 1 .. 2 : /\ z.r1[p] = SumFunctionOnSet(m(p), S) % W
                           /\ z.r2[p] = SumFunctionOnSet(b(p), S) % W
  BY InterTypes
<1>2. 1 \in 1 .. 2 /\ 2 \in 1 .. 2
  OBVIOUS
<1>3. /\ \A k \in S : m1[k] \in Int /\ m2[k] \in Int /\ b1[k] \in Int /\ b2[k] \in Int
      /\ z.r1[1] = M1 % W /\ z.r1[2] = M2 % W /\ z.r2[1] = B1 % W /\ z.r2[2] = B2 % W
  <2> HIDE DEF m, b, S, z
  <2> QED BY <1>1, <1>2
<1>4. ASSUME NEW k \in S
      PROVE  /\ m2[k] = m1[k] /\ bb[k] \in Int /\ Same(W, bb[k], r[k])
             /\ mr[k] \in Int /\ v[k] \in Int /\ Same(W, mr[k], v[k])
  <2> DEFINE e == d[k]
             h == hs[k]
             c == h.r
             x == h.r1[1]
             y1 == h.r2[1]
             y2 == h.r2[2]
             u == ValueOf(h)
             y == y1 + y2
             s == x - c
  <2>1. h \in AShare /\ Consistent(h) /\ e \in Int
    BY <1>1 DEF AllConsistent
  <2>2. c \in Int /\ x \in Int /\ y1 \in Int /\ y2 \in Int
    BY <2>1, Parts
  <2>3. h.r1[2] = x /\ Same(W, y, c)
    BY <2>1, Agreed
  <2>4. u \in Int /\ Same(W, u, s)
    BY <2>1, ValueTypes
  <2>5. m1[k] = e * x /\ m2[k] = e * x /\ bb[k] = e * y1 + e * y2 /\ r[k] = e * c
        /\ mr[k] = e * x - e * c /\ v[k] = e * u
    BY <2>3
  <2> HIDE DEF h, e, c, x, y1, y2, u, m1, m2, bb, r, mr, v
  <2>6. e * y1 + e * y2 = e * y /\ e * x - e * c = e * s /\ y \in Int /\ s \in Int
    BY <2>1, <2>2
  <2> HIDE DEF y, s
  <2>7. Same(W, e * y, e * c)
    BY <2>1, <2>2, <2>3, <2>6, Widths, SameTimes
  <2>8. Same(W, s, u)
    BY <2>4, SameSym
  <2>9. Same(W, e * s, e * u)
    BY <2>1, <2>4, <2>6, <2>8, Widths, SameTimes
  <2>10. e * y \in Int /\ e * s \in Int /\ e * u \in Int
    BY <2>1, <2>4, <2>6
  <2> QED BY <2>5, <2>6, <2>7, <2>9, <2>10
<1>5. InterSum(d, hs) = VV
  BY DEF InterSum, SumOf
<1>6. \A k \in S : /\ r[k] \in Int /\ bb[k] = b1[k] + b2[k] /\ mr[k] = m1[k] - r[k]
  BY <1>1
<1> HIDE DEF S, z, m1, m2, b1, b2, bb, mr, r, v
<1>7. M1 = M2
  BY <1>1, <1>4, SumSame
<1>8. BB = B1 + B2 /\ MR = M1 - R
  BY <1>1, <1>3, <1>6, SumPlus, SumDiff
<1>9. Same(W, BB, R) /\ Same(W, MR, VV)
  BY <1>1, <1>4, <1>6, Widths, SumModulo
<1>10. /\ M1 \in Int /\ B1 \in Int /\ B2 \in Int /\ R \in Int /\ VV \in Int
       /\ BB \in Int /\ MR \in Int
  BY <1>1, <1>3, <1>4, <1>6, SumInt
<1> HIDE DEF M1, M2, B1, B2, BB, MR, R, VV
<1> DEFINE x1 == M1 % W
           y1 == B1 % W
           y2 == B2 % W
           c == R % W
<1>11. /\ z.r1[1] = x1 /\ z.r1[2] = x1 /\ z.r2[1] = y1 /\ z.r2[2] = y2 /\ z.r = c
  BY <1>1, <1>3, <1>7
<1>12. /\ x1 \in Int /\ Same(W, x1, M1) /\ y1 \in Int /\ Same(W, y1, B1)
       /\ y2 \in Int /\ Same(W, y2, B2) /\ c \in Int /\ c \in Word /\ Same(W, c, R)
  BY <1>10, ModWord
<1> HIDE DEF x1, y1, y2, c
<1>13. Same(W, y1 + y2, B1 + B2)
  BY <1>10, <1>12, Widths, SamePlus
<1>14. Same(W, R, c)
  BY <1>12, SameSym
<1>15. Same(W, y1 + y2, c)
  BY <1>8, <1>9, <1>13, <1>14, SameTrans
<1>16. (y1 + y2) % W = c
  <2> DEFINE y == y1 + y2
             w == y % W
  <2>1. y \in Int /\ Same(W, y, c)
    BY <1>12, <1>15
  <2> HIDE DEF y
  <2>2. w \in Word /\ Same(W, w, y)
    BY <2>1, ModWord
  <2>3. Same(W, w, c) /\ w \in 0 .. (W - 1) /\ c \in 0 .. (W - 1)
    BY <1>12, <2>1, <2>2, SameTrans DEF Word
  <2> HIDE DEF w
  <2>4. w = c
    BY <2>3, Widths, SameEqual
  <2> QED BY <2>4 DEF y, w
<1>17. Consistent(z)
  BY <1>11, <1>16 DEF Consistent
<1>18. Same(W, ValueOf(z), x1 - c)
  BY <1>1, <1>11, ValueTypes
<1>19. Same(W, x1 - c, M1 - R)
  BY <1>10, <1>12, Widths, SameMinus
<1>20. Same(W, ValueOf(z), VV)
  BY <1>8, <1>9, <1>18, <1>19, SameTrans
<1> QED BY <1>5, <1>10, <1>17, <1>20 DEF z

(* A word is the remainder of the numbers it stands for *)
LEMMA WordIs ==
  ASSUME NEW v \in Word, NEW a \in Int, Same(W, v, a)
  PROVE  v = a % W
<1> DEFINE w == a % W
<1>1. w \in Word /\ Same(W, a, w)
  BY ModWord
<1> HIDE DEF w
<1>2. Same(W, v, w)
  BY <1>1, SameTrans
<1>3. v = w
  BY <1>1, <1>2, Widths, SameEqual DEF Word
<1> QED BY <1>3 DEF w

(* The shares of a word add up to it *)
LEMMA SharedExactly ==
  ASSUME NEW v \in Word
  PROVE  ShareB(v) \in [1 .. 2 -> Word] /\ (ShareB(v)[1] + ShareB(v)[2]) % W = v
<1> DEFINE s == ShareB(v)
           d == s[1] + s[2]
<1>1. s[1] \in Word /\ s[2] \in Word /\ s[1] \in Int /\ s[2] \in Int /\ Same(W, d, v) /\ v \in Int
  BY Widths, SharedB
<1>2. s \in [1 .. 2 -> Word]
  BY <1>1 DEF ShareB
<1> HIDE DEF s
<1>3. d \in Int
  BY <1>1
<1> HIDE DEF d
<1>4. v = d % W
  <2>1. Same(W, v, d)
    BY <1>1, SameSym
  <2> QED BY <1>3, <2>1, WordIs
<1> QED BY <1>2, <1>4 DEF s, d

(* A signed number is its word, modulo W *)
LEMMA SignedSame ==
  ASSUME NEW a \in Word
  PROVE  Signed(a) \in Int /\ Same(W, Signed(a), a)
<1> DEFINE s == Signed(a)
<1>1. a \in Int /\ W \in Nat \ {0}
  BY Widths
<1>2. s \in Int /\ (s = a + W * 0 \/ s = a + W * (-1))
  BY <1>1 DEF Signed
<1>3. \E q \in Int : s = a + W * q
  BY <1>2
<1> HIDE DEF s
<1>4. Same(W, s, a)
  BY <1>1, <1>2, <1>3, SameShift
<1> QED BY <1>2, <1>4 DEF s

LEMMA SignedRange ==
  ASSUME NEW a \in Word
  PROVE  Signed(a) \in -Half .. (Half - 1)
BY Widths DEF Signed, Word

(* A whole W more or less makes no difference to the word *)
LEMMA SameAround ==
  ASSUME NEW v \in Int, NEW d \in Int, Same(W, v, d)
  PROVE  Same(W, v, d - W) /\ Same(W, v, d + W)
<1>1. W \in Nat \ {0}
  BY Widths
<1> DEFINE less == d - W
           more == d + W
<1>2. /\ less \in Int /\ more \in Int /\ 1 \in Int /\ -1 \in Int
      /\ less = d + W * (-1) /\ more = d + W * 1
  BY <1>1
<1> HIDE DEF less, more
<1>3. Same(W, less, d) /\ Same(W, more, d)
  BY <1>1, <1>2, SameShift
<1>4. Same(W, v, less) /\ Same(W, v, more)
  BY <1>3, SameSym, SameTrans
<1> QED BY <1>4 DEF less, more

(* A number that fits is the signed reading of its word *)
LEMMA SignedIs ==
  ASSUME NEW v \in Word, NEW d \in -Half .. (Half - 1), Same(W, v, d)
  PROVE  Signed(v) = d
<1>1. v \in Int /\ d \in Int /\ W \in Nat \ {0} /\ Half \in Nat \ {0} /\ W = 2 * Half
  BY Widths
<1>2. CASE d >= 0
  <2>1. d \in 0 .. (W - 1) /\ v \in 0 .. (W - 1) /\ d < Half
    BY <1>1, <1>2 DEF Word
  <2>2. v = d
    BY <1>1, <2>1, SameEqual
  <2> QED BY <1>1, <2>1, <2>2 DEF Signed
<1>3. CASE d < 0
  <2> DEFINE e == d + W
  <2>1. e \in 0 .. (W - 1) /\ v \in 0 .. (W - 1) /\ e >= Half /\ e \in Int /\ e - W = d
        /\ e = d + W * 1 /\ 1 \in Int
    BY <1>1, <1>3 DEF Word
  <2> HIDE DEF e
  <2>2. Same(W, e, d)
    BY <1>1, <2>1, SameShift
  <2>3. Same(W, v, e)
    BY <2>2, SameSym, SameTrans
  <2>4. v = e
    BY <1>1, <2>1, <2>3, SameEqual
  <2> QED BY <1>1, <2>1, <2>4 DEF Signed
<1> QED BY <1>1, <1>2, <1>3

(* What is shifted *)
LEMMA ShiftWord ==
  ASSUME NEW a \in Word
  PROVE  /\ Signed(a) \div 2 ^ Prec \in Int
         /\ Shift(a) \in Word /\ Same(W, Shift(a), Signed(a) \div 2 ^ Prec)
<1> DEFINE Q == 2 ^ Prec
           s == Signed(a)
           q == s \div Q
<1>1. Q \in Nat \ {0} /\ s \in Int
  BY Widths, SignedSame
<1> HIDE DEF Q, s
<1>2. q \in Int
  BY <1>1
<1>3. Shift(a) = q % W
  BY DEF Shift, Q, s
<1> HIDE DEF q
<1>4. Shift(a) \in Word /\ Same(W, Shift(a), q)
  BY <1>2, <1>3, ModWord
<1> QED BY <1>2, <1>4 DEF q, s, Q

(* Truncated is a share, and the players agree on it if they did *)
LEMMA TruncTypes ==
  ASSUME NEW x \in AShare
  PROVE  /\ Truncated(x) \in AShare
         /\ Consistent(x) => Consistent(Truncated(x))
<1> DEFINE z == Truncated(x)
<1>1. x.r \in Word /\ \A p \in 1 .. 2 : x.r1[p] \in Word
  BY Parts
<1>2. Shift(x.r) \in Word /\ \A p \in 1 .. 2 : Shift(x.r1[p]) \in Word
  BY <1>1, ShiftWord
<1>3. /\ ShareB(Shift(x.r)) \in [1 .. 2 -> Word]
      /\ (ShareB(Shift(x.r))[1] + ShareB(Shift(x.r))[2]) % W = Shift(x.r)
  BY <1>2, SharedExactly
<1>4. z = [r1 |-> [p \in 1 .. 2 |-> Shift(x.r1[p])], r2 |-> ShareB(Shift(x.r)), r |-> Shift(x.r)]
  BY DEF Truncated
<1> HIDE DEF z
<1>5. z \in AShare
  BY <1>2, <1>3, <1>4 DEF AShare
<1>6. ASSUME Consistent(x) PROVE Consistent(z)
  <2>1. x.r1[1] = x.r1[2]
    BY <1>6 DEF Consistent
  <2>2. z.r1[1] = z.r1[2]
    BY <1>4, <2>1
  <2> QED BY <1>3, <1>4, <2>2 DEF Consistent
<1> QED BY <1>5, <1>6 DEF z

(* The two floors differ from the floor of the difference by one at most,   *)
(* and the difference of the signed numbers from the signed difference by   *)
(* nothing or one whole W                                                   *)
LEMMA TruncRight ==
  ASSUME NEW x \in AShare, Consistent(x)
  PROVE  LET d == Signed(x.r1[1]) - Signed(x.r)
         IN  \E e \in Bit, c \in -1 .. 1 :
               /\ d = Signed(ValueOf(x)) + c * W
               /\ ValueOf(Truncated(x)) = ((d \div 2 ^ Prec) + e) % W
<1> DEFINE Q == 2 ^ Prec
           m == x.r1[1]
           r == x.r
           z == Truncated(x)
           v == ValueOf(x)
           u == ValueOf(z)
           a == Signed(m)
           b == Signed(r)
           d == a - b
           sm == Shift(m)
           sr == Shift(r)
           p == a \div Q
           q == b \div Q
           f == d \div Q
<1>1. m \in Word /\ r \in Word /\ m \in Int /\ r \in Int /\ Q \in Nat \ {0}
  BY Parts, Widths
<1>2. z \in AShare /\ z.r1[1] = sm /\ z.r = sr
  BY TruncTypes DEF Truncated
<1>3. a \in Int /\ b \in Int /\ Same(W, a, m) /\ Same(W, b, r) /\ d \in Int
  BY <1>1, SignedSame
<1>4. v \in Word /\ v \in Int /\ Same(W, v, m - r) /\ u \in Word /\ u \in Int /\ Same(W, u, sm - sr)
  BY <1>2, ValueTypes
<1>5. /\ sm \in Word /\ sr \in Word /\ sm \in Int /\ sr \in Int
      /\ Same(W, sm, p) /\ Same(W, sr, q)
  BY <1>1, ShiftWord, Widths
<1> HIDE DEF m, r, z, v, u, a, b, sm, sr, Q
<1>6. \E c \in -1 .. 1 : d = Signed(v) + c * W
  <2>1. Same(W, a - b, m - r)
    BY <1>1, <1>3, Widths, SameMinus
  <2>2. Same(W, v, d)
    BY <1>4, <2>1, SameSym, SameTrans
  <2>3. /\ a \in -Half .. (Half - 1) /\ b \in -Half .. (Half - 1)
        /\ W = 2 * Half /\ Half \in Nat \ {0} /\ d = a - b
    BY <1>1, SignedRange, Widths DEF a, b
  <2> HIDE DEF d
  <2>4. CASE d \in -Half .. (Half - 1)
    <3>1. Signed(v) = d
      BY <1>4, <2>2, <2>4, SignedIs
    <3> QED BY <1>3, <2>3, <3>1
  <2>5. CASE d >= Half
    <3> DEFINE less == d - W
    <3>1. less \in -Half .. (Half - 1) /\ less \in Int
      BY <1>3, <2>3, <2>5
    <3>2. Same(W, v, less)
      BY <1>3, <1>4, <2>2, SameAround
    <3> HIDE DEF less
    <3>3. Signed(v) = less
      BY <1>4, <3>1, <3>2, SignedIs
    <3> QED BY <1>3, <2>3, <3>1, <3>3 DEF less
  <2>6. CASE d < -Half
    <3> DEFINE more == d + W
    <3>1. more \in -Half .. (Half - 1) /\ more \in Int
      BY <1>3, <2>3, <2>6
    <3>2. Same(W, v, more)
      BY <1>3, <1>4, <2>2, SameAround
    <3> HIDE DEF more
    <3>3. Signed(v) = more
      BY <1>4, <3>1, <3>2, SignedIs
    <3> QED BY <1>3, <2>3, <3>1, <3>3 DEF more
  <2> QED BY <1>3, <2>3, <2>4, <2>5, <2>6
<1>7. p \in Int /\ q \in Int /\ f \in Int /\ \E e \in 0 .. 1 : p - q = f + e
  BY <1>1, <1>3, QuotientDifference
<1> HIDE DEF p, q, f
<1>8. Same(W, sm - sr, p - q)
  BY <1>5, <1>7, Widths, SameMinus
<1>9. Same(W, u, p - q)
  BY <1>4, <1>8, SameTrans
<1>10. PICK e \in 0 .. 1 : p - q = f + e
  BY <1>7
<1> DEFINE t == f + e
<1>11. t \in Int /\ Same(W, u, t) /\ e \in Bit
  BY <1>7, <1>9, <1>10 DEF Bit
<1> HIDE DEF t
<1>12. u = t % W
  BY <1>4, <1>11, WordIs
<1> QED BY <1>6, <1>11, <1>12 DEF t, u, z, v, f, Q, d, a, b, m, r

(* A combination of two shares stands for that of the values *)
LEMMA InterTwo ==
  ASSUME NEW c1 \in Int, NEW c2 \in Int, NEW h1 \in AShare, NEW h2 \in AShare
  PROVE  LET z == Inter(<< c1, c2 >>, << h1, h2 >>)
         IN  /\ z \in AShare
             /\ Consistent(h1) /\ Consistent(h2) =>
                  Consistent(z) /\ Same(W, ValueOf(z), c1 * ValueOf(h1) + c2 * ValueOf(h2))
<1> DEFINE d == << c1, c2 >>
           hs == << h1, h2 >>
           z == Inter(d, hs)
           f == [k \in DOMAIN hs |-> d[k] * ValueOf(hs[k])]
           v1 == ValueOf(h1)
           v2 == ValueOf(h2)
<1>1. hs \in Seq(AShare) /\ DOMAIN hs = 1 .. 2 /\ \A k \in DOMAIN hs : d[k] \in Int
  OBVIOUS
<1>2. z \in AShare
  BY <1>1, InterTypes
<1>3. v1 \in Int /\ v2 \in Int
  BY ValueTypes
<1>4. f[1] = c1 * v1 /\ f[2] = c2 * v2
  OBVIOUS
<1>5. InterSum(d, hs) = SumFunctionOnSet(f, 1 .. 2)
  BY <1>1 DEF InterSum, SumOf
<1> HIDE DEF v1, v2, f
<1>6. f[1] \in Int /\ f[2] \in Int
  BY <1>3, <1>4
<1>7. InterSum(d, hs) = c1 * v1 + c2 * v2
  BY <1>4, <1>5, <1>6, SumTwo
<1>8. ASSUME Consistent(h1), Consistent(h2)
      PROVE  Consistent(z) /\ Same(W, ValueOf(z), InterSum(d, hs))
  <2>1. AllConsistent(hs)
    BY <1>8, <1>1 DEF AllConsistent
  <2> HIDE DEF d, hs
  <2> QED BY <1>1, <2>1, InterRight
<1> QED BY <1>2, <1>7, <1>8 DEF v1, v2

(* The same for three *)
LEMMA InterThree ==
  ASSUME NEW d, d[1] \in Int, d[2] \in Int, d[3] \in Int,
         NEW h1 \in AShare, NEW h2 \in AShare, NEW h3 \in AShare
  PROVE  LET z == Inter(d, << h1, h2, h3 >>)
         IN  /\ z \in AShare
             /\ Consistent(h1) /\ Consistent(h2) /\ Consistent(h3) =>
                  Consistent(z) /\ Same(W, ValueOf(z), d[1] * ValueOf(h1) + d[2] * ValueOf(h2)
                                                       + d[3] * ValueOf(h3))
<1> DEFINE hs == << h1, h2, h3 >>
           z == Inter(d, hs)
           f == [k \in DOMAIN hs |-> d[k] * ValueOf(hs[k])]
           v1 == ValueOf(h1)
           v2 == ValueOf(h2)
           v3 == ValueOf(h3)
<1>1. hs \in Seq(AShare) /\ DOMAIN hs = 1 .. 3 /\ \A k \in DOMAIN hs : d[k] \in Int
  OBVIOUS
<1>2. z \in AShare
  BY <1>1, InterTypes
<1>3. v1 \in Int /\ v2 \in Int /\ v3 \in Int
  BY ValueTypes
<1>4. f[1] = d[1] * v1 /\ f[2] = d[2] * v2 /\ f[3] = d[3] * v3
  OBVIOUS
<1>5. InterSum(d, hs) = SumFunctionOnSet(f, 1 .. 3)
  BY <1>1 DEF InterSum, SumOf
<1> HIDE DEF v1, v2, v3, f
<1>6. f[1] \in Int /\ f[2] \in Int /\ f[3] \in Int
  BY <1>3, <1>4
<1>7. InterSum(d, hs) = d[1] * v1 + d[2] * v2 + d[3] * v3
  BY <1>4, <1>5, <1>6, SumThree
<1>8. ASSUME Consistent(h1), Consistent(h2), Consistent(h3)
      PROVE  Consistent(z) /\ Same(W, ValueOf(z), InterSum(d, hs))
  <2>1. AllConsistent(hs)
    BY <1>8, <1>1 DEF AllConsistent
  <2> HIDE DEF hs
  <2> QED BY <1>1, <2>1, InterRight
<1> QED BY <1>2, <1>7, <1>8 DEF v1, v2, v3

(* The product of two shares *)
LEMMA DotOne ==
  ASSUME NEW x \in AShare, NEW y \in AShare, NEW mal \in BOOLEAN
  PROVE  LET z == DotOf(<< x >>, << y >>, mal)
         IN  /\ z \in AShare
             /\ DotSum(<< x >>, << y >>) = ValueOf(x) * ValueOf(y)
             /\ Consistent(x) /\ Consistent(y) =>
                  /\ Consistent(z)
                  /\ Same(W, ValueOf(z), ValueOf(x) * ValueOf(y) + (IF mal THEN 1 ELSE 0))
<1> DEFINE xs == << x >>
           ys == << y >>
           z == DotOf(xs, ys, mal)
           f == [k \in DOMAIN xs |-> ValueOf(xs[k]) * ValueOf(ys[k])]
           v == ValueOf(x)
           u == ValueOf(y)
<1>1. xs \in Seq(AShare) /\ ys \in Seq(AShare) /\ Len(ys) = Len(xs) /\ DOMAIN xs = 1 .. 1
      /\ DOMAIN ys = 1 .. 1
  OBVIOUS
<1>2. z \in AShare
  <2> HIDE DEF xs, ys
  <2> QED BY <1>1, DotTypes
<1>3. v \in Int /\ u \in Int
  BY ValueTypes
<1>4. f[1] = v * u
  OBVIOUS
<1>5. DotSum(xs, ys) = SumFunctionOnSet(f, 1 .. 1)
  BY <1>1 DEF DotSum, SumOf
<1> HIDE DEF v, u, f
<1>6. f[1] \in Int
  BY <1>3, <1>4
<1>7. DotSum(xs, ys) = v * u
  BY <1>4, <1>5, <1>6, SumOne
<1>8. ASSUME Consistent(x), Consistent(y)
      PROVE  Consistent(z) /\ Same(W, ValueOf(z), DotSum(xs, ys) + (IF mal THEN 1 ELSE 0))
  <2>1. AllConsistent(xs) /\ AllConsistent(ys)
    BY <1>8, <1>1 DEF AllConsistent
  <2> HIDE DEF xs, ys
  <2> QED BY <1>1, <2>1, DotRight
<1> QED BY <1>2, <1>7, <1>8 DEF v, u

(* The coefficients at Delta of the parabola through 0, 1 and 2 *)
LEMMA Coefficients ==
  /\ Lagrange[1] \in Int /\ Lagrange[2] \in Int /\ Lagrange[3] \in Int
  /\ 2 * Lagrange[1] = (Delta - 1) * (Delta - 2)
  /\ Lagrange[2] = Delta * (2 - Delta)
  /\ 2 * Lagrange[3] = (Delta - 1) * Delta
<1> DEFINE D == Delta
           a == D - 2
           b == D - 1
           c == (b * a) \div 2
           e == (b * D) \div 2
<1>1. D \in Int /\ a \in Int /\ b \in Int /\ a + 1 = b /\ b + 1 = D /\ a * b = b * a
  BY Widths
<1>2. Lagrange[1] = c /\ Lagrange[2] = D * (2 - D) /\ Lagrange[3] = e
  BY DEF Lagrange
<1> HIDE DEF a, b, D
<1>3. c \in Int /\ 2 * c = b * a
  BY <1>1, HalfProduct
<1>4. e \in Int /\ 2 * e = b * D
  BY <1>1, HalfProduct
<1> HIDE DEF c, e
<1>5. D * (2 - D) \in Int
  BY <1>1
<1> QED BY <1>2, <1>3, <1>4, <1>5 DEF a, b, D

(* A parabola is given by its values at 0, 1 and 2 *)
LEMMA Parabola ==
  ASSUME NEW D \in Int, NEW l1 \in Int, NEW l2 \in Int, NEW l3 \in Int,
         2 * l1 = (D - 1) * (D - 2), l2 = D * (2 - D), 2 * l3 = (D - 1) * D,
         NEW x1 \in Int, NEW x2 \in Int, NEW y1 \in Int, NEW y2 \in Int
  PROVE  l1 * (x1 * y1) + l2 * (x2 * y2) + l3 * ((2 * x2 - x1) * (2 * y2 - y1))
           = ((1 - D) * x1 + D * x2) * ((1 - D) * y1 + D * y2)
<1> DEFINE p0 == x1 * y1
           p1 == x2 * y2
           p2 == (2 * x2 - x1) * (2 * y2 - y1)
           p == ((1 - D) * x1 + D * x2) * ((1 - D) * y1 + D * y2)
           t == l1 * p0 + l2 * p1 + l3 * p2
<1>1. ((D - 1) * (D - 2)) * p0 + (2 * (D * (2 - D))) * p1 + ((D - 1) * D) * p2 = 2 * p
  OBVIOUS
<1>2. p0 \in Int /\ p1 \in Int /\ p2 \in Int /\ p \in Int
  OBVIOUS
<1> HIDE DEF p0, p1, p2, p
<1>3. 2 * t = (2 * l1) * p0 + (2 * l2) * p1 + (2 * l3) * p2 /\ t \in Int
  BY <1>2
<1> HIDE DEF t
<1>4. 2 * t = 2 * p
  BY <1>1, <1>3
<1>5. t = p
  BY <1>2, <1>3, <1>4
<1> QED BY <1>5 DEF t, p0, p1, p2, p

(* What verify makes of registers the players agree on *)
Folded(xs, ys, c) ==
  LET z == Fold(xs, ys, c)
      e == ValueOf(c) - DotValue(xs, ys)
  IN  /\ Consistent(z)
      /\ (ValueOf(z) - DotValue(<< OnLine(xs) >>, << OnLine(ys) >>)) % W
           = (Lagrange[1] - Lagrange[2] + Lagrange[2] * e) % W

(* What verify folds *)
LEMMA FoldRight ==
  ASSUME NEW a1 \in AShare, NEW a2 \in AShare, NEW b1 \in AShare, NEW b2 \in AShare,
         NEW c \in AShare, Consistent(a1), Consistent(a2), Consistent(b1), Consistent(b2),
         Consistent(c)
  PROVE  Folded(<< a1, a2 >>, << b1, b2 >>, c)
<1> DEFINE xs == << a1, a2 >>
           ys == << b1, b2 >>
           D == Delta
           l1 == Lagrange[1]
           l2 == Lagrange[2]
           l3 == Lagrange[3]
           h0 == DotOf(<< a1 >>, << b1 >>, TRUE)
           ax == Inter(<< -1, 2 >>, xs)
           ay == Inter(<< -1, 2 >>, ys)
           h2 == DotOf(<< ax >>, << ay >>, FALSE)
           h1 == Inter(<< 1, -1 >>, << c, h0 >>)
           f == Inter(Lagrange, << h0, h1, h2 >>)
           bx == Inter(<< 1 - D, D >>, xs)
           by == Inter(<< 1 - D, D >>, ys)
<1>1. /\ D \in Int /\ l1 \in Int /\ l2 \in Int /\ l3 \in Int /\ 1 - D \in Int
      /\ 2 * l1 = (D - 1) * (D - 2) /\ l2 = D * (2 - D) /\ 2 * l3 = (D - 1) * D
  BY Widths, Coefficients
<1>2. /\ Fold(xs, ys, c) = f /\ OnLine(xs) = bx /\ OnLine(ys) = by
  <2>1. xs[1] = a1 /\ ys[1] = b1
    OBVIOUS
  <2> HIDE DEF xs, ys
  <2> QED BY <2>1 DEF Fold, OnLine
<1>3. -1 \in Int /\ 1 \in Int /\ 2 \in Int
  OBVIOUS
<1> HIDE DEF D
<1>4. /\ h0 \in AShare /\ Consistent(h0)
      /\ Same(W, ValueOf(h0), ValueOf(a1) * ValueOf(b1) + 1)
  BY DotOne
<1>5. /\ ax \in AShare /\ Consistent(ax)
      /\ Same(W, ValueOf(ax), (-1) * ValueOf(a1) + 2 * ValueOf(a2))
  BY <1>3, InterTwo
<1>6. /\ ay \in AShare /\ Consistent(ay)
      /\ Same(W, ValueOf(ay), (-1) * ValueOf(b1) + 2 * ValueOf(b2))
  BY <1>3, InterTwo
<1>7. /\ bx \in AShare /\ Consistent(bx)
      /\ Same(W, ValueOf(bx), (1 - D) * ValueOf(a1) + D * ValueOf(a2))
  BY <1>1, InterTwo
<1>8. /\ by \in AShare /\ Consistent(by)
      /\ Same(W, ValueOf(by), (1 - D) * ValueOf(b1) + D * ValueOf(b2))
  BY <1>1, InterTwo
<1> HIDE DEF h0, ax, ay, bx, by
<1>9. /\ h2 \in AShare /\ Consistent(h2)
      /\ Same(W, ValueOf(h2), ValueOf(ax) * ValueOf(ay) + 0)
  BY <1>5, <1>6, DotOne
<1>10. /\ h1 \in AShare /\ Consistent(h1)
       /\ Same(W, ValueOf(h1), 1 * ValueOf(c) + (-1) * ValueOf(h0))
  BY <1>3, <1>4, InterTwo
<1> HIDE DEF h1, h2
<1>11. /\ f \in AShare /\ Consistent(f)
       /\ Same(W, ValueOf(f), l1 * ValueOf(h0) + l2 * ValueOf(h1) + l3 * ValueOf(h2))
  BY <1>1, <1>4, <1>9, <1>10, InterThree
<1> HIDE DEF f
<1> DEFINE x1 == ValueOf(a1)
           x2 == ValueOf(a2)
           y1 == ValueOf(b1)
           y2 == ValueOf(b2)
           z == ValueOf(c)
           v0 == ValueOf(h0)
           v1 == ValueOf(h1)
           v2 == ValueOf(h2)
           vx == ValueOf(ax)
           vy == ValueOf(ay)
           vf == ValueOf(f)
           wx == ValueOf(bx)
           wy == ValueOf(by)
<1>12. /\ x1 \in Int /\ x2 \in Int /\ y1 \in Int /\ y2 \in Int /\ z \in Int
       /\ v0 \in Int /\ v1 \in Int /\ v2 \in Int /\ vx \in Int /\ vy \in Int
       /\ vf \in Int /\ wx \in Int /\ wy \in Int
  BY <1>4, <1>5, <1>6, <1>7, <1>8, <1>9, <1>10, <1>11, ValueTypes
<1>13. /\ Same(W, v0, x1 * y1 + 1) /\ Same(W, vx, (-1) * x1 + 2 * x2)
       /\ Same(W, vy, (-1) * y1 + 2 * y2) /\ Same(W, v2, vx * vy + 0)
       /\ Same(W, v1, 1 * z + (-1) * v0) /\ Same(W, vf, l1 * v0 + l2 * v1 + l3 * v2)
       /\ Same(W, wx, (1 - D) * x1 + D * x2) /\ Same(W, wy, (1 - D) * y1 + D * y2)
  BY <1>4, <1>5, <1>6, <1>7, <1>8, <1>9, <1>10, <1>11
<1> DEFINE dv == x1 * y1 + x2 * y2
           bv == wx * wy
<1>14. DotValue(xs, ys) = dv % W
  <2> DEFINE g == [k \in DOMAIN xs |-> ValueOf(xs[k]) * ValueOf(ys[k])]
  <2>1. DOMAIN xs = 1 .. 2 /\ g[1] = x1 * y1 /\ g[2] = x2 * y2
    OBVIOUS
  <2>2. g[1] \in Int /\ g[2] \in Int
    <3> HIDE DEF g, x1, x2, y1, y2
    <3> QED BY <1>12, <2>1
  <2>3. DotValue(xs, ys) = SumFunctionOnSet(g, 1 .. 2) % W
    BY <2>1 DEF DotValue, SumOf
  <2> HIDE DEF g
  <2> QED BY <2>1, <2>2, <2>3, SumTwo
<1>15. DotValue(<< bx >>, << by >>) = bv % W
  <2>1. DotSum(<< bx >>, << by >>) = bv
    BY <1>7, <1>8, DotOne
  <2> QED BY <2>1 DEF DotSum, DotValue
<1> HIDE DEF xs, ys, l1, l2, l3, x1, x2, y1, y2, z, v0, v1, v2, vx, vy, vf, wx, wy
<1>16. Same(W, vf - wx * wy, l1 - l2 + l2 * (z - (x1 * y1 + x2 * y2)))
  <2> DEFINE p0 == x1 * y1
             p1 == x2 * y2
             cx == 2 * x2 - x1
             cy == 2 * y2 - y1
             p2 == cx * cy
             dx == (1 - D) * x1 + D * x2
             dy == (1 - D) * y1 + D * y2
             p == dx * dy
             b == wx * wy
             q0 == p0 + 1
             q1 == z - q0
             s0 == l1 * v0
             s1 == l2 * v1
             s2 == l3 * v2
             t0 == l1 * q0
             t1 == l2 * q1
             t2 == l3 * p2
  <2>1. /\ p0 \in Int /\ p1 \in Int /\ cx \in Int /\ cy \in Int /\ p2 \in Int
        /\ dx \in Int /\ dy \in Int /\ p \in Int /\ b \in Int /\ q0 \in Int /\ q1 \in Int
        /\ s0 \in Int /\ s1 \in Int /\ s2 \in Int /\ t0 \in Int /\ t1 \in Int /\ t2 \in Int
    BY <1>1, <1>12
  <2>2. (-1) * x1 + 2 * x2 = cx /\ (-1) * y1 + 2 * y2 = cy /\ vx * vy + 0 = vx * vy
        /\ 1 * z + (-1) * v0 = z - v0 /\ vx * vy \in Int
    BY <1>12
  <2>3. l1 * p0 + l2 * p1 + l3 * p2 = p
    BY <1>1, <1>12, Parabola
  <2>4. /\ Same(W, v0, q0) /\ Same(W, vx, cx) /\ Same(W, vy, cy) /\ Same(W, v2, vx * vy)
        /\ Same(W, v1, z - v0) /\ Same(W, vf, s0 + s1 + s2) /\ Same(W, wx, dx) /\ Same(W, wy, dy)
        /\ Same(W, z, z)
    BY <1>13, <2>2 DEF Same
  <2>5. (t0 + t1 + t2) - p = l1 - l2 + l2 * (z - (p0 + p1))
    <3>1. t0 = l1 * p0 + l1 /\ t1 = l2 * z - l2 * p0 - l2
      BY <1>1, <1>12
    <3>2. l2 * (z - (p0 + p1)) = l2 * z - l2 * p0 - l2 * p1
      BY <1>1, <1>12, <2>1
    <3> DEFINE u0 == l1 * p0
               u1 == l2 * p1
               v == l2 * z
               w == l2 * p0
               r == l2 * (z - (p0 + p1))
    <3>3. u0 \in Int /\ u1 \in Int /\ v \in Int /\ w \in Int
      BY <1>1, <1>12, <2>1
    <3>4. t0 = u0 + l1 /\ t1 = v - w - l2 /\ r = v - w - u1 /\ u0 + u1 + t2 = p
      BY <3>1, <3>2, <2>3
    <3> HIDE DEF u0, u1, v, w, r, t0, t1, t2, p
    <3>5. (t0 + t1 + t2) - p = l1 - l2 + r
      BY <1>1, <2>1, <3>3, <3>4
    <3> QED BY <3>5 DEF r
  <2> HIDE DEF p0, p1, cx, cy, dx, dy
  <2>6. Same(W, vx * vy, p2)
    BY <1>12, <2>1, <2>4, Widths, SameProduct
  <2>7. Same(W, b, p)
    BY <1>12, <2>1, <2>4, Widths, SameProduct
  <2> HIDE DEF p2, p, b, q0
  <2>8. Same(W, v2, p2)
    BY <2>4, <2>6, SameTrans
  <2>9. Same(W, z - v0, z - q0)
    BY <1>12, <2>1, <2>4, Widths, SameMinus
  <2>10. Same(W, v1, q1)
    BY <2>4, <2>9, SameTrans
  <2> HIDE DEF q1
  <2>11. Same(W, s0, t0) /\ Same(W, s1, t1) /\ Same(W, s2, t2)
    BY <1>1, <1>12, <2>1, <2>4, <2>8, <2>10, Widths, SameTimes
  <2> HIDE DEF s0, s1, s2, t0, t1, t2
  <2> DEFINE sa == s0 + s1
             ta == t0 + t1
             sb == sa + s2
             tb == ta + t2
  <2>12. sa \in Int /\ ta \in Int /\ Same(W, sa, ta)
    BY <2>1, <2>11, Widths, SamePlus
  <2> HIDE DEF sa, ta
  <2>13. sb \in Int /\ tb \in Int /\ Same(W, sb, tb)
    BY <2>1, <2>11, <2>12, Widths, SamePlus
  <2>14. Same(W, vf, sb)
    BY <2>4 DEF sa
  <2> HIDE DEF sb, tb
  <2>15. Same(W, vf, tb)
    BY <2>13, <2>14, SameTrans
  <2>16. Same(W, vf - b, tb - p)
    BY <1>12, <2>1, <2>7, <2>13, <2>15, Widths, SameMinus
  <2> QED BY <2>5, <2>16 DEF b, tb, ta, p0, p1
<1>17. dv \in Int /\ bv \in Int
  BY <1>12
<1>18. Same(W, vf - bv, l1 - l2 + l2 * (z - dv))
  BY <1>16
<1> HIDE DEF dv, bv
<1> DEFINE dw == dv % W
           bw == bv % W
           e == z - dw
           g == z - dv
<1>19. /\ dw \in Int /\ bw \in Int /\ Same(W, dv, dw) /\ Same(W, bw, bv)
       /\ Same(W, z, z) /\ Same(W, vf, vf)
  BY <1>17, ModWord DEF Same
<1> HIDE DEF dw, bw
<1>20. g \in Int /\ e \in Int /\ Same(W, g, e)
  BY <1>12, <1>17, <1>19, Widths, SameMinus
<1>21. Same(W, vf - bw, vf - bv)
  BY <1>12, <1>17, <1>19, Widths, SameMinus
<1>22. Same(W, vf - bv, l1 - l2 + l2 * g)
  BY <1>18
<1> HIDE DEF e, g
<1> DEFINE k == l1 - l2
           m == l2 * g
           n == l2 * e
<1>23. k \in Int /\ m \in Int /\ n \in Int /\ Same(W, m, n) /\ Same(W, k, k)
  <2>1. Same(W, m, n)
    BY <1>1, <1>20, Widths, SameTimes
  <2>2. Same(W, k, k)
    BY DEF Same
  <2>3. k \in Int /\ m \in Int /\ n \in Int
    BY <1>1, <1>20
  <2> QED BY <2>1, <2>2, <2>3
<1> HIDE DEF m, n, k
<1>24. Same(W, k + m, k + n)
  BY <1>23, Widths, SamePlus
<1>25. Same(W, vf - bv, k + m)
  BY <1>22 DEF k, m
<1>26. Same(W, vf - bw, k + n)
  BY <1>21, <1>24, <1>25, SameTrans
<1>27. (vf - bw) % W = (l1 - l2 + l2 * e) % W
  BY <1>26 DEF Same, k, n
<1>28. Folded(xs, ys, c)
  BY <1>2, <1>11, <1>14, <1>15, <1>27 DEF Folded, vf, bw, dw, e, z, l1, l2
<1> QED BY <1>28 DEF xs, ys

(* The inductive invariant: the registers are shares, and what the last     *)
(* call left is what it promises                                            *)
RegsOK == regs \in Seq(AShare)
MInv == RegsOK /\ ProductRight /\ TruncNear /\ FoldTells

(* Reading and writing a register *)
LEMMA Registers ==
  ASSUME RegsOK
  PROVE  /\ \A i \in DOMAIN regs : regs[i] \in AShare /\ Len(regs) \in DOMAIN regs
         /\ \A x \in AShare : Write(x) => RegsOK'
BY DEF RegsOK, Write

(* A step that leaves no product, Trunc or verify behind *)
LEMMA Others ==
  ASSUME RegsOK', out'.op \notin {"mult", "dot", "trunc", "verify"}
  PROVE  MInv'
BY DEF MInv, ProductRight, TruncNear, FoldTells

(* mult and dot *)
LEMMA ProductStep ==
  ASSUME RegsOK, NEW xs \in Seq(AShare), NEW ys \in Seq(AShare), Len(ys) = Len(xs),
         NEW o, Write(DotOf(xs, ys, FALSE)), o \in {"mult", "dot"},
         out' = [op |-> o, x |-> xs, y |-> ys, z |-> DotOf(xs, ys, FALSE)]
  PROVE  MInv'
<1> DEFINE z == DotOf(xs, ys, FALSE)
           u == ValueOf(z)
           s == DotSum(xs, ys)
<1>1. z \in AShare
  BY DotTypes
<1>2. RegsOK'
  BY <1>1, Registers
<1>3. out'.op = o /\ out'.x = xs /\ out'.y = ys /\ out'.z = z
  BY DEF z
<1>4. ASSUME AllConsistent(xs), AllConsistent(ys)
      PROVE  Consistent(z) /\ u = DotValue(xs, ys)
  <2>1. Consistent(z) /\ s \in Int /\ Same(W, u, s + 0)
    BY <1>4, DotRight
  <2>2. u \in Word
    BY <1>1, ValueTypes
  <2>3. DotValue(xs, ys) = s % W
    BY DEF DotValue, DotSum
  <2> HIDE DEF u, s, z
  <2>4. s + 0 = s
    BY <2>1
  <2>5. u = s % W
    BY <2>1, <2>2, <2>4, WordIs
  <2> QED BY <2>1, <2>3, <2>5
<1> HIDE DEF z
<1>5. ProductRight'
  BY <1>3, <1>4 DEF ProductRight, u
<1>6. TruncNear' /\ FoldTells'
  BY <1>3 DEF TruncNear, FoldTells
<1> QED BY <1>2, <1>5, <1>6 DEF MInv

(* Trunc *)
LEMMA TruncStep ==
  ASSUME RegsOK, NEW i \in DOMAIN regs, Trunc(i)
  PROVE  MInv'
<1> DEFINE x == regs[i]
           z == Truncated(x)
<1>1. x \in AShare
  BY Registers
<1>2. z \in AShare /\ (Consistent(x) => Consistent(z))
  BY <1>1, TruncTypes
<1>3. Write(z) /\ out' = [op |-> "trunc", x |-> << x >>, z |-> z]
  BY DEF Trunc
<1> HIDE DEF x, z
<1>4. RegsOK'
  BY <1>2, <1>3, Registers
<1>5. out'.op = "trunc" /\ out'.x[1] = x /\ out'.z = z
  BY <1>3
<1>6. ProductRight' /\ FoldTells'
  BY <1>5 DEF ProductRight, FoldTells
<1> DEFINE d == Signed(x.r1[1]) - Signed(x.r)
<1>7. ASSUME Consistent(x)
      PROVE  \E e \in Bit, c \in -1 .. 1 :
               d = Signed(ValueOf(x)) + c * W /\ ValueOf(z) = ((d \div 2 ^ Prec) + e) % W
  BY <1>1, <1>7, TruncRight DEF z
<1>8. TruncNear'
  BY <1>2, <1>5, <1>7 DEF TruncNear
<1> QED BY <1>4, <1>6, <1>8 DEF MInv

(* verify *)
LEMMA VerifyStep ==
  ASSUME RegsOK, NEW i \in DOMAIN regs, NEW j \in DOMAIN regs, NEW k \in DOMAIN regs,
         Verify(<< regs[i], regs[j] >>, << regs[k], regs[i] >>, regs[Len(regs)])
  PROVE  MInv'
<1> DEFINE a1 == regs[i]
           a2 == regs[j]
           b1 == regs[k]
           c == regs[Len(regs)]
           xs == << a1, a2 >>
           ys == << b1, a1 >>
           z == Fold(xs, ys, c)
<1>1. a1 \in AShare /\ a2 \in AShare /\ b1 \in AShare /\ c \in AShare
  BY Registers
<1>2. /\ out' = [op |-> "verify", x |-> << OnLine(xs) >>, y |-> << OnLine(ys) >>, z |-> z,
                 xs |-> xs, ys |-> ys, claim |-> c]
      /\ UNCHANGED regs
  BY DEF Verify
<1>3. AllConsistent(xs) /\ AllConsistent(ys) =>
        Consistent(a1) /\ Consistent(a2) /\ Consistent(b1)
  <2>1. DOMAIN xs = 1 .. 2 /\ xs[1] = a1 /\ xs[2] = a2
        /\ DOMAIN ys = 1 .. 2 /\ ys[1] = b1 /\ ys[2] = a1
    OBVIOUS
  <2> HIDE DEF xs, ys, a1, a2, b1
  <2> QED BY <2>1 DEF AllConsistent
<1>4. /\ out'.op = "verify" /\ out'.x = << OnLine(xs) >> /\ out'.y = << OnLine(ys) >>
      /\ out'.z = z /\ out'.xs = xs /\ out'.ys = ys /\ out'.claim = c
  <2> HIDE DEF xs, ys, z, c
  <2> QED BY <1>2
<1> HIDE DEF a1, a2, b1, c
<1>5. ASSUME AllConsistent(xs), AllConsistent(ys), Consistent(c)
      PROVE  Folded(xs, ys, c)
  <2>1. Consistent(a1) /\ Consistent(a2) /\ Consistent(b1) /\ Consistent(c)
    BY <1>3, <1>5
  <2> QED BY <1>1, <2>1, FoldRight
<1> HIDE DEF xs, ys, z
<1>6. FoldTells'
  BY <1>4, <1>5 DEF FoldTells, Folded, z
<1>7. RegsOK'
  BY <1>2 DEF RegsOK
<1>8. ProductRight' /\ TruncNear'
  BY <1>4 DEF ProductRight, TruncNear
<1> QED BY <1>6, <1>7, <1>8 DEF MInv

(* Every call keeps MInv: the registers are shares, and what the last call  *)
(* gave is right if its operands were.                                      *)
THEOREM MaskedInductive == Spec => []MInv
<1>1. Init => MInv
  BY DEF Init, None, MInv, RegsOK, ProductRight, TruncNear, FoldTells
<1>2. MInv /\ [Next]_vars => MInv'
  <2> SUFFICES ASSUME MInv, [Next]_vars
               PROVE  MInv'
    OBVIOUS
  <2>1. RegsOK /\ \A i \in DOMAIN regs : regs[i] \in AShare
    BY Registers DEF MInv
  <2>2. CASE UNCHANGED vars
    BY <2>2 DEF vars, MInv, RegsOK, ProductRight, TruncNear, FoldTells
  <2>3. CASE Declare
    <3>1. RegsOK' /\ out'.op = "none"
      BY <2>1, <2>3, MaskedAssumption, Registers DEF Declare, None
    <3> QED BY <3>1, Others
  <2>4. CASE Linear
    <3>1. PICK i \in DOMAIN regs, j \in DOMAIN regs, d \in { << 1, 1 >>, << -1, 1 >>, << 3, 0 >> } :
            Write(Inter(d, << regs[i], regs[j] >>))
      BY <2>4 DEF Linear
    <3> DEFINE a == regs[i]
               b == regs[j]
    <3>2. a \in AShare /\ b \in AShare
      BY <2>1
    <3>3. \E c1 \in Int, c2 \in Int : d = << c1, c2 >>
      OBVIOUS
    <3>4. PICK c1 \in Int, c2 \in Int : d = << c1, c2 >>
      BY <3>3
    <3>5. Write(Inter(<< c1, c2 >>, << a, b >>))
      BY <3>1, <3>4
    <3> HIDE DEF a, b
    <3>6. Inter(<< c1, c2 >>, << a, b >>) \in AShare
      BY <3>2, InterTwo
    <3>7. RegsOK' /\ out'.op = "none"
      BY <2>1, <2>4, <3>5, <3>6, Registers DEF Linear, None
    <3> QED BY <3>7, Others
  <2>5. ASSUME NEW i \in DOMAIN regs, RevealA(i) \/ Sign(i) \/ \E v \in Values : ShareA(i, v)
        PROVE  MInv'
    <3>1. RegsOK'
      BY <2>1, <2>5 DEF RevealA, Sign, ShareA, RegsOK
    <3>2. out'.op \in {"reveal", "sign", "share"}
      BY <2>5 DEF RevealA, Sign, ShareA
    <3> QED BY <3>1, <3>2, Others
  <2>6. ASSUME NEW i \in DOMAIN regs, NEW j \in DOMAIN regs, Mult(i, j)
        PROVE  MInv'
    <3> DEFINE xs == << regs[i] >>
               ys == << regs[j] >>
    <3>1. xs \in Seq(AShare) /\ ys \in Seq(AShare) /\ Len(ys) = Len(xs)
      BY <2>1
    <3>2. /\ Write(DotOf(xs, ys, FALSE))
          /\ out' = [op |-> "mult", x |-> xs, y |-> ys, z |-> DotOf(xs, ys, FALSE)]
      BY <2>6 DEF Mult
    <3> HIDE DEF xs, ys
    <3> QED BY <2>1, <3>1, <3>2, ProductStep
  <2>7. ASSUME NEW i \in DOMAIN regs, NEW j \in DOMAIN regs, NEW k \in DOMAIN regs,
               Dot(<< regs[i], regs[j] >>, << regs[k], regs[i] >>)
        PROVE  MInv'
    <3> DEFINE xs == << regs[i], regs[j] >>
               ys == << regs[k], regs[i] >>
    <3>1. xs \in Seq(AShare) /\ ys \in Seq(AShare) /\ Len(ys) = Len(xs)
      BY <2>1
    <3>2. /\ Write(DotOf(xs, ys, FALSE))
          /\ out' = [op |-> "dot", x |-> xs, y |-> ys, z |-> DotOf(xs, ys, FALSE)]
      BY <2>7 DEF Dot
    <3> HIDE DEF xs, ys
    <3> QED BY <2>1, <3>1, <3>2, ProductStep
  <2> QED BY <2>1, <2>2, <2>3, <2>4, <2>5, <2>6, <2>7, TruncStep, VerifyStep DEF Next
<1> QED BY <1>1, <1>2, PTL DEF Spec

(* Products of registers the players agree on are such registers again, of  *)
(* the product of the values: for every width, number of operands and all   *)
(* masks.                                                                   *)
THEOREM Products == Spec => []ProductRight
<1>1. MInv => ProductRight
  BY DEF MInv
<1> QED BY <1>1, MaskedInductive, PTL

(* Trunc is off by one at most.                                             *)
THEOREM Truncation == Spec => []TruncNear
<1>1. MInv => TruncNear
  BY DEF MInv
<1> QED BY <1>1, MaskedInductive, PTL

(* A claim that is off by e folds to one that is off by the middle          *)
(* coefficient times e, plus what ismalicious puts in.                      *)
THEOREM Folding == Spec => []FoldTells
<1>1. MInv => FoldTells
  BY DEF MInv
<1> QED BY <1>1, MaskedInductive, PTL

-------------------------------------------------------------------------------
(* Sign: the first place where two numbers differ *)

(* The j highest bits of a word, as a number *)
Prefix(x, j) == x \div 2 ^ (L - j)

(* A prefix is twice the one before it plus a bit *)
LEMMA PrefixTypes ==
  ASSUME NEW x \in Word
  PROVE  /\ Prefix(x, 0) = 0 /\ Prefix(x, L) = x
         /\ \A j \in 0 .. L : Prefix(x, j) \in Int /\ 2 ^ (L - j) \in Nat \ {0}
         /\ \A j \in 1 .. L : Prefix(x, j) = 2 * Prefix(x, j - 1) + (Prefix(x, j) % 2)
<1>1. x \in Int /\ W \in Nat \ {0} /\ L \in Nat /\ x \in 0 .. (W - 1)
  BY Widths, MaskedAssumption DEF Word
<1>2. Prefix(x, 0) = 0
  <2>1. x = W * 0 + x
    BY <1>1
  <2>2. x \div W = 0
    BY <1>1, <2>1, Quotient
  <2>3. L - 0 = L
    BY <1>1
  <2> QED BY <2>2, <2>3 DEF Prefix, W
<1>3. Prefix(x, L) = x
  <2>1. L - L = 0 /\ 2 ^ 0 = 1 /\ x \div 1 = x
    BY <1>1
  <2> QED BY <2>1 DEF Prefix
<1>4. ASSUME NEW j \in 0 .. L
      PROVE  Prefix(x, j) \in Int /\ 2 ^ (L - j) \in Nat \ {0}
  <2> DEFINE n == L - j
             Q == 2 ^ n
  <2>1. n \in Nat
    BY <1>1
  <2> HIDE DEF n
  <2>2. Q \in Nat \ {0}
    BY <2>1, PowerTwo
  <2> HIDE DEF Q
  <2>3. x \div Q \in Int
    BY <1>1, <2>2
  <2> QED BY <2>2, <2>3 DEF Prefix, Q, n
<1>5. ASSUME NEW j \in 1 .. L
      PROVE  Prefix(x, j) = 2 * Prefix(x, j - 1) + (Prefix(x, j) % 2)
  <2> DEFINE n == L - j
             Q == 2 ^ n
             p == x \div Q
             h == x \div (2 * Q)
  <2>1. n \in Nat /\ L - (j - 1) = n + 1
    BY <1>1
  <2>2. Prefix(x, j - 1) = x \div (2 ^ (n + 1))
    BY <2>1 DEF Prefix
  <2> HIDE DEF n
  <2>3. Q \in Nat \ {0} /\ 2 ^ (n + 1) = 2 * Q
    BY <2>1, PowerTwo
  <2> HIDE DEF Q
  <2>4. p \in Int /\ p \div 2 = h
    <3>1. p \in Int
      BY <1>1, <2>3
    <3>2. p \div 2 = h
      BY <1>1, <2>3, QuotientTwice
    <3> QED BY <3>1, <3>2
  <2> HIDE DEF p, h
  <2>5. p = 2 * h + (p % 2)
    BY <2>4
  <2> QED BY <2>2, <2>3, <2>5 DEF Prefix, p, h, Q, n
<1> QED BY <1>2, <1>3, <1>4, <1>5

(* Words with the same highest bits *)
LEMMA SamePrefix ==
  ASSUME NEW x \in Word, NEW y \in Word
  PROVE  \A j \in 0 .. L :
           (\A k \in 1 .. j : Prefix(x, k) % 2 = Prefix(y, k) % 2) => Prefix(x, j) = Prefix(y, j)
<1> DEFINE same(j) == \A k \in 1 .. j : Prefix(x, k) % 2 = Prefix(y, k) % 2
           T == { j \in Nat : j <= L /\ same(j) => Prefix(x, j) = Prefix(y, j) }
<1>1. L \in Nat
  BY MaskedAssumption
<1>2. 0 \in T
  BY PrefixTypes
<1>3. ASSUME NEW n \in Nat, n \in T
      PROVE  n + 1 \in T
  <2> SUFFICES ASSUME n + 1 <= L, same(n + 1)
               PROVE  Prefix(x, n + 1) = Prefix(y, n + 1)
    OBVIOUS
  <2> DEFINE m == n + 1
             a == Prefix(x, m)
             b == Prefix(y, m)
  <2>1. m \in 1 .. L /\ m - 1 = n /\ n <= L
    BY <1>1
  <2>2. same(n) /\ a % 2 = b % 2
    OBVIOUS
  <2>3. Prefix(x, n) = Prefix(y, n)
    BY <1>3, <2>1, <2>2
  <2> HIDE DEF m
  <2>4. a = 2 * Prefix(x, n) + (a % 2) /\ b = 2 * Prefix(y, n) + (b % 2)
    BY <2>1, PrefixTypes
  <2> HIDE DEF a, b
  <2>5. a = b
    BY <2>2, <2>3, <2>4
  <2> QED BY <2>5 DEF a, b, m
<1> HIDE DEF T
<1>4. \A n \in Nat : n \in T
  BY <1>2, <1>3, CountUp
<1> QED BY <1>1, <1>4 DEF T

(* The number with the bit at the first place where they differ is greater  *)
LEMMA Greater ==
  ASSUME NEW x \in Word, NEW y \in Word, NEW j \in 1 .. L,
         \A k \in 1 .. (j - 1) : Prefix(x, k) % 2 = Prefix(y, k) % 2,
         Prefix(x, j) % 2 = 1, Prefix(y, j) % 2 = 0
  PROVE  x > y
<1> DEFINE a == Prefix(x, j)
           b == Prefix(y, j)
           c == Prefix(x, j - 1)
           d == Prefix(y, j - 1)
           Q == 2 ^ (L - j)
<1>1. L \in Nat /\ j - 1 \in 0 .. L /\ j \in 0 .. L /\ x \in Int /\ y \in Int
  BY MaskedAssumption, Widths
<1>2. c = d /\ c \in Int /\ d \in Int
  BY <1>1, SamePrefix, PrefixTypes
<1>3. a = 2 * c + (a % 2) /\ b = 2 * d + (b % 2) /\ a \in Int /\ b \in Int /\ Q \in Nat \ {0}
  BY <1>1, PrefixTypes
<1>4. a % 2 = 1 /\ b % 2 = 0
  OBVIOUS
<1>5. a = x \div Q /\ b = y \div Q
  BY DEF Prefix
<1> HIDE DEF a, b, c, d, Q
<1>6. a > b
  BY <1>2, <1>3, <1>4
<1>7. x <= y => a <= b
  BY <1>1, <1>3, <1>5, QuotientOrder
<1> QED BY <1>1, <1>3, <1>6, <1>7

(* At the first place where the bits of q and r differ, those of q are the  *)
(* greater; with a 0 added to q and a 1 to r there is one.                  *)
LEMMA FirstDifference ==
  ASSUME NEW q \in Word, NEW r \in Word
  PROVE  LET s == Chop(q, 0)
             b == Chop(r, 1)
         IN  /\ \A j \in Place : s[j] \in Bit /\ b[j] \in Bit
             /\ \E j \in Place : /\ s[j] # b[j] /\ \A k \in 1 .. (j - 1) : s[k] = b[k]
                                 /\ s[j] = 1 <=> q > r
<1> DEFINE s == Chop(q, 0)
           b == Chop(r, 1)
<1>1. L \in Nat /\ q \in Int /\ r \in Int /\ Place = 1 .. (L + 1)
  BY MaskedAssumption, Widths DEF Place
<1>2. \A j \in 1 .. L : /\ j \in Place /\ s[j] = Prefix(q, j) % 2 /\ b[j] = Prefix(r, j) % 2
  BY <1>1 DEF Chop, Prefix
<1>3. L + 1 \in Place /\ s[L + 1] = 0 /\ b[L + 1] = 1
  <2> DEFINE m == L + 1
  <2>1. m \in Place /\ ~(m <= L)
    BY <1>1
  <2> HIDE DEF m
  <2>2. s[m] = 0 /\ b[m] = 1
    BY <2>1 DEF Chop
  <2> QED BY <2>1, <2>2 DEF m
<1> HIDE DEF s, b
<1>4. \A j \in Place : j \in 1 .. L \/ j = L + 1
  BY <1>1
<1>5. \A j \in Place : s[j] \in Bit /\ b[j] \in Bit
  <2>1. \A j \in 1 .. L : Prefix(q, j) \in Int /\ Prefix(r, j) \in Int
    <3>1. \A j \in 1 .. L : j \in 0 .. L
      BY <1>1
    <3> QED BY <3>1, PrefixTypes
  <2>2. \A j \in 1 .. L : s[j] \in Bit /\ b[j] \in Bit
    BY <1>2, <2>1 DEF Bit
  <2> QED BY <1>3, <1>4, <2>2 DEF Bit
<1> DEFINE T == { j \in Place : s[j] # b[j] }
<1>6. \E j \in T : \A k \in T : j <= k
  <2>1. T # {} /\ T \subseteq Nat
    BY <1>1, <1>3
  <2> HIDE DEF T
  <2> QED BY <2>1, Smallest
<1>7. PICK j \in Place : s[j] # b[j] /\ \A k \in Place : s[k] # b[k] => j <= k
  BY <1>6
<1>8. \A k \in 1 .. (j - 1) : s[k] = b[k]
  BY <1>1, <1>7
<1>9. CASE j = L + 1
  <2>1. \A k \in 1 .. L : Prefix(q, k) % 2 = Prefix(r, k) % 2
    BY <1>1, <1>2, <1>8, <1>9
  <2>2. Prefix(q, L) = Prefix(r, L)
    BY <1>1, <2>1, SamePrefix
  <2>3. q = r
    BY <2>2, PrefixTypes
  <2>4. ~(q > r) /\ s[j] # 1
    BY <1>1, <1>3, <1>9, <2>3
  <2> QED BY <1>5, <1>7, <1>8, <2>4 DEF s, b
<1>10. CASE j \in 1 .. L
  <2>1. \A k \in 1 .. (j - 1) : k \in 1 .. L
    BY <1>1, <1>10
  <2>2. \A k \in 1 .. (j - 1) : Prefix(q, k) % 2 = Prefix(r, k) % 2
    BY <1>2, <1>8, <2>1
  <2>3. s[j] = Prefix(q, j) % 2 /\ b[j] = Prefix(r, j) % 2
    BY <1>2, <1>10
  <2>4. CASE s[j] = 1
    <3>1. b[j] = 0
      BY <1>5, <1>7, <2>4 DEF Bit
    <3>2. q > r
      BY <1>10, <2>2, <2>3, <2>4, <3>1, Greater
    <3> QED BY <1>5, <1>7, <1>8, <2>4, <3>2 DEF s, b
  <2>5. CASE s[j] # 1
    <3>1. s[j] = 0 /\ b[j] = 1
      BY <1>5, <1>7, <2>5 DEF Bit
    <3>2. r > q
      BY <1>10, <2>2, <2>3, <3>1, Greater
    <3>3. ~(q > r)
      BY <1>1, <3>2
    <3> QED BY <1>5, <1>7, <1>8, <2>5, <3>3 DEF s, b
  <2> QED BY <2>4, <2>5
<1> QED BY <1>4, <1>9, <1>10

(* The number of ones among the first n *)
LEMMA Ones ==
  ASSUME NEW m \in Nat, NEW f, \A k \in 1 .. m : f[k] \in 0 .. 1
  PROVE  \A n \in 0 .. m :
           /\ SumFunctionOnSet(f, 1 .. n) \in 0 .. n
           /\ SumFunctionOnSet(f, 1 .. n) = 0 <=> \A k \in 1 .. n : f[k] = 0
<1> DEFINE S(n) == SumFunctionOnSet(f, 1 .. n)
           T == { n \in Nat : n <= m => S(n) \in 0 .. n /\ (S(n) = 0 <=> \A k \in 1 .. n : f[k] = 0) }
<1>1. 0 \in T
  <2>1. 1 .. 0 = {}
    OBVIOUS
  <2>2. S(0) = 0
    BY <2>1, SumEmpty
  <2> HIDE DEF S
  <2> QED BY <2>1, <2>2
<1>2. ASSUME NEW n \in Nat, n \in T
      PROVE  n + 1 \in T
  <2> SUFFICES ASSUME n + 1 <= m
               PROVE  /\ S(n + 1) \in 0 .. (n + 1)
                      /\ S(n + 1) = 0 <=> \A k \in 1 .. (n + 1) : f[k] = 0
    OBVIOUS
  <2> DEFINE e == f[n + 1]
  <2>1. \A k \in 1 .. (n + 1) : f[k] \in Int
    OBVIOUS
  <2>2. S(n + 1) = S(n) + f[n + 1]
    BY <2>1, SumFirst
  <2>3. e \in 0 .. 1 /\ S(n) \in 0 .. n /\ (S(n) = 0 <=> \A k \in 1 .. n : f[k] = 0)
    BY <1>2
  <2>4. (\A k \in 1 .. (n + 1) : f[k] = 0) <=> e = 0 /\ \A k \in 1 .. n : f[k] = 0
    <3>1. \A k \in 1 .. (n + 1) : k \in 1 .. n \/ k = n + 1
      OBVIOUS
    <3>2. n + 1 \in 1 .. (n + 1) /\ \A k \in 1 .. n : k \in 1 .. (n + 1)
      OBVIOUS
    <3> QED BY <3>1, <3>2
  <2> HIDE DEF S, e
  <2>5. S(n + 1) = S(n) + e
    BY <2>2 DEF e
  <2>6. S(n + 1) \in 0 .. (n + 1) /\ (S(n + 1) = 0 <=> S(n) = 0 /\ e = 0)
    BY <2>3, <2>5
  <2> QED BY <2>3, <2>4, <2>6
<1> HIDE DEF T
<1>3. \A n \in Nat : n \in T
  BY <1>1, <1>2, CountUp
<1> QED BY <1>3 DEF T

(* What Sign is reckoned in *)
LEMMA Moduli == P \in Nat \ {0} /\ P \in Int /\ P > L + 2 /\ L \in Nat /\ Rand \in Int
BY MaskedAssumption, Widths

(* A multiple of P does not matter *)
LEMMA Shifted ==
  ASSUME NEW a \in Int, NEW n \in Int
  PROVE  Same(P, a + P * n, a) /\ a + P * n \in Int
<1> DEFINE b == a + P * n
<1>1. b \in Int
  BY Moduli
<1>2. \E q \in Int : b = a + P * q
  OBVIOUS
<1> HIDE DEF b
<1>3. Same(P, b, a)
  BY <1>1, <1>2, Moduli, SameShift
<1> QED BY <1>1, <1>3 DEF b

(* The two shares of the exclusive or add up to it *)
LEMMA Xors ==
  ASSUME NEW b, NEW s, NEW j \in Place, b[j] \in Bit, s[j] \in Bit
  PROVE  LET c == ShareC(b)
             d1 == Differs(1, c[1], s, j)
             d2 == Differs(2, c[2], s, j)
         IN  d1 \in Int /\ d2 \in Int /\ Same(P, d1 + d2, IF s[j] = b[j] THEN 0 ELSE 1)
<1> DEFINE c == ShareC(b)
           x == b[j]
           y == s[j]
           a0 == x - Rand
           a1 == a0 % P
           a2 == Rand % P
           e1 == a1 + P - 2 * y * a1 + y
           e2 == a2 + P - 2 * y * a2 + 0
           d1 == e1 % P
           d2 == e2 % P
           z == IF y = x THEN 0 ELSE 1
           k == a1 + a2
<1>1. c[1][j] = a1 /\ c[2][j] = a2
  BY DEF ShareC
<1>2. Differs(1, c[1], s, j) = d1 /\ Differs(2, c[2], s, j) = d2
  <2> HIDE DEF a1, a2, c
  <2> QED BY <1>1 DEF Differs
<1>3. x \in 0 .. 1 /\ y \in 0 .. 1 /\ a0 \in Int
  BY Moduli DEF Bit
<1> HIDE DEF x, y
<1>4. a0 + Rand = x
  BY <1>3, Moduli
<1> HIDE DEF a0
<1>5. a1 \in Int /\ Same(P, a1, a0) /\ a2 \in Int /\ Same(P, a2, Rand)
  BY <1>3, Moduli, SameMod
<1> HIDE DEF a1, a2
<1>6. Same(P, k, x) /\ k \in Int
  <2>1. Same(P, a1 + a2, a0 + Rand)
    BY <1>3, <1>5, Moduli, SamePlus
  <2> QED BY <1>4, <1>5, <2>1
<1>7. e1 \in Int /\ e2 \in Int
  BY <1>3, <1>5, Moduli
<1>8. e1 + e2 = (IF y = 0 THEN k ELSE 1 - k) + P * 2
  <2>1. CASE y = 0
    <3>1. e1 = a1 + P - 2 * 0 * a1 + 0 /\ e2 = a2 + P - 2 * 0 * a2 + 0
      BY <2>1
    <3>2. e1 + e2 = k + P * 2
      <4> HIDE DEF e1, e2
      <4> QED BY <1>5, <3>1, Moduli
    <3> QED BY <2>1, <3>2
  <2>2. CASE y = 1
    <3>1. e1 = a1 + P - 2 * 1 * a1 + 1 /\ e2 = a2 + P - 2 * 1 * a2 + 0
      BY <2>2
    <3>2. e1 + e2 = (1 - k) + P * 2
      <4> HIDE DEF e1, e2
      <4> QED BY <1>5, <3>1, Moduli
    <3> QED BY <2>2, <3>2
  <2> QED BY <1>3, <2>1, <2>2
<1> HIDE DEF k, e1, e2
<1>9. d1 \in Int /\ Same(P, d1, e1) /\ d2 \in Int /\ Same(P, d2, e2)
  BY <1>7, Moduli, SameMod
<1> HIDE DEF d1, d2
<1>10. Same(P, d1 + d2, e1 + e2)
  BY <1>7, <1>9, Moduli, SamePlus
<1> DEFINE u == IF y = 0 THEN k ELSE 1 - k
<1>11. Same(P, u, z)
  <2>1. CASE y = 0
    <3>1. u = k /\ z = x
      BY <1>3, <2>1
    <3> QED BY <1>6, <3>1
  <2>2. CASE y # 0
    <3>1. u = 1 - k /\ z = 1 - x /\ 1 \in Int /\ x \in Int
      BY <1>3, <2>2
    <3>2. Same(P, 1, 1)
      BY DEF Same
    <3>3. Same(P, 1 - k, 1 - x)
      BY <1>6, <3>1, <3>2, Moduli, SameMinus
    <3> QED BY <3>1, <3>3
  <2> QED BY <2>1, <2>2
<1>12. u \in Int
  BY <1>6
<1> HIDE DEF u, z
<1>13. Same(P, u + P * 2, u)
  BY <1>12, Shifted
<1>14. Same(P, d1 + d2, z)
  BY <1>8, <1>10, <1>11, <1>13, SameTrans DEF u
<1> QED BY <1>2, <1>9, <1>14 DEF z, x, y

(* What the players' parts of First add up to, modulo P: 0 at the first     *)
(* place where the bits differ and nowhere else                             *)
LEMMA Firsts ==
  ASSUME NEW b, NEW s, \A k \in Place : b[k] \in Bit /\ s[k] \in Bit, NEW j \in Place
  PROVE  LET c == ShareC(b)
             f1 == First(1, c[1], s, j)
             f2 == First(2, c[2], s, j)
         IN  /\ f1 \in Int /\ f2 \in Int
             /\ \E g \in 0 .. (P - 1) :
                  /\ Same(P, f1 + f2, g)
                  /\ g = 0 <=> s[j] # b[j] /\ \A k \in 1 .. (j - 1) : s[k] = b[k]
<1> DEFINE c == ShareC(b)
           S == 1 .. j
           d1 == [k \in S |-> Differs(1, c[1], s, k)]
           d2 == [k \in S |-> Differs(2, c[2], s, k)]
           d == [k \in S |-> d1[k] + d2[k]]
           x == [k \in S |-> IF s[k] = b[k] THEN 0 ELSE 1]
           A1 == SumFunctionOnSet(d1, S)
           A2 == SumFunctionOnSet(d2, S)
           A == SumFunctionOnSet(d, S)
           X == SumFunctionOnSet(x, S)
           Y == SumFunctionOnSet(x, 1 .. (j - 1))
           e1 == A1 - 2 * d1[j]
           e2 == A2 - 2 * d2[j]
           g1 == e1 % P
           g2 == e2 % P
<1>1. j \in Nat \ {0} /\ j - 1 \in Nat /\ j <= L + 1 /\ j \in Int /\ 1 \in Int /\ j \in S
      /\ \A k \in S : k \in Place
  BY Moduli DEF Place
<1>2. IsFiniteSet(S)
  BY <1>1, FS_Interval
<1>3. /\ First(1, c[1], s, j) = g1 + 1 /\ First(2, c[2], s, j) = g2 + 0
  <2> HIDE DEF c, S
  <2>1. d1[j] = Differs(1, c[1], s, j) /\ d2[j] = Differs(2, c[2], s, j)
    BY <1>1
  <2>2. A1 = SumOf(1 .. j, LAMBDA k : Differs(1, c[1], s, k))
        /\ A2 = SumOf(1 .. j, LAMBDA k : Differs(2, c[2], s, k))
    BY DEF SumOf, S
  <2> HIDE DEF d1, d2, A1, A2
  <2> QED BY <2>1, <2>2 DEF First
<1>4. \A k \in S : /\ d1[k] \in Int /\ d2[k] \in Int /\ d[k] = d1[k] + d2[k]
                   /\ Same(P, d1[k] + d2[k], x[k])
  <2> SUFFICES ASSUME NEW k \in S
               PROVE  /\ d1[k] \in Int /\ d2[k] \in Int /\ d[k] = d1[k] + d2[k]
                      /\ Same(P, d1[k] + d2[k], x[k])
    OBVIOUS
  <2>1. k \in Place /\ b[k] \in Bit /\ s[k] \in Bit
    BY <1>1
  <2> HIDE DEF S
  <2>2. /\ Differs(1, c[1], s, k) \in Int /\ Differs(2, c[2], s, k) \in Int
        /\ Same(P, Differs(1, c[1], s, k) + Differs(2, c[2], s, k), IF s[k] = b[k] THEN 0 ELSE 1)
    BY <2>1, Xors
  <2> QED BY <2>2
<1>5. \A k \in S : x[k] \in 0 .. 1 /\ x[k] \in Int /\ (x[k] = 0 <=> s[k] = b[k])
  OBVIOUS
<1>6. Y \in 0 .. (j - 1) /\ (Y = 0 <=> \A k \in 1 .. (j - 1) : s[k] = b[k])
  <2>1. \A k \in 1 .. (j - 1) : k \in S /\ x[k] \in 0 .. 1
    BY <1>1, <1>5
  <2> DEFINE n == j - 1
  <2>2. n \in Nat /\ n \in 0 .. n
    BY <1>1
  <2>3. \A k \in 1 .. n : k \in S /\ x[k] \in 0 .. 1
    BY <2>1
  <2> HIDE DEF n, x, S
  <2>4. /\ SumFunctionOnSet(x, 1 .. n) \in 0 .. n
        /\ SumFunctionOnSet(x, 1 .. n) = 0 <=> \A k \in 1 .. n : x[k] = 0
    BY <2>2, <2>3, Ones
  <2> QED BY <1>5, <2>3, <2>4 DEF n
<1>7. X = Y + x[j]
  <2> DEFINE n == j - 1
  <2>1. n \in Nat /\ n + 1 = j /\ S = 1 .. (n + 1)
    BY <1>1
  <2> HIDE DEF n, S
  <2>2. \A k \in 1 .. (n + 1) : x[k] \in Int
    BY <1>5, <2>1
  <2> HIDE DEF x
  <2>3. SumFunctionOnSet(x, 1 .. (n + 1)) = SumFunctionOnSet(x, 1 .. n) + x[n + 1]
    BY <2>1, <2>2, SumFirst
  <2> QED BY <2>1, <2>3 DEF n
<1> DEFINE h == d1[j] + d2[j]
           y == x[j]
<1>8. h \in Int /\ Same(P, h, y) /\ y \in 0 .. 1 /\ y \in Int /\ (y = 0 <=> s[j] = b[j])
      /\ d1[j] \in Int /\ d2[j] \in Int
  BY <1>1, <1>4, <1>5
<1> HIDE DEF S, d1, d2, d, x
<1>9. A = A1 + A2 /\ A1 \in Int /\ A2 \in Int
  BY <1>2, <1>4, SumPlus, SumInt
<1>10. Same(P, A, X) /\ A \in Int /\ X \in Int
  <2>1. \A k \in S : d[k] \in Int /\ x[k] \in Int /\ Same(P, d[k], x[k])
    BY <1>4, <1>5
  <2> QED BY <1>2, <2>1, Moduli, SumModulo, SumInt
<1> HIDE DEF A, A1, A2, X, Y
<1>11. e1 \in Int /\ e2 \in Int /\ e1 + e2 = A - 2 * h
  BY <1>8, <1>9
<1> HIDE DEF e1, e2, h, y
<1>12. g1 \in Int /\ g2 \in Int /\ Same(P, g1, e1) /\ Same(P, g2, e2)
  BY <1>11, Moduli, SameMod
<1> HIDE DEF g1, g2
<1>13. Same(P, g1 + g2, e1 + e2)
  BY <1>11, <1>12, Moduli, SamePlus
<1> DEFINE hh == 2 * h
           yy == 2 * y
           t == A - hh
           u == X - yy
<1>14. hh \in Int /\ yy \in Int /\ Same(P, hh, yy) /\ t \in Int /\ u \in Int
  <2>1. Same(P, hh, yy)
    <3>1. 2 \in Int
      OBVIOUS
    <3> QED BY <1>8, <3>1, Moduli, SameTimes
  <2> QED BY <1>8, <1>10, <2>1
<1> HIDE DEF hh, yy
<1>15. Same(P, t, u)
  BY <1>10, <1>14, Moduli, SameMinus
<1>16. Same(P, g1 + g2, u)
  BY <1>11, <1>13, <1>15, SameTrans DEF hh
<1> DEFINE k == g1 + g2
           g == Y - y + 1
<1>17. k \in Int /\ Same(P, k, u) /\ 1 \in Int /\ Same(P, 1, 1)
  BY <1>12, <1>16 DEF Same
<1> HIDE DEF k, t, u
<1>18. Same(P, k + 1, u + 1)
  BY <1>14, <1>17, Moduli, SamePlus
<1>19. u + 1 = g
  BY <1>6, <1>7, <1>8 DEF u, yy, y
<1>20. (g1 + 1) + (g2 + 0) = k + 1
  BY <1>12 DEF k
<1>21. g \in 0 .. (P - 1) /\ (g = 0 <=> Y = 0 /\ y # 0)
  BY <1>1, <1>6, <1>8, Moduli
<1>22. Same(P, (g1 + 1) + (g2 + 0), g)
  BY <1>18, <1>19, <1>20
<1>23. g = 0 <=> s[j] # b[j] /\ \A i \in 1 .. (j - 1) : s[i] = b[i]
  BY <1>6, <1>8, <1>21
<1>24. g1 + 1 \in Int /\ g2 + 0 \in Int
  BY <1>12
<1> HIDE DEF g
<1> QED BY <1>3, <1>21, <1>22, <1>23, <1>24

(* What player 0 makes of one place: 0 and a number that is not, where the  *)
(* bits differ first, and only if they differ the way delta asks for        *)
LEMMA OnePlace ==
  ASSUME NEW f1 \in Int, NEW f2 \in Int, NEW g \in 0 .. (P - 1), Same(P, f1 + f2, g),
         NEW y \in 1 .. (P - 1), NEW z \in 1 .. (P - 1), NEW e \in 0 .. 1,
         NEW u0, u0 = (f1 * y + f2 * y + e) % P,
         NEW v0, v0 = ((f1 * y + 1) * z + f2 * y * z) % P
  PROVE  u0 = 0 /\ v0 # 0 <=> g = 0 /\ e = 0
<1> DEFINE f == f1 + f2
           a == f1 * y + f2 * y + e
           b == (f1 * y + 1) * z + f2 * y * z
           gy == g * y
           fy == f * y
           u == gy + e
           v1 == gy + 1
           v == v1 * z
<1>1. y \in Int /\ z \in Int /\ g \in Int /\ e \in Int /\ f \in Int /\ Same(P, f, g)
      /\ P \in Nat \ {0} /\ P \in Int /\ P > 1
  BY Moduli
<1>2. a = fy + e /\ b = (fy + 1) * z
  BY <1>1
<1>3. y * f = fy /\ y * g = gy /\ fy \in Int /\ gy \in Int
  BY <1>1
<1> HIDE DEF f
<1>4. Same(P, y * f, y * g)
  BY <1>1, Moduli, SameTimes
<1>5. Same(P, fy, gy) /\ Same(P, e, e) /\ Same(P, 1, 1) /\ 1 \in Int /\ Same(P, z, z)
  BY <1>3, <1>4 DEF Same
<1> HIDE DEF fy, gy, a, b
<1>6. Same(P, fy + e, u) /\ Same(P, fy + 1, v1)
  BY <1>1, <1>3, <1>5, Moduli, SamePlus
<1>7. u \in Int /\ v1 \in Int /\ fy + 1 \in Int
  BY <1>1, <1>3
<1> DEFINE r == fy + 1
<1>8. r \in Int /\ Same(P, r, v1) /\ b = r * z
  BY <1>2, <1>6, <1>7
<1> HIDE DEF r, v1, u
<1>9. Same(P, r * z, v1 * z)
  BY <1>1, <1>5, <1>7, <1>8, Moduli, SameProduct
<1>10. a % P = u % P /\ b % P = v % P
  BY <1>2, <1>6, <1>8, <1>9 DEF Same
<1>11. CASE g = 0
  <2>1. gy = 0
    BY <1>1, <1>11 DEF gy
  <2>2. u = P * 0 + e /\ v = P * 0 + z /\ e \in 0 .. (P - 1) /\ z \in 0 .. (P - 1) /\ 0 \in Int
    BY <1>1, <2>1 DEF u, v1
  <2>3. v \in Int
    BY <1>1, <1>7
  <2> HIDE DEF v
  <2>4. u % P = e /\ v % P = z
    BY <1>1, <1>7, <2>2, <2>3, Remainder
  <2>5. z # 0
    BY <1>1
  <2> QED BY <1>10, <1>11, <2>4, <2>5 DEF a, b
<1>12. CASE g # 0
  <2>1. g \in 1 .. (P - 1)
    BY <1>1, <1>12
  <2>2. gy % P # 0
    BY <2>1, PrimeAssumption DEF gy
  <2>3. CASE e = 0
    <3>1. u = gy
      BY <1>3, <2>3 DEF u
    <3>2. a % P # 0
      BY <1>10, <2>2, <3>1
    <3> QED BY <1>12, <3>2 DEF a
  <2>4. CASE e # 0
    <3>1. u = v1
      BY <1>1, <1>3, <2>4 DEF u, v1
    <3>2. ASSUME a % P = 0
          PROVE  b % P = 0
      <4>1. v1 % P = 0
        BY <1>10, <3>1, <3>2
      <4>2. 0 \in 0 .. (P - 1) /\ 0 = P * 0 + 0 /\ 0 \in Int
        BY <1>1
      <4>3. 0 % P = 0
        BY <1>1, <4>2, Remainder
      <4>4. Same(P, v1, 0)
        BY <4>1, <4>3 DEF Same
      <4>5. Same(P, z * v1, z * 0)
        BY <1>1, <1>7, <4>2, <4>4, Moduli, SameTimes
      <4>6. z * v1 = v /\ z * 0 = 0
        BY <1>1, <1>7
      <4>7. v % P = 0
        BY <4>3, <4>5, <4>6 DEF Same
      <4> QED BY <1>10, <4>7
    <3> QED BY <1>12, <3>2 DEF a, b
  <2> QED BY <2>3, <2>4
<1> QED BY <1>11, <1>12

(* check_list finds the place if the bit of q is the other one than delta   *)
LEMMA Found ==
  ASSUME NEW q \in Word, NEW r \in Word, NEW delta \in Bit,
         NEW y \in 1 .. (P - 1), NEW z \in 1 .. (P - 1)
  PROVE  LET c == ShareC(Chop(r, 1))
             s == Chop(q, 0)
         IN  SomeZero([j \in Place |-> U(c, s, delta, y, j)], [j \in Place |-> V(c, s, y, z, j)])
               <=> IF delta = 0 THEN q > r ELSE ~(q > r)
<1> DEFINE b == Chop(r, 1)
           s == Chop(q, 0)
           c == ShareC(b)
           u(j) == U(c, s, delta, y, j)
           v(j) == V(c, s, y, z, j)
           e(j) == (1 + delta + s[j]) % 2
           first(j) == s[j] # b[j] /\ \A k \in 1 .. (j - 1) : s[k] = b[k]
<1>1. /\ \A j \in Place : s[j] \in Bit /\ b[j] \in Bit
      /\ \E j \in Place : first(j) /\ (s[j] = 1 <=> q > r)
  BY FirstDifference
<1>2. PICK i \in Place : first(i) /\ (s[i] = 1 <=> q > r)
  BY <1>1
<1> HIDE DEF b, s
<1>3. ASSUME NEW j \in Place
      PROVE  u(j) = 0 /\ v(j) # 0 <=> first(j) /\ e(j) = 0
  <2> DEFINE f1 == First(1, c[1], s, j)
             f2 == First(2, c[2], s, j)
  <2>1. /\ f1 \in Int /\ f2 \in Int
        /\ \E g \in 0 .. (P - 1) : Same(P, f1 + f2, g) /\ (g = 0 <=> first(j))
    BY <1>1, Firsts
  <2>2. PICK g \in 0 .. (P - 1) : Same(P, f1 + f2, g) /\ (g = 0 <=> first(j))
    BY <2>1
  <2>3. e(j) \in 0 .. 1
    <3>1. s[j] \in 0 .. 1 /\ delta \in 0 .. 1
      BY <1>1 DEF Bit
    <3> QED BY <3>1
  <2> DEFINE d == e(j)
  <2>4. u(j) = (f1 * y + f2 * y + d) % P /\ v(j) = ((f1 * y + 1) * z + f2 * y * z) % P
    BY DEF U, V
  <2> HIDE DEF f1, f2, d, u, v
  <2>5. d \in 0 .. 1
    BY <2>3 DEF d
  <2> DEFINE u0 == u(j)
             v0 == v(j)
  <2>6. u0 = (f1 * y + f2 * y + d) % P /\ v0 = ((f1 * y + 1) * z + f2 * y * z) % P
    BY <2>4
  <2> HIDE DEF u0, v0
  <2>7. u0 = 0 /\ v0 # 0 <=> g = 0 /\ d = 0
    BY <2>1, <2>2, <2>5, <2>6, OnePlace
  <2> QED BY <2>2, <2>7 DEF d, u0, v0
<1>4. SomeZero([j \in Place |-> u(j)], [j \in Place |-> v(j)])
        <=> \E j \in Place : u(j) = 0 /\ v(j) # 0
  BY DEF SomeZero
<1> HIDE DEF u, v
<1>5. \A j \in Place : first(j) => j = i
  <2> SUFFICES ASSUME NEW j \in Place, first(j), j # i
               PROVE  FALSE
    OBVIOUS
  <2>1. i \in Nat /\ j \in Nat /\ i >= 1 /\ j >= 1
    BY Moduli DEF Place
  <2>2. CASE i < j
    <3>1. i \in 1 .. (j - 1)
      BY <2>1, <2>2
    <3> QED BY <1>2, <3>1
  <2>3. CASE j < i
    <3>1. j \in 1 .. (i - 1)
      BY <2>1, <2>3
    <3> QED BY <1>2, <3>1
  <2> QED BY <2>1, <2>2, <2>3
<1>6. (\E j \in Place : u(j) = 0 /\ v(j) # 0) <=> e(i) = 0
  <2> HIDE DEF first, e
  <2> QED BY <1>2, <1>3, <1>5
<1>7. e(i) = 0 <=> IF delta = 0 THEN q > r ELSE ~(q > r)
  <2>1. s[i] \in 0 .. 1 /\ delta \in 0 .. 1
    BY <1>1 DEF Bit
  <2>2. CASE delta = 0
    <3>1. e(i) = 0 <=> s[i] = 1
      BY <2>1, <2>2
    <3> QED BY <1>2, <2>2, <3>1
  <2>3. CASE delta = 1
    <3>1. e(i) = 0 <=> s[i] = 0
      BY <2>1, <2>3
    <3>2. s[i] = 0 <=> ~(s[i] = 1)
      BY <2>1
    <3> QED BY <1>2, <2>3, <3>1, <3>2
  <2> QED BY <2>1, <2>2, <2>3
<1> QED BY <1>4, <1>6, <1>7 DEF u, v, c, s, b

(* Sign of a register the players agree on, whatever is taken for half      *)
LEMMA SignOfTells ==
  ASSUME NEW x \in AShare, Consistent(x), NEW half \in Int,
         NEW delta \in Bit, NEW y \in 1 .. (P - 1), NEW z \in 1 .. (P - 1)
  PROVE  LET t == SignOf(x, half, delta, y, z)
             n == (ValueOf(x) - half + 1) % W
         IN  Consistent(t) /\ ValueOf(t) = IF n \in 1 .. (W - 1 - x.r) THEN 0 ELSE 1
<1> DEFINE t == SignOf(x, half, delta, y, z)
           m == x.r1[1]
           r == x.r
           v == ValueOf(x)
           a == m - half + 1
           q == a % W
           o == v - half + 1
           n == o % W
           R == Masked.r
           zp == (2 * Rand) % W
           c == ShareC(Chop(r, 1))
           s == Chop(q, 0)
           found == SomeZero([j \in Place |-> U(c, s, delta, y, j)],
                             [j \in Place |-> V(c, s, y, z, j)])
           res == IF found THEN 0 ELSE 1
           g == zp * (1 - 2 * delta) + R + delta
           gammas == g % W
           back == res - zp
           b == back - 2 * delta * back + gammas
           r1 == b % W
           value == IF n \in 1 .. (W - 1 - r) THEN 0 ELSE 1
<1>1. /\ m \in Int /\ r \in Word /\ r \in Int /\ v \in Word /\ v \in Int /\ Same(W, v, m - r)
      /\ W \in Nat \ {0} /\ a \in Int /\ o \in Int
  BY Parts, ValueTypes, Widths
<1>2. /\ q \in Word /\ q \in Int /\ Same(W, q, a)
      /\ n \in Word /\ n \in Int /\ Same(W, n, o)
  <2> HIDE DEF a, o
  <2> QED BY <1>1, ModWord
<1>3. t = [r1 |-> << r1, r1 >>, r2 |-> Masked.r2, r |-> R]
  <2>1. Chop((x.r1[1] - half + 1) % W, 0) = s
    OBVIOUS
  <2> HIDE DEF s, q, a
  <2> QED BY <2>1 DEF SignOf
<1>4. found <=> IF delta = 0 THEN q > r ELSE ~(q > r)
  <2> HIDE DEF q, r
  <2> QED BY <1>1, <1>2, Found
<1>5. q > r <=> n \in 1 .. (W - 1 - r)
  <2> DEFINE k == m - r
             h == half - 1
  <2>1. k \in Int /\ h \in Int /\ a = k - (h - r) /\ o = v - h /\ h - r \in Int
    BY <1>1
  <2>2. Same(W, v, k) /\ Same(W, h, h) /\ Same(W, r, r)
    BY <1>1, <2>1 DEF Same
  <2> HIDE DEF a, o, q, n, k, h, v, r
  <2>3. Same(W, o, k - h)
    BY <1>1, <2>1, <2>2, SameMinus
  <2>4. Same(W, n, k - h)
    BY <1>1, <1>2, <2>1, <2>3, SameTrans
  <2> DEFINE sum == n + r
             kh == k - h
  <2>5. kh \in Int /\ kh + r = a
    BY <1>1, <2>1
  <2>6. Same(W, n, kh)
    BY <2>4
  <2> HIDE DEF kh
  <2>7. Same(W, n + r, kh + r)
    BY <1>1, <1>2, <2>2, <2>5, <2>6, SamePlus
  <2>8. Same(W, q, sum) /\ sum \in Int
    <3>1. sum \in Int /\ Same(W, sum, a)
      BY <1>1, <1>2, <2>5, <2>7
    <3> HIDE DEF sum
    <3> QED BY <1>1, <1>2, <3>1, SameSym, SameTrans
  <2>9. n \in 0 .. (W - 1) /\ r \in 0 .. (W - 1) /\ q \in 0 .. (W - 1)
    BY <1>1, <1>2 DEF Word
  <2>10. CASE sum < W
    <3>1. sum \in 0 .. (W - 1)
      BY <1>1, <2>9, <2>10
    <3>2. q = sum
      BY <1>1, <2>8, <2>9, <3>1, SameEqual
    <3> QED BY <1>1, <2>9, <2>10, <3>2
  <2>11. CASE sum >= W
    <3> DEFINE less == sum - W
    <3>1. less \in 0 .. (W - 1) /\ less \in Int
      BY <1>1, <2>9, <2>11
    <3>2. Same(W, q, less)
      BY <1>2, <2>8, SameAround
    <3> HIDE DEF less
    <3>3. q = less
      BY <1>1, <2>9, <3>1, <3>2, SameEqual
    <3> QED BY <1>1, <2>9, <2>11, <3>3 DEF less
  <2> QED BY <1>1, <1>2, <2>8, <2>10, <2>11
<1> HIDE DEF found
<1>6. res \in 0 .. 1 /\ value \in 0 .. 1 /\ res = IF delta = 0 THEN value ELSE 1 - value
  <2> HIDE DEF q, r, v, n
  <2>1. delta = 0 \/ delta = 1
    BY DEF Bit
  <2> QED BY <1>4, <1>5, <2>1
<1> HIDE DEF q, r, v, m, a, o, n, res, value
<1>7. R \in Int /\ zp \in Int /\ delta \in 0 .. 1
  <2> DEFINE rr == 2 * Rand
  <2>1. rr \in Int
    BY Widths
  <2> HIDE DEF rr
  <2>2. rr % W \in Int
    BY <2>1, ModWord
  <2> QED BY <2>2, MaskedTypes DEF rr, Bit
<1> HIDE DEF R, zp
<1>8. g \in Int /\ back \in Int
  BY <1>6, <1>7
<1> DEFINE h == back - 2 * delta * back
<1>9. h \in Int /\ h + g = value + R
  <2>1. CASE delta = 0
    <3>1. h = back - 2 * 0 * back /\ g = zp * (1 - 2 * 0) + R + 0 /\ res = value
      BY <1>6, <2>1
    <3> HIDE DEF h, g
    <3> QED BY <1>6, <1>7, <1>8, <3>1
  <2>2. CASE delta = 1
    <3>1. h = back - 2 * 1 * back /\ g = zp * (1 - 2 * 1) + R + 1 /\ res = 1 - value
      BY <1>6, <2>2
    <3> HIDE DEF h, g
    <3> QED BY <1>6, <1>7, <1>8, <3>1
  <2> QED BY <1>7, <2>1, <2>2
<1> HIDE DEF g, back
<1>10. gammas \in Int /\ Same(W, gammas, g)
  BY <1>8, ModWord
<1>11. b = h + gammas
  BY <1>8, <1>7
<1> HIDE DEF h, gammas
<1>12. Same(W, h + gammas, h + g)
  <2>1. Same(W, h, h)
    BY DEF Same
  <2> QED BY <1>8, <1>9, <1>10, <2>1, Widths, SamePlus
<1>13. b \in Int /\ Same(W, b, value + R)
  BY <1>9, <1>10, <1>11, <1>12
<1> HIDE DEF b
<1>14. r1 \in Word /\ r1 \in Int /\ Same(W, r1, b)
  BY <1>13, ModWord
<1> HIDE DEF r1, t
<1>15. t \in AShare /\ Consistent(t) /\ t.r1[1] = r1 /\ t.r = R
  BY <1>3, <1>14, MaskedTypes DEF AShare, Consistent, R
<1>16. Same(W, ValueOf(t), r1 - R) /\ ValueOf(t) \in Word
  BY <1>15, ValueTypes
<1> DEFINE vr == value + R
<1>17. vr \in Int /\ Same(W, r1, vr) /\ Same(W, R, R) /\ vr - R = value /\ value \in Int
  BY <1>6, <1>7, <1>13, <1>14, SameTrans DEF Same
<1> HIDE DEF vr
<1>18. Same(W, r1 - R, vr - R)
  BY <1>7, <1>14, <1>17, Widths, SameMinus
<1>19. Same(W, ValueOf(t), value)
  BY <1>16, <1>17, <1>18, SameTrans
<1>20. value \in 0 .. (W - 1)
  BY <1>6, Widths
<1>21. ValueOf(t) = value
  BY <1>1, <1>16, <1>19, <1>20, SameEqual DEF Word
<1> QED BY <1>15, <1>21 DEF t, value, n, o, v, r

(* What the code takes for half is a number, whatever the width of an int   *)
LEMMA HalvesInt == \A half \in Halves : half \in Int
<1> DEFINE k == IntBits - 1
           low == -(2 ^ k)
<1>1. k \in Nat
  BY MaskedAssumption
<1>2. low \in Int
  <2> HIDE DEF k
  <2> QED BY <1>1, PowerTwo
<1> HIDE DEF low
<1>3. low % W \in Int
  BY <1>2, Widths, ModWord
<1>4. Half \in Int /\ 0 \in Int
  BY Widths
<1> QED BY <1>3, <1>4 DEF Halves, low

(* Sign *)
LEMMA SignStep ==
  ASSUME RegsOK, NEW i \in DOMAIN regs, Sign(i)
  PROVE  SignTells'
<1> DEFINE x == regs[i]
<1>1. x \in AShare
  BY Registers
<1>2. PICK half \in Halves, delta \in Bit, y \in Factors, z \in Factors :
        out' = [op |-> "sign", x |-> << x >>, half |-> half, z |-> SignOf(x, half, delta, y, z)]
  BY DEF Sign
<1> DEFINE t == SignOf(x, half, delta, y, z)
<1>3. half \in Int
  BY HalvesInt
<1>4. y \in 1 .. (P - 1) /\ z \in 1 .. (P - 1)
  BY MaskedAssumption
<1> HIDE DEF x
<1> DEFINE n == (ValueOf(x) - half + 1) % W
<1>5. ASSUME Consistent(x)
      PROVE  Consistent(t) /\ ValueOf(t) = IF n \in 1 .. (W - 1 - x.r) THEN 0 ELSE 1
  BY <1>1, <1>3, <1>4, <1>5, SignOfTells
<1> HIDE DEF t
<1>6. out'.op = "sign" /\ out'.x[1] = x /\ out'.z = t /\ out'.half = half
  BY <1>2 DEF t
<1> QED BY <1>5, <1>6 DEF SignTells

(* What Sign tells holds for words of every width, also wider than an int,  *)
(* and for every prime P, mask, delta and factors.                          *)
THEOREM Signs == Spec => []SignTells
<1>1. Init => SignTells
  BY DEF Init, None, SignTells
<1>2. MInv /\ SignTells /\ [Next]_vars => SignTells'
  <2> SUFFICES ASSUME MInv, SignTells, [Next]_vars
               PROVE  SignTells'
    OBVIOUS
  <2>1. RegsOK
    BY DEF MInv
  <2>2. CASE UNCHANGED vars
    BY <2>2 DEF vars, SignTells
  <2>3. ASSUME NEW i \in DOMAIN regs, Sign(i)
        PROVE  SignTells'
    BY <2>1, <2>3, SignStep
  <2>4. ASSUME Declare \/ Linear
        PROVE  SignTells'
    BY <2>4 DEF Declare, Linear, None, SignTells
  <2>5. ASSUME NEW i \in DOMAIN regs, RevealA(i) \/ Trunc(i) \/ \E v \in Values : ShareA(i, v)
        PROVE  SignTells'
    <3>1. out'.op \in {"reveal", "trunc", "share"}
      BY <2>5 DEF RevealA, Trunc, ShareA
    <3> QED BY <3>1 DEF SignTells
  <2>6. ASSUME NEW i \in DOMAIN regs, NEW j \in DOMAIN regs, Mult(i, j)
        PROVE  SignTells'
    <3>1. out'.op = "mult"
      BY <2>6 DEF Mult
    <3> QED BY <3>1 DEF SignTells
  <2>7. ASSUME NEW xs, NEW ys, NEW z, Dot(xs, ys) \/ Verify(xs, ys, z)
        PROVE  SignTells'
    <3>1. CASE Dot(xs, ys)
      <4>1. out'.op = "dot"
        BY <3>1 DEF Dot
      <4> QED BY <4>1 DEF SignTells
    <3>2. CASE Verify(xs, ys, z)
      <4>1. out'.op = "verify"
        BY <3>2 DEF Verify
      <4> QED BY <4>1 DEF SignTells
    <3> QED BY <2>7, <3>1, <3>2
  <2> QED BY <2>2, <2>3, <2>4, <2>5, <2>6, <2>7 DEF Next
<1> QED BY <1>1, <1>2, MaskedInductive, PTL DEF Spec
===============================================================================
