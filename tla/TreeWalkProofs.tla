----------------------------- MODULE TreeWalkProofs -----------------------------
(***************************************************************************)
(* Proofs about TreeWalk and what it uses: the comparison of a masked word *)
(* by two players is right for every width of the words (Interval); the    *)
(* players of a walk stay in step, whatever the depth of the tree; and     *)
(* what they hold is what one walk determines, so that their SOTs select   *)
(* from one place of the lists and their CSOTs choose one of two blocks.   *)
(***************************************************************************)
EXTENDS TreeWalk, Arithmetic, TLAPS

-------------------------------------------------------------------------------
(* Interval: comparing a masked word *)

LEMMA Width == W \in Nat /\ W >= 4 /\ W \in Nat \ {0}
BY WidthAssumption

LEMMA Small == ASSUME NEW x \in Int, 0 <= x, x < W PROVE x % W = x
BY Width

(* Sums and differences of words wrap around at most once *)
LEMMA Above == ASSUME NEW x \in Int, W <= x, x < 2 * W PROVE x % W = x - W
<1>1. x = W * 1 + (x - W) /\ x - W \in 0 .. (W - 1)
  BY Width
<1> QED BY <1>1, Width, Remainder

LEMMA Under == ASSUME NEW x \in Int, -W <= x, x < 0 PROVE x % W = x + W
<1>1. x = W * (-1) + (x + W) /\ x + W \in 0 .. (W - 1)
  BY Width
<1> QED BY <1>1, Width, Remainder

LEMMA Wraps ==
  ASSUME NEW x \in Int, -W <= x, x < 2 * W
  PROVE  x % W = IF x < 0 THEN x + W ELSE IF x < W THEN x ELSE x - W
BY Width, Small, Above, Under

(* What the two comparisons, the two players' own comparisons and the carry *)
(* of the dealer add up to.                                                 *)
LEMMA Comparisons ==
  ASSUME NEW p \in Word, NEW q \in Word, p <= q, NEW r \in Word, NEW R \in Word,
         NEW at \in Word, at = (r - 1) % W,
         NEW ql \in Word, ql = (q + 1) % W,
         NEW a \in Word, a = (R - 1 - p) % W,
         NEW b \in Word, b = (R - 1 - ql) % W
  PROVE  Bool(R > p) - Bool(R > ql) + Bool(b < at) - Bool(a < at) + Carry(p, q, r)
           = Bool((R - r) % W \in p .. q)
<1> DEFINE pr == (p + r) % W
           qr == (q + r) % W
           qlr == (q + 1 + r) % W
           x == (R - r) % W
<1>1. at = IF r < 1 THEN r - 1 + W ELSE r - 1
  <2>1. r - 1 \in Int /\ -W <= r - 1 /\ r - 1 < 2 * W
    BY Width DEF Word
  <2> QED BY <2>1, Wraps, Width DEF Word
<1>2. ql = IF q + 1 < W THEN q + 1 ELSE q + 1 - W
  <2>1. q + 1 \in Int /\ 0 <= q + 1 /\ q + 1 < 2 * W
    BY Width DEF Word
  <2> QED BY <2>1, Small, Above, Width
<1>3. a = IF R - 1 - p < 0 THEN R - 1 - p + W ELSE R - 1 - p
  <2>1. R - 1 - p \in Int /\ -W <= R - 1 - p /\ R - 1 - p < 2 * W
    BY Width DEF Word
  <2>2. (R - 1 - p) % W = IF R - 1 - p < 0 THEN R - 1 - p + W
                          ELSE IF R - 1 - p < W THEN R - 1 - p ELSE R - 1 - p - W
    BY <2>1, Wraps
  <2>3. R - 1 - p < W
    BY Width DEF Word
  <2> QED BY <2>2, <2>3
<1>4. b = IF R - 1 - ql < 0 THEN R - 1 - ql + W ELSE R - 1 - ql
  <2>1. R - 1 - ql \in Int /\ -W <= R - 1 - ql /\ R - 1 - ql < 2 * W
    BY Width DEF Word
  <2> QED BY <2>1, Wraps, Width DEF Word
<1>5. pr = IF p + r < W THEN p + r ELSE p + r - W
  <2>1. p + r \in Int /\ 0 <= p + r /\ p + r < 2 * W
    BY Width DEF Word
  <2> QED BY <2>1, Small, Above, Width
<1>6. qr = IF q + r < W THEN q + r ELSE q + r - W
  <2>1. q + r \in Int /\ 0 <= q + r /\ q + r < 2 * W
    BY Width DEF Word
  <2> QED BY <2>1, Small, Above, Width
<1>7. qlr = IF q + 1 + r < W THEN q + 1 + r ELSE q + 1 + r - W
  <2>1. q + 1 + r \in Int /\ 0 <= q + 1 + r /\ q + 1 + r < 2 * W
    BY Width DEF Word
  <2> QED BY <2>1, Small, Above, Width
<1>8. x = IF R - r < 0 THEN R - r + W ELSE R - r
  <2>1. R - r \in Int /\ -W <= R - r /\ R - r < 2 * W
    BY Width DEF Word
  <2> QED BY <2>1, Wraps, Width DEF Word
<1>9. Carry(p, q, r) = Bool(pr > qr) - Bool(pr > p) + Bool(qlr > ql) + Bool(qr = W - 1)
  BY DEF Carry
<1> HIDE DEF pr, qr, qlr, x
<1>10. x \in p .. q <=> p <= x /\ x <= q
  BY <1>8, Width DEF Word
<1>11. Bool(R > p) - Bool(R > ql) + Bool(b < at) - Bool(a < at)
         + (Bool(pr > qr) - Bool(pr > p) + Bool(qlr > ql) + Bool(qr = W - 1))
         = Bool(p <= x /\ x <= q)
  BY <1>1, <1>2, <1>3, <1>4, <1>5, <1>6, <1>7, <1>8, Width, SMTT(120) DEF Word, Bool
<1> QED BY <1>9, <1>10, <1>11 DEF x, Bool

(* twopc_ic: wherever the dealer's mask r turns the interval and the word,  *)
(* wrapping or not, what the two players get adds up to 1 if the word is in *)
(* the interval and to 0 otherwise.  So it is for words of 32 bits.         *)
THEOREM Containment ==
  ASSUME NEW p \in Word, NEW q \in Word, p <= q, NEW r \in Word, NEW R \in Word,
         NEW pad \in Word, NEW z0 \in Word
  PROVE  (IcShare(IcKey("suc", p, q, r, pad, z0), p, q, R)
            + IcShare(IcKey("pre", p, q, r, pad, z0), p, q, R)) % W
           = Bool((R - r) % W \in p .. q)
<1> DEFINE at == (r - 1) % W
           ql == (q + 1) % W
           a == (R - 1 - p) % W
           b == (R - 1 - ql) % W
           carry == Carry(p, q, r)
           own == Bool(R > p) - Bool(R > ql)
           in == Bool((R - r) % W \in p .. q)
           fst == ((pad + b + Bool(b < at)) % W) - ((pad + a + Bool(a < at)) % W) + z0
           snd == own + ((pad + a) % W) - ((pad + b) % W) + ((carry - z0) % W)
<1>1. at \in Word /\ ql \in Word /\ a \in Word /\ b \in Word
  <2>1. \A x \in Int : x % W \in Word
    BY Width, Division DEF Word
  <2>2. ql \in Int
    BY <2>1, Width DEF Word
  <2> QED BY <2>1, <2>2, Width DEF Word
<1>2. carry \in Int /\ own \in Int /\ in \in 0 .. 1
  BY DEF Carry, Bool
<1>3. IcShare(IcKey("suc", p, q, r, pad, z0), p, q, R) = fst % W
  BY <1>1 DEF IcShare, IcKey, LtEval, Bool
<1>4. IcShare(IcKey("pre", p, q, r, pad, z0), p, q, R) = snd % W
  <2> DEFINE key == IcKey("pre", p, q, r, pad, z0)
  <2>1. key.side = "pre" /\ key.pad = pad /\ key.z = (carry - z0) % W
    BY DEF IcKey
  <2>2. ASSUME NEW c \in Word PROVE LtEval(key, c) = (pad + c) % W
    <3>1. Bool(key.side = "suc" /\ c < key.at) = 0
      BY <2>1 DEF Bool
    <3>2. LtEval(key, c) = (pad + c + 0) % W
      BY <2>1, <3>1 DEF LtEval
    <3> QED BY <3>2, Width DEF Word
  <2>3. LtEval(key, a) = (pad + a) % W /\ LtEval(key, b) = (pad + b) % W
    BY <1>1, <2>2
  <2> QED BY <2>1, <2>3 DEF IcShare
<1>5. own + Bool(b < at) - Bool(a < at) + carry = in
  BY <1>1, Comparisons
<1>6. ASSUME NEW v \in Int
      PROVE  \E k \in Int : v % W = v + W * k
  <2>1. PICK k \in Int : v = W * k + (v % W)
    BY Width, Division
  <2> DEFINE c == v % W
  <2>2. c \in Int /\ v = W * k + c
    BY <2>1, Width, Division
  <2> HIDE DEF c
  <2>3. -k \in Int /\ c = v + W * (-k)
    BY <2>2, Width
  <2> QED BY <2>3 DEF c
<1> DEFINE y1 == pad + b + Bool(b < at)
           y2 == pad + a + Bool(a < at)
           y3 == pad + a
           y4 == pad + b
           y5 == carry - z0
<1>7. y1 \in Int /\ y2 \in Int /\ y3 \in Int /\ y4 \in Int /\ y5 \in Int
  BY <1>1, <1>2, Width DEF Word, Bool
<1> HIDE DEF y1, y2, y3, y4, y5
<1>8a. PICK k1 \in Int : y1 % W = y1 + W * k1
  BY <1>6, <1>7
<1>8b. PICK k2 \in Int : y2 % W = y2 + W * k2
  BY <1>6, <1>7
<1>8c. PICK k3 \in Int : y3 % W = y3 + W * k3
  BY <1>6, <1>7
<1>8d. PICK k4 \in Int : y4 % W = y4 + W * k4
  BY <1>6, <1>7
<1>8e. PICK k5 \in Int : y5 % W = y5 + W * k5
  BY <1>6, <1>7
<1> USE DEF y1, y2, y3, y4, y5
<1>9. fst = (y1 + W * k1) - (y2 + W * k2) + z0
  BY <1>8a, <1>8b
<1>10. snd = own + (y3 + W * k3) - (y4 + W * k4) + (y5 + W * k5)
  BY <1>8c, <1>8d, <1>8e
<1>11. y1 - y2 + z0 + own + y3 - y4 + y5 = in
  <2> HIDE DEF at, ql, a, b, carry, own, in
  <2>1. Bool(b < at) \in Int /\ Bool(a < at) \in Int
    BY DEF Bool
  <2> QED BY <1>1, <1>2, <1>5, <2>1, Width DEF Word
<1> HIDE DEF y1, y2, y3, y4, y5, carry, own, in, fst, snd
<1>12. fst \in Int /\ snd \in Int /\ in \in Int
  BY <1>2, <1>7, <1>9, <1>10, Width DEF Word
<1>13. PICK k6 \in Int, k7 \in Int : fst % W = fst + W * k6 /\ snd % W = snd + W * k7
  BY <1>6, <1>12
<1> DEFINE K == k1 - k2 + k3 - k4 + k5 + k6 + k7
<1>14. K \in Int /\ W * K = W * k1 - W * k2 + W * k3 - W * k4 + W * k5 + W * k6 + W * k7
  BY Width
<1> HIDE DEF K
<1>15. (fst % W) + (snd % W) = W * K + in
  <2>1. /\ W * k1 \in Int /\ W * k2 \in Int /\ W * k3 \in Int /\ W * k4 \in Int
        /\ W * k5 \in Int /\ W * k6 \in Int /\ W * k7 \in Int
    BY Width
  <2> QED BY <1>2, <1>7, <1>9, <1>10, <1>11, <1>12, <1>13, <1>14, <2>1, Width DEF Word
<1>16. in \in 0 .. (W - 1)
  BY <1>2, Width
<1>17. ((fst % W) + (snd % W)) % W = in
  <2>1. (fst % W) + (snd % W) \in Int
    BY <1>12, <1>14, <1>15, Width
  <2> QED BY <1>14, <1>15, <1>16, <2>1, Width, Remainder
<1> QED BY <1>3, <1>4, <1>17 DEF in

-------------------------------------------------------------------------------
(* The ring of the players *)
LEMMA Ring ==
  ASSUME NEW p \in Player
  PROVE  /\ Suc(p) \in Player /\ Pre(p) \in Player
         /\ Suc(p) # p /\ Pre(p) # p /\ Suc(p) # Pre(p)
         /\ Suc(Pre(p)) = p /\ Pre(Suc(p)) = p
         /\ Suc(Suc(p)) = Pre(p) /\ Pre(Pre(p)) = Suc(p)
         /\ \A q \in Player : q = p \/ q = Suc(p) \/ q = Pre(p)
<1>1. p = 0 \/ p = 1 \/ p = 2
  BY DEF Player
<1>2. /\ (0 + 1) % 3 = 1 /\ (1 + 1) % 3 = 2 /\ (2 + 1) % 3 = 0
      /\ (0 + 2) % 3 = 2 /\ (1 + 2) % 3 = 0 /\ (2 + 2) % 3 = 1
  OBVIOUS
<1>3. /\ Suc(0) = 1 /\ Suc(1) = 2 /\ Suc(2) = 0
      /\ Pre(0) = 2 /\ Pre(1) = 0 /\ Pre(2) = 1
  BY <1>2 DEF Suc, Pre
<1> QED BY <1>1, <1>3 DEF Player

-------------------------------------------------------------------------------
(* In step: what has been sent and taken, at every place of the program *)

Place(step) ==
  CASE step[1] = "deposit" -> 0
    [] step[1] = "keys" /\ step[2] = "x" -> 1
    [] step[1] = "take" /\ step[2] = "x" -> 2
    [] step[1] = "keys" /\ step[2] = "n" -> 3
    [] step[1] = "take" /\ step[2] = "n" -> 4
    [] step[1] = "ic" -> 5
    [] step[1] = "take ic" -> 6
    [] step[1] = "ask" -> 7
    [] step[1] = "pick" /\ step[2] = "x" -> 8
    [] step[1] = "pick" /\ step[2] = "n" -> 9
    [] step[1] \in {"choose", "done"} -> 10
    [] step[1] = "chosen" /\ step[2] = "x" -> 11
    [] step[1] = "chosen" /\ step[2] = "n" -> 12

Steps ==
  { << "deposit" >>, << "keys", "x" >>, << "take", "x" >>, << "keys", "n" >>, << "take", "n" >>,
    << "ic" >>, << "take ic" >>, << "ask" >>, << "pick", "x" >>, << "pick", "n" >>,
    << "choose" >>, << "chosen", "x" >>, << "chosen", "n" >>, << "done" >> }

(* The keys a player deals for the CSOTs *)
IcCount == 2 * (Deep - 1)

(* An amount that counts once p is past place n *)
Once(p, n, amount) == IF Place(pc[p]) > n THEN amount ELSE 0

(* The words of the deposit *)
Deal(p) == IF p = Owner THEN 4 ELSE 0

SentToSuc(p) ==
  Once(p, 0, Deal(p)) + Once(p, 1, Deep) + Once(p, 3, Deep)
    + Once(p, 5, IcCount) + 8 * (level[p] - 1) + Once(p, 7, 4) + Once(p, 10, 4)
SentToPre(p) ==
  Once(p, 0, Deal(p)) + Once(p, 1, Deep) + Once(p, 3, Deep)
    + Once(p, 5, IcCount) + 10 * (level[p] - 1) + Once(p, 7, 4) + Once(p, 10, 6)
TakenFromPre(p) ==
  Once(p, 0, Deal(Pre(p))) + Once(p, 2, Deep) + Once(p, 4, Deep)
    + Once(p, 6, IcCount) + 8 * (level[p] - 1) + Once(p, 8, 2) + Once(p, 9, 2) + Once(p, 11, 2)
TakenFromSuc(p) ==
  Once(p, 0, Deal(Suc(p))) + Once(p, 2, Deep) + Once(p, 4, Deep)
    + Once(p, 6, IcCount) + 10 * (level[p] - 1) + Once(p, 8, 2) + Once(p, 9, 2) + Once(p, 11, 3)

Waiting(p, q) == Len(chan[p][q])

Queues(S) == [Player -> [Player -> Seq(S)]]

PaceOK ==
  /\ pc \in [Player -> Steps]
  /\ level \in [Player -> Nat \ {0}]
  /\ \E S : chan \in Queues(S)
  /\ \A p \in Player : pc[p] = << "done" >> => level[p] = Deep

Counts ==
  \A p \in Player :
    /\ Waiting(p, p) = 0
    /\ Waiting(p, Suc(p)) = SentToSuc(p) - TakenFromPre(Suc(p))
    /\ Waiting(p, Pre(p)) = SentToPre(p) - TakenFromSuc(Pre(p))

PaceInv == PaceOK /\ Counts

LEMMA Places ==
  /\ Place(<< "deposit" >>) = 0 /\ Place(<< "ic" >>) = 5 /\ Place(<< "take ic" >>) = 6
  /\ Place(<< "ask" >>) = 7 /\ Place(<< "choose" >>) = 10 /\ Place(<< "done" >>) = 10
  /\ Place(<< "keys", "x" >>) = 1 /\ Place(<< "keys", "n" >>) = 3
  /\ Place(<< "take", "x" >>) = 2 /\ Place(<< "take", "n" >>) = 4
  /\ Place(<< "pick", "x" >>) = 8 /\ Place(<< "pick", "n" >>) = 9
  /\ Place(<< "chosen", "x" >>) = 11 /\ Place(<< "chosen", "n" >>) = 12
BY DEF Place

(* A function on the first numbers is a sequence *)
LEMMA Listed ==
  ASSUME NEW n \in Nat, NEW f, f = [i \in 1 .. n |-> f[i]], NEW S, \A i \in 1 .. n : f[i] \in S
  PROVE  f \in Seq(S) /\ Len(f) = n
OBVIOUS

LEMMA Wider ==
  ASSUME NEW S, NEW T, S \subseteq T
  PROVE  Seq(S) \subseteq Seq(T)
OBVIOUS

LEMMA SendStep ==
  ASSUME NEW p \in Player, NEW S, chan \in Queues(S), NEW a \in Seq(S), NEW b \in Seq(S),
         Send(p, a, b)
  PROVE  /\ chan' \in Queues(S)
         /\ Waiting(p, Suc(p))' = Waiting(p, Suc(p)) + Len(a)
         /\ Waiting(p, Pre(p))' = Waiting(p, Pre(p)) + Len(b)
         /\ \A q, r \in Player : q # p \/ r = p => Waiting(q, r)' = Waiting(q, r)
<1>1. chan' = [chan EXCEPT ![p][Suc(p)] = @ \o a, ![p][Pre(p)] = @ \o b]
  BY DEF Send
<1>2. /\ Suc(p) \in Player /\ Pre(p) \in Player /\ Suc(p) # p /\ Pre(p) # p /\ Suc(p) # Pre(p)
  BY Ring
<1> DEFINE c == chan
           d == chan'
           s == Suc(p)
           t == Pre(p)
<1>a. \A q \in Player : q = p \/ q = s \/ q = t
  BY Ring
<1> HIDE DEF c, d, s, t
<1>3. c \in [Player -> [Player -> Seq(S)]]
  BY DEF c, Queues
<1>4. d = [c EXCEPT ![p][s] = @ \o a, ![p][t] = @ \o b]
  BY <1>1 DEF c, d, s, t
<1>5. s \in Player /\ t \in Player /\ s # p /\ t # p /\ s # t
  BY <1>2 DEF s, t
<1>6. c[p][s] \in Seq(S) /\ c[p][t] \in Seq(S)
  BY <1>3, <1>5
<1>7. d[p][s] = c[p][s] \o a /\ d[p][t] = c[p][t] \o b
  BY <1>3, <1>4, <1>5
<1>8. \A q, r \in Player : q # p \/ r = p => d[q][r] = c[q][r]
  BY <1>3, <1>4, <1>5
<1>9. d \in [Player -> [Player -> Seq(S)]]
  <2>1. d[p][s] \in Seq(S) /\ d[p][t] \in Seq(S)
    BY <1>6, <1>7
  <2>2. \A q, r \in Player : d[q][r] \in Seq(S)
    BY <1>3, <1>a, <1>8, <2>1
  <2>3. DOMAIN d = Player /\ \A q \in Player : DOMAIN d[q] = Player
    BY <1>3, <1>4, <1>5
  <2>4. d = [q \in Player |-> d[q]] /\ \A q \in Player : d[q] = [r \in Player |-> d[q][r]]
    BY <1>3, <1>4, <1>5
  <2> QED BY <2>2, <2>3, <2>4
<1>10. Len(d[p][s]) = Len(c[p][s]) + Len(a) /\ Len(d[p][t]) = Len(c[p][t]) + Len(b)
  BY <1>6, <1>7
<1> QED BY <1>8, <1>9, <1>10 DEF c, d, s, t, Waiting, Queues

LEMMA ReceiveStep ==
  ASSUME NEW p \in Player, NEW S, chan \in Queues(S), NEW m \in Nat, NEW n \in Nat,
         Arrived(p, m, n), Receive(p, m, n)
  PROVE  /\ chan' \in Queues(S)
         /\ Waiting(Suc(p), p)' = Waiting(Suc(p), p) - m
         /\ Waiting(Pre(p), p)' = Waiting(Pre(p), p) - n
         /\ \A q, r \in Player : q = p \/ r # p => Waiting(q, r)' = Waiting(q, r)
<1> DEFINE c == chan
           d == chan'
           s == Suc(p)
           t == Pre(p)
<1>1. d = [c EXCEPT ![s][p] = Dropped(@, m), ![t][p] = Dropped(@, n)]
  BY DEF Receive
<1>2. s \in Player /\ t \in Player /\ s # p /\ t # p /\ s # t
  BY Ring
<1>3. c \in [Player -> [Player -> Seq(S)]]
  BY DEF Queues
<1>4. Len(c[s][p]) >= m /\ Len(c[t][p]) >= n
  BY DEF Arrived
<1>a. \A q \in Player : q = p \/ q = s \/ q = t
  BY Ring
<1> HIDE DEF c, d, s, t
<1>5. d[s][p] = Dropped(c[s][p], m) /\ d[t][p] = Dropped(c[t][p], n)
  BY <1>1, <1>2, <1>3
<1>6. \A q, r \in Player : q = p \/ r # p => d[q][r] = c[q][r]
  BY <1>1, <1>2, <1>3
<1>7. ASSUME NEW x \in Seq(S), NEW k \in Nat, Len(x) >= k
      PROVE  Dropped(x, k) \in Seq(S) /\ Len(Dropped(x, k)) = Len(x) - k
  BY <1>7 DEF Dropped
<1>8. c[s][p] \in Seq(S) /\ c[t][p] \in Seq(S)
  BY <1>2, <1>3
<1>9. /\ d[s][p] \in Seq(S) /\ Len(d[s][p]) = Len(c[s][p]) - m
      /\ d[t][p] \in Seq(S) /\ Len(d[t][p]) = Len(c[t][p]) - n
  BY <1>4, <1>5, <1>7, <1>8
<1>10. d \in [Player -> [Player -> Seq(S)]]
  <2>1. \A q, r \in Player : d[q][r] \in Seq(S)
    BY <1>2, <1>3, <1>6, <1>9, <1>a
  <2>2. d \in [Player -> [Player -> {d[q][r] : q, r \in Player}]]
    <3>1. DOMAIN d = Player /\ \A q \in Player : DOMAIN d[q] = Player
      BY <1>1, <1>2, <1>3
    <3>2. d = [q \in Player |-> d[q]] /\ \A q \in Player : d[q] = [r \in Player |-> d[q][r]]
      BY <1>1, <1>2, <1>3
    <3> QED BY <3>1, <3>2
  <2> QED BY <2>1, <2>2
<1> QED BY <1>6, <1>9, <1>10 DEF c, d, s, t, Waiting, Queues

LEMMA CountInt ==
  ASSUME PaceOK, NEW q \in Player
  PROVE  /\ SentToSuc(q) \in Int /\ SentToPre(q) \in Int
         /\ TakenFromSuc(q) \in Int /\ TakenFromPre(q) \in Int
<1>1. \A n, x : x \in Int => Once(q, n, x) \in Int
  BY DEF Once
<1>2. level[q] \in Int /\ Deep \in Int /\ IcCount \in Int
  BY SizesAssumption DEF PaceOK, IcCount
<1>3. Deal(q) \in Int /\ Deal(Pre(q)) \in Int /\ Deal(Suc(q)) \in Int
  BY DEF Deal
<1>4. Once(q, 0, Deal(q)) \in Int
  BY <1>1, <1>3
<1>5. Once(q, 0, Deal(Pre(q))) \in Int
  BY <1>1, <1>3
<1>6. Once(q, 0, Deal(Suc(q))) \in Int
  BY <1>1, <1>3
<1> QED BY <1>1, <1>2, <1>4, <1>5, <1>6 DEF SentToSuc, SentToPre, TakenFromSuc, TakenFromPre

(* One step of p, which sends a and b words and takes f and e *)
LEMMA PaceStep ==
  ASSUME PaceInv, NEW p \in Player, NEW step \in Steps,
         pc' = [pc EXCEPT ![p] = step],
         level' \in [Player -> Nat \ {0}], \A q \in Player \ {p} : level'[q] = level[q],
         step = << "done" >> => level'[p] = Deep,
         \E S : chan' \in Queues(S),
         Waiting(p, Suc(p))' - Waiting(p, Suc(p)) = SentToSuc(p)' - SentToSuc(p),
         Waiting(p, Pre(p))' - Waiting(p, Pre(p)) = SentToPre(p)' - SentToPre(p),
         Waiting(Suc(p), p) - Waiting(Suc(p), p)' = TakenFromSuc(p)' - TakenFromSuc(p),
         Waiting(Pre(p), p) - Waiting(Pre(p), p)' = TakenFromPre(p)' - TakenFromPre(p),
         \A q, r \in Player : (q # p /\ r # p) \/ q = r => Waiting(q, r)' = Waiting(q, r)
  PROVE  PaceInv'
<1>1. PaceOK'
  BY DEF PaceInv, PaceOK
<1>2. ASSUME NEW q \in Player, q # p
      PROVE  /\ SentToSuc(q)' = SentToSuc(q) /\ SentToPre(q)' = SentToPre(q)
             /\ TakenFromSuc(q)' = TakenFromSuc(q) /\ TakenFromPre(q)' = TakenFromPre(q)
  <2>1. pc'[q] = pc[q] /\ level'[q] = level[q]
    BY <1>2 DEF PaceInv, PaceOK
  <2> QED BY <2>1 DEF SentToSuc, SentToPre, TakenFromSuc, TakenFromPre, Once, Deal
<1>3. \A q \in Player : /\ SentToSuc(q) \in Int /\ SentToPre(q) \in Int
                        /\ TakenFromSuc(q) \in Int /\ TakenFromPre(q) \in Int
  BY CountInt DEF PaceInv
<1>0. ASSUME NEW q \in Player
      PROVE  /\ SentToSuc(q)' \in Int /\ SentToPre(q)' \in Int
             /\ TakenFromSuc(q)' \in Int /\ TakenFromPre(q)' \in Int
  <2>1. \A n, x : x \in Int => Once(q, n, x)' \in Int
    BY DEF Once
  <2>2. level'[q] \in Int /\ Deep \in Int /\ IcCount \in Int
    BY SizesAssumption DEF IcCount
  <2>3. Deal(q) \in Int /\ Deal(Pre(q)) \in Int /\ Deal(Suc(q)) \in Int
    BY DEF Deal
  <2>4. Once(q, 0, Deal(q))' \in Int
    BY <2>3 DEF Once
  <2>5. Once(q, 0, Deal(Pre(q)))' \in Int
    BY <2>3 DEF Once
  <2>6. Once(q, 0, Deal(Suc(q)))' \in Int
    BY <2>3 DEF Once
  <2> QED BY <2>1, <2>2, <2>4, <2>5, <2>6 DEF SentToSuc, SentToPre, TakenFromSuc, TakenFromPre
<1>a. \A q, r \in Player : Waiting(q, r) \in Int /\ Waiting(q, r)' \in Int
  <2>1. PICK S : chan \in Queues(S)
    BY DEF PaceInv, PaceOK
  <2>2. PICK T : chan' \in Queues(T)
    OBVIOUS
  <2> QED BY <2>1, <2>2 DEF Queues, Waiting
<1> DEFINE s == Suc(p)
           t == Pre(p)
<1>4. /\ s \in Player /\ t \in Player /\ s # p /\ t # p /\ s # t
      /\ Suc(t) = p /\ Pre(s) = p /\ Suc(s) = t /\ Pre(t) = s
      /\ \A q \in Player : q = p \/ q = s \/ q = t
  BY Ring
<1> HIDE DEF s, t
<1>5. \A q \in Player : /\ Waiting(q, q) = 0
                        /\ Waiting(q, Suc(q)) = SentToSuc(q) - TakenFromPre(Suc(q))
                        /\ Waiting(q, Pre(q)) = SentToPre(q) - TakenFromSuc(Pre(q))
  BY DEF PaceInv, Counts
<1>6. /\ Waiting(p, s)' = SentToSuc(p)' - TakenFromPre(s)'
      /\ Waiting(p, t)' = SentToPre(p)' - TakenFromSuc(t)'
  <2>1. /\ Waiting(p, s) = SentToSuc(p) - TakenFromPre(s)
        /\ Waiting(p, t) = SentToPre(p) - TakenFromSuc(t)
    BY <1>5 DEF s, t
  <2>2. /\ Waiting(p, s)' - Waiting(p, s) = SentToSuc(p)' - SentToSuc(p)
        /\ Waiting(p, t)' - Waiting(p, t) = SentToPre(p)' - SentToPre(p)
    BY DEF s, t
  <2>3. TakenFromPre(s)' = TakenFromPre(s) /\ TakenFromSuc(t)' = TakenFromSuc(t)
    BY <1>2, <1>4
  <2> QED BY <1>0, <1>3, <1>4, <1>a, <2>1, <2>2, <2>3
<1>7. /\ Waiting(s, p)' = SentToPre(s)' - TakenFromSuc(p)'
      /\ Waiting(t, p)' = SentToSuc(t)' - TakenFromPre(p)'
  <2>1. /\ Waiting(s, p) = SentToPre(s) - TakenFromSuc(p)
        /\ Waiting(t, p) = SentToSuc(t) - TakenFromPre(p)
    BY <1>4, <1>5
  <2>2. /\ Waiting(s, p) - Waiting(s, p)' = TakenFromSuc(p)' - TakenFromSuc(p)
        /\ Waiting(t, p) - Waiting(t, p)' = TakenFromPre(p)' - TakenFromPre(p)
    BY DEF s, t
  <2>3. SentToPre(s)' = SentToPre(s) /\ SentToSuc(t)' = SentToSuc(t)
    BY <1>2, <1>4
  <2> QED BY <1>0, <1>3, <1>4, <1>a, <2>1, <2>2, <2>3
<1>8. /\ Waiting(s, t)' = SentToSuc(s)' - TakenFromPre(t)'
      /\ Waiting(t, s)' = SentToPre(t)' - TakenFromSuc(s)'
  <2>1. /\ Waiting(s, t) = SentToSuc(s) - TakenFromPre(t)
        /\ Waiting(t, s) = SentToPre(t) - TakenFromSuc(s)
    BY <1>4, <1>5
  <2>2. Waiting(s, t)' = Waiting(s, t) /\ Waiting(t, s)' = Waiting(t, s)
    BY <1>4
  <2> QED BY <1>2, <1>4, <2>1, <2>2
<1>9. \A q \in Player : Waiting(q, q)' = 0
  BY <1>5
<1>10. Counts'
  <2> SUFFICES ASSUME NEW q \in Player
               PROVE  /\ Waiting(q, Suc(q))' = SentToSuc(q)' - TakenFromPre(Suc(q))'
                      /\ Waiting(q, Pre(q))' = SentToPre(q)' - TakenFromSuc(Pre(q))'
    BY <1>9 DEF Counts
  <2>1. CASE q = p
    BY <1>6, <2>1 DEF s, t
  <2>2. CASE q = s
    BY <1>4, <1>7, <1>8, <2>2
  <2>3. CASE q = t
    BY <1>4, <1>7, <1>8, <2>3
  <2> QED BY <1>4, <2>1, <2>2, <2>3
<1> QED BY <1>1, <1>10 DEF PaceInv

LEMMA SendPace ==
  ASSUME PaceInv, NEW p \in Player, NEW step \in Steps, step # << "done" >>,
         Goto(p, step), level' = level,
         NEW A, NEW x \in Seq(A), NEW y1 \in Seq(A), Send(p, x, y1),
         SentToSuc(p)' = SentToSuc(p) + Len(x), SentToPre(p)' = SentToPre(p) + Len(y1),
         TakenFromSuc(p)' = TakenFromSuc(p), TakenFromPre(p)' = TakenFromPre(p)
  PROVE  PaceInv'
<1>1. PICK B : chan \in Queues(B)
  BY DEF PaceInv, PaceOK
<1> DEFINE S == A \cup B
<1>2. chan \in Queues(S) /\ x \in Seq(S) /\ y1 \in Seq(S)
  <2>1. Seq(A) \subseteq Seq(S) /\ Seq(B) \subseteq Seq(S)
    <3>1. A \subseteq S /\ B \subseteq S
      OBVIOUS
    <3> QED BY <3>1, Wider
  <2> HIDE DEF S
  <2> QED BY <1>1, <2>1 DEF Queues
<1> HIDE DEF S
<1>3. /\ chan' \in Queues(S)
      /\ Waiting(p, Suc(p))' = Waiting(p, Suc(p)) + Len(x)
      /\ Waiting(p, Pre(p))' = Waiting(p, Pre(p)) + Len(y1)
      /\ \A q, r \in Player : q # p \/ r = p => Waiting(q, r)' = Waiting(q, r)
  BY <1>2, SendStep
<1>4. /\ pc' = [pc EXCEPT ![p] = step]
      /\ level' \in [Player -> Nat \ {0}] /\ \A q \in Player \ {p} : level'[q] = level[q]
  BY DEF Goto, PaceInv, PaceOK
<1>6. /\ Suc(p) \in Player /\ Pre(p) \in Player /\ Suc(p) # p /\ Pre(p) # p
  BY Ring
<1>8. \A q, r \in Player : (q # p /\ r # p) \/ q = r => Waiting(q, r)' = Waiting(q, r)
  BY <1>3
<1>9. \E C : chan' \in Queues(C)
  BY <1>3
<1>10. /\ Waiting(p, Suc(p))' - Waiting(p, Suc(p)) = SentToSuc(p)' - SentToSuc(p)
       /\ Waiting(p, Pre(p))' - Waiting(p, Pre(p)) = SentToPre(p)' - SentToPre(p)
  <2>1. /\ Waiting(p, Suc(p)) \in Int /\ Waiting(p, Pre(p)) \in Int
        /\ SentToSuc(p) \in Int /\ SentToPre(p) \in Int /\ Len(x) \in Int /\ Len(y1) \in Int
    BY <1>2, <1>6, CountInt DEF Queues, Waiting, PaceInv
  <2> QED BY <1>3, <2>1
<1>11. /\ Waiting(Suc(p), p) - Waiting(Suc(p), p)' = TakenFromSuc(p)' - TakenFromSuc(p)
       /\ Waiting(Pre(p), p) - Waiting(Pre(p), p)' = TakenFromPre(p)' - TakenFromPre(p)
  <2>1. /\ Waiting(Suc(p), p) \in Int /\ Waiting(Pre(p), p) \in Int
        /\ TakenFromSuc(p) \in Int /\ TakenFromPre(p) \in Int
    BY <1>2, <1>6, CountInt DEF Queues, Waiting, PaceInv
  <2> QED BY <1>3, <1>6, <2>1
<1> QED BY <1>4, <1>8, <1>9, <1>10, <1>11, PaceStep

LEMMA ReceivePace ==
  ASSUME PaceInv, NEW p \in Player, NEW step \in Steps, NEW l \in Nat \ {0},
         Goto(p, step), level' = [level EXCEPT ![p] = l], step = << "done" >> => l = Deep,
         NEW m \in Nat, NEW n \in Nat, Arrived(p, m, n), Receive(p, m, n),
         SentToSuc(p)' = SentToSuc(p), SentToPre(p)' = SentToPre(p),
         TakenFromSuc(p)' = TakenFromSuc(p) + m, TakenFromPre(p)' = TakenFromPre(p) + n
  PROVE  PaceInv'
<1>1. PICK S : chan \in Queues(S)
  BY DEF PaceInv, PaceOK
<1>3. /\ chan' \in Queues(S)
      /\ Waiting(Suc(p), p)' = Waiting(Suc(p), p) - m
      /\ Waiting(Pre(p), p)' = Waiting(Pre(p), p) - n
      /\ \A q, r \in Player : q = p \/ r # p => Waiting(q, r)' = Waiting(q, r)
  BY <1>1, ReceiveStep
<1>4. /\ pc' = [pc EXCEPT ![p] = step]
      /\ level' \in [Player -> Nat \ {0}] /\ \A q \in Player \ {p} : level'[q] = level[q]
      /\ level'[p] = l
  BY DEF Goto, PaceInv, PaceOK
<1>6. /\ Suc(p) \in Player /\ Pre(p) \in Player /\ Suc(p) # p /\ Pre(p) # p
  BY Ring
<1>10. /\ Waiting(p, Suc(p))' - Waiting(p, Suc(p)) = SentToSuc(p)' - SentToSuc(p)
       /\ Waiting(p, Pre(p))' - Waiting(p, Pre(p)) = SentToPre(p)' - SentToPre(p)
  <2>1. /\ Waiting(p, Suc(p)) \in Int /\ Waiting(p, Pre(p)) \in Int
        /\ SentToSuc(p) \in Int /\ SentToPre(p) \in Int
    BY <1>1, <1>6, CountInt DEF Queues, Waiting, PaceInv
  <2> QED BY <1>3, <1>6, <2>1
<1>11. /\ Waiting(Suc(p), p) - Waiting(Suc(p), p)' = TakenFromSuc(p)' - TakenFromSuc(p)
       /\ Waiting(Pre(p), p) - Waiting(Pre(p), p)' = TakenFromPre(p)' - TakenFromPre(p)
  <2>1. /\ Waiting(Suc(p), p) \in Int /\ Waiting(Pre(p), p) \in Int
        /\ TakenFromSuc(p) \in Int /\ TakenFromPre(p) \in Int
    BY <1>1, <1>6, CountInt DEF Queues, Waiting, PaceInv
  <2> QED BY <1>3, <1>6, <2>1
<1>8. \A q, r \in Player : (q # p /\ r # p) \/ q = r => Waiting(q, r)' = Waiting(q, r)
  BY <1>3
<1>9. \E C : chan' \in Queues(C)
  BY <1>3
<1> QED BY <1>4, <1>8, <1>9, <1>10, <1>11, PaceStep

-------------------------------------------------------------------------------
(* The actions *)

(* The place and the level a step leaves p at *)
LEMMA Moved ==
  ASSUME PaceOK, NEW p \in Player, NEW step, NEW l, Goto(p, step), level' = [level EXCEPT ![p] = l]
  PROVE  pc'[p] = step /\ level'[p] = l
BY DEF Goto, PaceOK

LEMMA Stayed ==
  ASSUME PaceOK, NEW p \in Player, NEW step, Goto(p, step), level' = level
  PROVE  pc'[p] = step /\ level'[p] = level[p]
BY DEF Goto, PaceOK

LEMMA StepsAre ==
  /\ << "keys", "x" >> \in Steps /\ << "keys", "n" >> \in Steps
  /\ << "take", "x" >> \in Steps /\ << "take", "n" >> \in Steps
  /\ << "ic" >> \in Steps /\ << "take ic" >> \in Steps /\ << "ask" >> \in Steps
  /\ << "pick", "x" >> \in Steps /\ << "pick", "n" >> \in Steps
  /\ << "choose" >> \in Steps /\ << "done" >> \in Steps
  /\ << "chosen", "x" >> \in Steps /\ << "chosen", "n" >> \in Steps
BY DEF Steps

(* The words of both SOTs, and of both CSOTs *)
LEMMA Pairs ==
  ASSUME NEW S, NEW x \in Seq(S), NEW z \in Seq(S)
  PROVE  x \o z \in Seq(S) /\ Len(x \o z) = Len(x) + Len(z)
OBVIOUS

LEMMA Two ==
  ASSUME NEW S, NEW a \in S, NEW b \in S
  PROVE  << a, b >> \in Seq(S) /\ Len(<< a, b >>) = 2 /\ << a >> \in Seq(S) /\ Len(<< a >>) = 1
OBVIOUS

LEMMA NotDone ==
  ASSUME NEW a, NEW b
  PROVE  << a, b >> # << "done" >>
OBVIOUS

LEMMA DespoitPace ==
  ASSUME PaceInv, NEW p \in Player, Despoit(p)
  PROVE  PaceInv'
<1> DEFINE x == << PadOf(0), PadOf(1), StartPad(0, Nodes), StartPad(0, Feats) >>
           z == << PadOf(1), Rest, StartPad(1, Nodes), StartPad(1, Feats) >>
<1>1. pc[p] = << "deposit" >> /\ Send(p, x, z) /\ Goto(p, << "keys", "x" >>) /\ level' = level /\ p = Owner
  BY DEF Despoit, At
<1>2. \E A : x \in Seq(A) /\ z \in Seq(A)
  <2> DEFINE A == {x[1], x[2], x[3], x[4], z[1], z[2], z[3], z[4]}
  <2>1. x \in Seq(A) /\ z \in Seq(A)
    OBVIOUS
  <2> QED BY <2>1
<1>3. Len(x) = 4 /\ Len(z) = 4
  OBVIOUS
<1> HIDE DEF x, z
<1>4. pc'[p] = << "keys", "x" >> /\ level'[p] = level[p]
  BY <1>1, Stayed DEF PaceInv
<1>5. /\ SentToSuc(p)' = SentToSuc(p) + 4 /\ SentToPre(p)' = SentToPre(p) + 4
      /\ TakenFromSuc(p)' = TakenFromSuc(p) /\ TakenFromPre(p)' = TakenFromPre(p)
  <2>1. level[p] \in Nat /\ Deep \in Int /\ IcCount \in Int /\ IcCount' = IcCount
    BY SizesAssumption DEF PaceInv, PaceOK, IcCount
  <2>2. Pre(p) # p /\ Suc(p) # p
    BY Ring
  <2>3. Place(pc[p]) = 0 /\ Place(pc'[p]) = 1
    BY <1>1, <1>4, Places
  <2> QED BY <1>1, <1>4, <2>1, <2>2, <2>3
          DEF SentToSuc, SentToPre, TakenFromSuc, TakenFromPre, Once, Deal
<1>6. << "keys", "x" >> \in Steps /\ << "keys", "x" >> # << "done" >>
  BY StepsAre
<1> QED BY <1>1, <1>2, <1>3, <1>5, <1>6, SendPace

LEMMA SendKeysPace ==
  ASSUME PaceInv, NEW p \in Player, NEW o \in {"x", "n"}, SendKeys(p, o)
  PROVE  PaceInv'
<1> DEFINE x == Keys(seed, SotName(o), p, Deep, LenOf(o), TRUE)
           z == Keys(seed, SotName(o), p, Deep, LenOf(o), FALSE)
<1>1. pc[p] = << "keys", o >> /\ Send(p, x, z) /\ Goto(p, << "take", o >>) /\ level' = level
  BY DEF SendKeys, At
<1> DEFINE A == { x[i] : i \in 1 .. Deep } \cup { z[i] : i \in 1 .. Deep }
<1>7. Deep \in Nat
  BY SizesAssumption DEF IcCount
<1>8. x = [i \in 1 .. Deep |-> x[i]] /\ z = [i \in 1 .. Deep |-> z[i]]
  BY DEF Keys
<1>9. (\A i \in 1 .. Deep : x[i] \in A) /\ \A i \in 1 .. Deep : z[i] \in A
  OBVIOUS
<1> HIDE DEF x, z, A
<1>2. \E B : x \in Seq(B) /\ z \in Seq(B)
  <2>1. x \in Seq(A) /\ z \in Seq(A)
    BY <1>7, <1>8, <1>9, Listed
  <2> QED BY <2>1
<1>3. Len(x) = Deep /\ Len(z) = Deep
  BY <1>7, <1>8, <1>9, Listed
<1> HIDE DEF x, z
<1>4. pc'[p] = << "take", o >> /\ level'[p] = level[p]
  BY <1>1, Stayed DEF PaceInv
<1>5. /\ SentToSuc(p)' = SentToSuc(p) + Deep /\ SentToPre(p)' = SentToPre(p) + Deep
      /\ TakenFromSuc(p)' = TakenFromSuc(p) /\ TakenFromPre(p)' = TakenFromPre(p)
  <2>1. level[p] \in Nat /\ Deep \in Int /\ IcCount \in Int /\ IcCount' = IcCount
    BY SizesAssumption DEF PaceInv, PaceOK, IcCount
  <2>2. Pre(p) # p /\ Suc(p) # p
    BY Ring
  <2>3. CASE o = "x"
    <3>1. Place(pc[p]) = 1 /\ Place(pc'[p]) = 2
      BY <1>1, <1>4, <2>3, Places
    <3> QED BY <1>1, <1>4, <2>1, <2>2, <2>3, <3>1
            DEF SentToSuc, SentToPre, TakenFromSuc, TakenFromPre, Once, Deal
  <2>4. CASE o = "n"
    <3>1. Place(pc[p]) = 3 /\ Place(pc'[p]) = 4
      BY <1>1, <1>4, <2>4, Places
    <3> QED BY <1>1, <1>4, <2>1, <2>2, <2>4, <3>1
            DEF SentToSuc, SentToPre, TakenFromSuc, TakenFromPre, Once, Deal
  <2> QED BY <2>3, <2>4
<1>6. << "take", o >> \in Steps /\ << "take", o >> # << "done" >>
  BY StepsAre, NotDone
<1> QED BY <1>1, <1>2, <1>3, <1>5, <1>6, SendPace

LEMMA SendIcPace ==
  ASSUME PaceInv, NEW p \in Player, SendIc(p)
  PROVE  PaceInv'
<1> DEFINE x == IcKeysOf(p, "suc")
           z == IcKeysOf(p, "pre")
<1>1. pc[p] = << "ic" >> /\ Send(p, x, z) /\ Goto(p, << "take ic" >>) /\ level' = level
  BY DEF SendIc, At
<1> DEFINE A == { x[i] : i \in 1 .. IcCount } \cup { z[i] : i \in 1 .. IcCount }
<1>7. IcCount \in Nat
  BY SizesAssumption DEF IcCount
<1>8. x = [i \in 1 .. IcCount |-> x[i]] /\ z = [i \in 1 .. IcCount |-> z[i]]
  BY DEF IcKeysOf, IcCount
<1>9. (\A i \in 1 .. IcCount : x[i] \in A) /\ \A i \in 1 .. IcCount : z[i] \in A
  OBVIOUS
<1> HIDE DEF x, z, A
<1>2. \E B : x \in Seq(B) /\ z \in Seq(B)
  <2>1. x \in Seq(A) /\ z \in Seq(A)
    BY <1>7, <1>8, <1>9, Listed
  <2> QED BY <2>1
<1>3. Len(x) = IcCount /\ Len(z) = IcCount
  BY <1>7, <1>8, <1>9, Listed
<1> HIDE DEF x, z
<1>4. pc'[p] = << "take ic" >> /\ level'[p] = level[p]
  BY <1>1, Stayed DEF PaceInv
<1>5. /\ SentToSuc(p)' = SentToSuc(p) + IcCount /\ SentToPre(p)' = SentToPre(p) + IcCount
      /\ TakenFromSuc(p)' = TakenFromSuc(p) /\ TakenFromPre(p)' = TakenFromPre(p)
  <2>1. level[p] \in Nat /\ Deep \in Int /\ IcCount \in Int /\ IcCount' = IcCount
    BY SizesAssumption DEF PaceInv, PaceOK, IcCount
  <2>2. Pre(p) # p /\ Suc(p) # p
    BY Ring
  <2>3. Place(pc[p]) = 5 /\ Place(pc'[p]) = 6
    BY <1>1, <1>4, Places
  <2>4. /\ 8 * (level[p] - 1) \in Int /\ 10 * (level[p] - 1) \in Int
        /\ level'[p] = level[p]
    <3>1. \A l \in Nat : 8 * (l - 1) \in Int /\ 10 * (l - 1) \in Int
      OBVIOUS
    <3> QED BY <1>4, <2>1, <3>1
  <2>5. SentToSuc(p)' = SentToSuc(p) + IcCount
    BY <2>1, <2>3, <2>4 DEF SentToSuc, Once, Deal
  <2>6. SentToPre(p)' = SentToPre(p) + IcCount
    BY <2>1, <2>3, <2>4 DEF SentToPre, Once, Deal
  <2>7. TakenFromSuc(p)' = TakenFromSuc(p)
    BY <2>1, <2>3, <2>4 DEF TakenFromSuc, Once, Deal
  <2>8. TakenFromPre(p)' = TakenFromPre(p)
    BY <2>1, <2>3, <2>4 DEF TakenFromPre, Once, Deal
  <2> QED BY <2>5, <2>6, <2>7, <2>8
<1>6. << "take ic" >> \in Steps /\ << "take ic" >> # << "done" >>
  BY StepsAre
<1> QED BY <1>1, <1>2, <1>3, <1>5, <1>6, SendPace

LEMMA TakeKeysXPace ==
  ASSUME PaceInv, NEW p \in Player, TakeKeys(p, "x")
  PROVE  PaceInv'
<1>1. pc[p] = << "take", "x" >> /\ Arrived(p, Deep, Deep) /\ Receive(p, Deep, Deep)
      /\ Goto(p, << "keys", "n" >>) /\ level' = level
  BY DEF TakeKeys, At
<1>2. Deep \in Nat /\ Deep \in Nat /\ level[p] \in Nat \ {0}
  BY SizesAssumption DEF IcCount, PaceInv, PaceOK
<1>3. level' = [level EXCEPT ![p] = level[p]]
  BY <1>1 DEF PaceInv, PaceOK
<1>4. pc'[p] = << "keys", "n" >> /\ level'[p] = level[p]
  BY <1>1, Stayed DEF PaceInv
<1>5. /\ SentToSuc(p)' = SentToSuc(p) /\ SentToPre(p)' = SentToPre(p)
      /\ TakenFromSuc(p)' = TakenFromSuc(p) + Deep /\ TakenFromPre(p)' = TakenFromPre(p) + Deep
  <2>1. level[p] \in Nat /\ Deep \in Int /\ IcCount \in Int /\ IcCount' = IcCount
    BY SizesAssumption DEF PaceInv, PaceOK, IcCount
  <2>2. Pre(p) # p /\ Suc(p) # p
    BY Ring
  <2>3. Place(pc[p]) = 2 /\ Place(pc'[p]) = 3
    BY <1>1, <1>4, Places
  <2> QED BY <1>1, <1>4, <2>1, <2>2, <2>3
          DEF SentToSuc, SentToPre, TakenFromSuc, TakenFromPre, Once, Deal
<1>6. << "keys", "n" >> \in Steps /\ << "keys", "n" >> # << "done" >>
  BY StepsAre
<1> QED BY <1>1, <1>2, <1>3, <1>5, <1>6, ReceivePace

LEMMA TakeKeysNPace ==
  ASSUME PaceInv, NEW p \in Player, TakeKeys(p, "n")
  PROVE  PaceInv'
<1>1. pc[p] = << "take", "n" >> /\ Arrived(p, Deep, Deep) /\ Receive(p, Deep, Deep)
      /\ Goto(p, << "ic" >>) /\ level' = level
  BY DEF TakeKeys, At
<1>2. Deep \in Nat /\ Deep \in Nat /\ level[p] \in Nat \ {0}
  BY SizesAssumption DEF IcCount, PaceInv, PaceOK
<1>3. level' = [level EXCEPT ![p] = level[p]]
  BY <1>1 DEF PaceInv, PaceOK
<1>4. pc'[p] = << "ic" >> /\ level'[p] = level[p]
  BY <1>1, Stayed DEF PaceInv
<1>5. /\ SentToSuc(p)' = SentToSuc(p) /\ SentToPre(p)' = SentToPre(p)
      /\ TakenFromSuc(p)' = TakenFromSuc(p) + Deep /\ TakenFromPre(p)' = TakenFromPre(p) + Deep
  <2>1. level[p] \in Nat /\ Deep \in Int /\ IcCount \in Int /\ IcCount' = IcCount
    BY SizesAssumption DEF PaceInv, PaceOK, IcCount
  <2>2. Pre(p) # p /\ Suc(p) # p
    BY Ring
  <2>3. Place(pc[p]) = 4 /\ Place(pc'[p]) = 5
    BY <1>1, <1>4, Places
  <2> QED BY <1>1, <1>4, <2>1, <2>2, <2>3
          DEF SentToSuc, SentToPre, TakenFromSuc, TakenFromPre, Once, Deal
<1>6. << "ic" >> \in Steps /\ << "ic" >> # << "done" >>
  BY StepsAre
<1> QED BY <1>1, <1>2, <1>3, <1>5, <1>6, ReceivePace

LEMMA TakeIcPace ==
  ASSUME PaceInv, NEW p \in Player, TakeIc(p)
  PROVE  PaceInv'
<1>1. pc[p] = << "take ic" >> /\ Arrived(p, IcCount, IcCount) /\ Receive(p, IcCount, IcCount)
      /\ Goto(p, << "ask" >>) /\ level' = level
  BY DEF TakeIc, At, IcCount
<1>2. IcCount \in Nat /\ IcCount \in Nat /\ level[p] \in Nat \ {0}
  BY SizesAssumption DEF IcCount, PaceInv, PaceOK
<1>3. level' = [level EXCEPT ![p] = level[p]]
  BY <1>1 DEF PaceInv, PaceOK
<1>4. pc'[p] = << "ask" >> /\ level'[p] = level[p]
  BY <1>1, Stayed DEF PaceInv
<1>5. /\ SentToSuc(p)' = SentToSuc(p) /\ SentToPre(p)' = SentToPre(p)
      /\ TakenFromSuc(p)' = TakenFromSuc(p) + IcCount /\ TakenFromPre(p)' = TakenFromPre(p) + IcCount
  <2>1. level[p] \in Nat /\ Deep \in Int /\ IcCount \in Int /\ IcCount' = IcCount
    BY SizesAssumption DEF PaceInv, PaceOK, IcCount
  <2>2. Pre(p) # p /\ Suc(p) # p
    BY Ring
  <2>3. Place(pc[p]) = 6 /\ Place(pc'[p]) = 7
    BY <1>1, <1>4, Places
  <2>4. /\ 8 * (level[p] - 1) \in Int /\ 10 * (level[p] - 1) \in Int
        /\ level'[p] = level[p]
    <3>1. \A l \in Nat : 8 * (l - 1) \in Int /\ 10 * (l - 1) \in Int
      OBVIOUS
    <3> QED BY <1>4, <2>1, <3>1
  <2>5. SentToSuc(p)' = SentToSuc(p)
    BY <2>1, <2>3, <2>4 DEF SentToSuc, Once, Deal
  <2>6. SentToPre(p)' = SentToPre(p)
    BY <2>1, <2>3, <2>4 DEF SentToPre, Once, Deal
  <2>7. TakenFromSuc(p)' = TakenFromSuc(p) + IcCount
    BY <2>1, <2>3, <2>4 DEF TakenFromSuc, Once, Deal
  <2>8. TakenFromPre(p)' = TakenFromPre(p) + IcCount
    BY <2>1, <2>3, <2>4 DEF TakenFromPre, Once, Deal
  <2> QED BY <2>5, <2>6, <2>7, <2>8
<1>6. << "ask" >> \in Steps /\ << "ask" >> # << "done" >>
  BY StepsAre
<1> QED BY <1>1, <1>2, <1>3, <1>5, <1>6, ReceivePace

LEMMA PickXPace ==
  ASSUME PaceInv, NEW p \in Player, PickX(p)
  PROVE  PaceInv'
<1>1. pc[p] = << "pick", "x" >> /\ Arrived(p, 2, 2) /\ Receive(p, 2, 2)
      /\ Goto(p, << "pick", "n" >>) /\ level' = level
  BY DEF PickX, At
<1>2. 2 \in Nat /\ 2 \in Nat /\ level[p] \in Nat \ {0}
  BY SizesAssumption DEF IcCount, PaceInv, PaceOK
<1>3. level' = [level EXCEPT ![p] = level[p]]
  BY <1>1 DEF PaceInv, PaceOK
<1>4. pc'[p] = << "pick", "n" >> /\ level'[p] = level[p]
  BY <1>1, Stayed DEF PaceInv
<1>5. /\ SentToSuc(p)' = SentToSuc(p) /\ SentToPre(p)' = SentToPre(p)
      /\ TakenFromSuc(p)' = TakenFromSuc(p) + 2 /\ TakenFromPre(p)' = TakenFromPre(p) + 2
  <2>1. level[p] \in Nat /\ Deep \in Int /\ IcCount \in Int /\ IcCount' = IcCount
    BY SizesAssumption DEF PaceInv, PaceOK, IcCount
  <2>2. Pre(p) # p /\ Suc(p) # p
    BY Ring
  <2>3. Place(pc[p]) = 8 /\ Place(pc'[p]) = 9
    BY <1>1, <1>4, Places
  <2> QED BY <1>1, <1>4, <2>1, <2>2, <2>3
          DEF SentToSuc, SentToPre, TakenFromSuc, TakenFromPre, Once, Deal
<1>6. << "pick", "n" >> \in Steps /\ << "pick", "n" >> # << "done" >>
  BY StepsAre
<1> QED BY <1>1, <1>2, <1>3, <1>5, <1>6, ReceivePace

LEMMA ChosenXPace ==
  ASSUME PaceInv, NEW p \in Player, Chosen(p, "x")
  PROVE  PaceInv'
<1>1. pc[p] = << "chosen", "x" >> /\ Arrived(p, 3, 2) /\ Receive(p, 3, 2)
      /\ Goto(p, << "chosen", "n" >>) /\ level' = level
  BY DEF Chosen, At
<1>2. 3 \in Nat /\ 2 \in Nat /\ level[p] \in Nat \ {0}
  BY SizesAssumption DEF IcCount, PaceInv, PaceOK
<1>3. level' = [level EXCEPT ![p] = level[p]]
  BY <1>1 DEF PaceInv, PaceOK
<1>4. pc'[p] = << "chosen", "n" >> /\ level'[p] = level[p]
  BY <1>1, Stayed DEF PaceInv
<1>5. /\ SentToSuc(p)' = SentToSuc(p) /\ SentToPre(p)' = SentToPre(p)
      /\ TakenFromSuc(p)' = TakenFromSuc(p) + 3 /\ TakenFromPre(p)' = TakenFromPre(p) + 2
  <2>1. level[p] \in Nat /\ Deep \in Int /\ IcCount \in Int /\ IcCount' = IcCount
    BY SizesAssumption DEF PaceInv, PaceOK, IcCount
  <2>2. Pre(p) # p /\ Suc(p) # p
    BY Ring
  <2>3. Place(pc[p]) = 11 /\ Place(pc'[p]) = 12
    BY <1>1, <1>4, Places
  <2> QED BY <1>1, <1>4, <2>1, <2>2, <2>3
          DEF SentToSuc, SentToPre, TakenFromSuc, TakenFromPre, Once, Deal
<1>6. << "chosen", "n" >> \in Steps /\ << "chosen", "n" >> # << "done" >>
  BY StepsAre
<1> QED BY <1>1, <1>2, <1>3, <1>5, <1>6, ReceivePace

LEMMA ChosenNPace ==
  ASSUME PaceInv, NEW p \in Player, Chosen(p, "n")
  PROVE  PaceInv'
<1>1. pc[p] = << "chosen", "n" >> /\ Arrived(p, 3, 2) /\ Receive(p, 3, 2)
      /\ Goto(p, << "ask" >>) /\ level' = [level EXCEPT ![p] = level[p] + 1]
  BY DEF Chosen, At
<1>2. 3 \in Nat /\ 2 \in Nat /\ level[p] \in Nat \ {0}
  BY SizesAssumption DEF IcCount, PaceInv, PaceOK
<1>3. level' = [level EXCEPT ![p] = level[p] + 1] /\ level[p] + 1 \in Nat \ {0}
  BY <1>1, <1>2
<1>4. pc'[p] = << "ask" >> /\ level'[p] = level[p] + 1
  BY <1>1, <1>3, Moved DEF PaceInv
<1>5. /\ SentToSuc(p)' = SentToSuc(p) /\ SentToPre(p)' = SentToPre(p)
      /\ TakenFromSuc(p)' = TakenFromSuc(p) + 3 /\ TakenFromPre(p)' = TakenFromPre(p) + 2
  <2>1. level[p] \in Nat /\ Deep \in Int /\ IcCount \in Int /\ IcCount' = IcCount
    BY SizesAssumption DEF PaceInv, PaceOK, IcCount
  <2>2. Pre(p) # p /\ Suc(p) # p
    BY Ring
  <2>3. Place(pc[p]) = 12 /\ Place(pc'[p]) = 7
    BY <1>1, <1>4, Places
  <2>4. /\ 8 * (level'[p] - 1) = 8 * (level[p] - 1) + 8
        /\ 10 * (level'[p] - 1) = 10 * (level[p] - 1) + 10
    BY <1>4, <2>1
  <2>5. SentToSuc(p)' = SentToSuc(p)
    BY <1>1, <2>1, <2>3, <2>4 DEF SentToSuc, Once, Deal
  <2>6. SentToPre(p)' = SentToPre(p)
    BY <1>1, <2>1, <2>3, <2>4 DEF SentToPre, Once, Deal
  <2>7. TakenFromSuc(p)' = TakenFromSuc(p) + 3
    BY <1>1, <2>1, <2>3, <2>4 DEF TakenFromSuc, Once, Deal
  <2>8. TakenFromPre(p)' = TakenFromPre(p) + 2
    BY <1>1, <2>1, <2>3, <2>4 DEF TakenFromPre, Once, Deal
  <2> QED BY <2>5, <2>6, <2>7, <2>8
<1>6. << "ask" >> \in Steps /\ << "ask" >> # << "done" >>
  BY StepsAre
<1> QED BY <1>1, <1>2, <1>3, <1>5, <1>6, ReceivePace

LEMMA AskPace ==
  ASSUME PaceInv, NEW p \in Player, Ask(p)
  PROVE  PaceInv'
<1> DEFINE idx(o) == IF o = "x" THEN ki[p] ELSE idi[p]
           mine == [o \in {"x", "n"} |->
                      MyDeltas(sotDeltas[o][p], seed, SotName(o), p, idx(o), level[p], LenOf(o))]
           x == WordsForSuc(mine["x"], p) \o WordsForSuc(mine["n"], p)
           z == WordsForPre(mine["x"], p) \o WordsForPre(mine["n"], p)
<1>1. pc[p] = << "ask" >> /\ Send(p, x, z) /\ Goto(p, << "pick", "x" >>) /\ level' = level
  BY DEF Ask, At
<1>2. \E A : x \in Seq(A) /\ z \in Seq(A) /\ Len(x) = 4 /\ Len(z) = 4
  <2>1. PICK x1, x2, x3, x4, z1, z2, z3, z4 :
          /\ x = << x1, x2 >> \o << x3, x4 >> /\ z = << z1, z2 >> \o << z3, z4 >>
    <3> DEFINE d == mine["x"]
               e == mine["n"]
    <3>1. /\ x = << d[p][p], d[Pre(p)][p] >> \o << e[p][p], e[Pre(p)][p] >>
          /\ z = << d[p][p], d[Suc(p)][p] >> \o << e[p][p], e[Suc(p)][p] >>
      BY DEF WordsForSuc, WordsForPre
    <3> HIDE DEF x, z, d, e
    <3> QED BY <3>1
  <2> DEFINE A == {x1, x2, x3, x4, z1, z2, z3, z4}
  <2> HIDE DEF x, z
  <2>2. /\ << x1, x2 >> \in Seq(A) /\ << x3, x4 >> \in Seq(A) /\ Len(<< x1, x2 >>) = 2 /\ Len(<< x3, x4 >>) = 2
        /\ << z1, z2 >> \in Seq(A) /\ << z3, z4 >> \in Seq(A) /\ Len(<< z1, z2 >>) = 2 /\ Len(<< z3, z4 >>) = 2
    BY Two
  <2> HIDE DEF A
  <2>3. /\ x \in Seq(A) /\ Len(x) = 2 + 2 /\ z \in Seq(A) /\ Len(z) = 2 + 2
    BY <2>1, <2>2, Pairs
  <2> QED BY <2>3
<1> HIDE DEF x, z
<1>4. pc'[p] = << "pick", "x" >> /\ level'[p] = level[p]
  BY <1>1, Stayed DEF PaceInv
<1>5. /\ SentToSuc(p)' = SentToSuc(p) + 4 /\ SentToPre(p)' = SentToPre(p) + 4
      /\ TakenFromSuc(p)' = TakenFromSuc(p) /\ TakenFromPre(p)' = TakenFromPre(p)
  <2>1. level[p] \in Nat /\ Deep \in Int /\ IcCount \in Int /\ IcCount' = IcCount
    BY SizesAssumption DEF PaceInv, PaceOK, IcCount
  <2>2. Pre(p) # p /\ Suc(p) # p
    BY Ring
  <2>3. Place(pc[p]) = 7 /\ Place(pc'[p]) = 8
    BY <1>1, <1>4, Places
  <2> QED BY <1>1, <1>4, <2>1, <2>2, <2>3
          DEF SentToSuc, SentToPre, TakenFromSuc, TakenFromPre, Once, Deal
<1>6. << "pick", "x" >> \in Steps /\ << "pick", "x" >> # << "done" >>
  BY StepsAre
<1> QED BY <1>1, <1>2, <1>5, <1>6, SendPace

LEMMA ChoosePace ==
  ASSUME PaceInv, NEW p \in Player, Choose(p)
  PROVE  PaceInv'
<1> DEFINE m == << x_pick[p], n_pick[p].t >>
           block(o) == IF o = "x" THEN << n_pick[p].xl, n_pick[p].xr >> ELSE << n_pick[p].nl, n_pick[p].nr >>
           mine == [o \in {"x", "n"} |-> Differences(Zeros, seed, CsotName(o, level[p]), p, m)]
           masked == [o \in {"x", "n"} |-> MaskedBlocks(seed, CsotName(o, level[p]), p, block(o), LenOf(o))]
           x == ChoiceForSuc(mine, masked, p)
           z == ChoiceForPre(mine, masked, p)
<1>1. pc[p] = << "choose" >> /\ Send(p, x, z) /\ Goto(p, << "chosen", "x" >>) /\ level' = level
  BY DEF Choose, At
<1>2. \E A : x \in Seq(A) /\ z \in Seq(A) /\ Len(x) = 4 /\ Len(z) = 6
  <2> DEFINE x1 == mine["x"][p][p]
             x2 == mine["x"][Pre(p)][p]
             x3 == mine["n"][p][p]
             x4 == mine["n"][Pre(p)][p]
             z1 == mine["x"][p][p]
             z2 == mine["x"][Suc(p)][p]
             z3 == mine["n"][p][p]
             z4 == mine["n"][Suc(p)][p]
             z5 == masked["x"]
             z6 == masked["n"]
  <2>1. /\ x = << x1, x2 >> \o << x3, x4 >>
        /\ z = << z1, z2 >> \o << z5 >> \o << z3, z4 >> \o << z6 >>
    <3> HIDE DEF mine, masked
    <3> QED BY DEF WordsForSuc, WordsForPre, ChoiceForSuc, ChoiceForPre
  <2> DEFINE A == {x1, x2, x3, x4, z1, z2, z3, z4, z5, z6}
  <2> HIDE DEF x, z, x1, x2, x3, x4, z1, z2, z3, z4, z5, z6
  <2>2. /\ << x1, x2 >> \in Seq(A) /\ << x3, x4 >> \in Seq(A) /\ Len(<< x1, x2 >>) = 2 /\ Len(<< x3, x4 >>) = 2
        /\ << z1, z2 >> \in Seq(A) /\ << z3, z4 >> \in Seq(A) /\ Len(<< z1, z2 >>) = 2 /\ Len(<< z3, z4 >>) = 2
        /\ << z5 >> \in Seq(A) /\ << z6 >> \in Seq(A) /\ Len(<< z5 >>) = 1 /\ Len(<< z6 >>) = 1
    BY Two
  <2> HIDE DEF A
  <2>3. /\ x \in Seq(A) /\ Len(x) = 2 + 2
    BY <2>1, <2>2, Pairs
  <2>4. << z1, z2 >> \o << z5 >> \in Seq(A) /\ Len(<< z1, z2 >> \o << z5 >>) = 3
    BY <2>2, Pairs
  <2>5. /\ << z1, z2 >> \o << z5 >> \o << z3, z4 >> \in Seq(A)
        /\ Len(<< z1, z2 >> \o << z5 >> \o << z3, z4 >>) = 5
    BY <2>2, <2>4, Pairs
  <2>6. z \in Seq(A) /\ Len(z) = 6
    BY <2>1, <2>2, <2>5, Pairs
  <2> QED BY <2>3, <2>6
<1> HIDE DEF x, z
<1>4. pc'[p] = << "chosen", "x" >> /\ level'[p] = level[p]
  BY <1>1, Stayed DEF PaceInv
<1>5. /\ SentToSuc(p)' = SentToSuc(p) + 4 /\ SentToPre(p)' = SentToPre(p) + 6
      /\ TakenFromSuc(p)' = TakenFromSuc(p) /\ TakenFromPre(p)' = TakenFromPre(p)
  <2>1. level[p] \in Nat /\ Deep \in Int /\ IcCount \in Int /\ IcCount' = IcCount
    BY SizesAssumption DEF PaceInv, PaceOK, IcCount
  <2>2. Pre(p) # p /\ Suc(p) # p
    BY Ring
  <2>3. Place(pc[p]) = 10 /\ Place(pc'[p]) = 11
    BY <1>1, <1>4, Places
  <2> QED BY <1>1, <1>4, <2>1, <2>2, <2>3
          DEF SentToSuc, SentToPre, TakenFromSuc, TakenFromPre, Once, Deal
<1>6. << "chosen", "x" >> \in Steps /\ << "chosen", "x" >> # << "done" >>
  BY StepsAre
<1> QED BY <1>1, <1>2, <1>5, <1>6, SendPace

LEMMA PickNPace ==
  ASSUME PaceInv, NEW p \in Player, PickN(p)
  PROVE  PaceInv'
<1> DEFINE to == IF level[p] = Deep THEN << "done" >> ELSE << "choose" >>
<1>1. pc[p] = << "pick", "n" >> /\ Arrived(p, 2, 2) /\ Receive(p, 2, 2) /\ Goto(p, to) /\ level' = level
  BY DEF PickN, At
<1>2. PICK step \in Steps : step = to
  BY StepsAre
<1>3. 2 \in Nat /\ level[p] \in Nat \ {0} /\ level' = [level EXCEPT ![p] = level[p]]
  BY <1>1 DEF PaceInv, PaceOK
<1>4. pc'[p] = step /\ level'[p] = level[p] /\ Goto(p, step)
  BY <1>1, <1>2, Stayed DEF PaceInv
<1>7. Place(step) = 10 /\ (step = << "done" >> => level[p] = Deep)
  <2>1. << "choose" >> # << "done" >>
    OBVIOUS
  <2> QED BY <1>2, <2>1, Places
<1> HIDE DEF to
<1>5. /\ SentToSuc(p)' = SentToSuc(p) /\ SentToPre(p)' = SentToPre(p)
      /\ TakenFromSuc(p)' = TakenFromSuc(p) + 2 /\ TakenFromPre(p)' = TakenFromPre(p) + 2
  <2>1. level[p] \in Nat /\ Deep \in Int /\ IcCount \in Int /\ IcCount' = IcCount
    BY SizesAssumption DEF PaceInv, PaceOK, IcCount
  <2>2. Pre(p) # p /\ Suc(p) # p
    BY Ring
  <2>3. Place(pc[p]) = 9 /\ Place(pc'[p]) = 10
    BY <1>1, <1>4, <1>7, Places
  <2> QED BY <1>1, <1>4, <1>7, <2>1, <2>2, <2>3
          DEF SentToSuc, SentToPre, TakenFromSuc, TakenFromPre, Once, Deal
<1> QED BY <1>1, <1>3, <1>4, <1>5, <1>7, ReceivePace

(* The deposit is taken from the owner, and nothing from the other *)
LEMMA DepositCame ==
  ASSUME PaceInv, NEW p \in Player, TakeDespoit(p),
         NEW m, m = Deal(Suc(p)), NEW n, n = Deal(Pre(p))
  PROVE  m \in Nat /\ n \in Nat /\ Arrived(p, m, n) /\ Receive(p, m, n)
<1> DEFINE s == Suc(p)
           t == Pre(p)
<1>1. /\ p # Owner /\ Len(chan[Owner][p]) >= 4
      /\ chan' = [chan EXCEPT ![Owner][p] = Dropped(@, 4)]
  BY DEF TakeDespoit
<1>2. m = (IF s = Owner THEN 4 ELSE 0) /\ n = (IF t = Owner THEN 4 ELSE 0)
  BY DEF Deal
<1>3. PICK S : chan \in [Player -> [Player -> Seq(S)]]
  BY DEF PaceInv, PaceOK, Queues
<1>7. s \in Player /\ t \in Player /\ s # p /\ t # p /\ s # t /\ (Owner = s \/ Owner = t)
  BY <1>1, OwnerAssumption, Ring
<1>8. \A q \in Player : Dropped(chan[q][p], 0) = chan[q][p] /\ Len(chan[q][p]) >= 0
  <2>1. \A c \in Seq(S) : SubSeq(c, 1, Len(c)) = c /\ Len(c) >= 0
    OBVIOUS
  <2> QED BY <1>3, <2>1 DEF Dropped
<1>10. CASE Owner = s
  <2>1. m = 4 /\ n = 0
    BY <1>2, <1>7, <1>10
  <2>2. Len(chan[s][p]) >= 4 /\ Len(chan[t][p]) >= 0
    BY <1>1, <1>7, <1>8, <1>10
  <2>3. chan' = [chan EXCEPT ![s][p] = Dropped(@, 4), ![t][p] = Dropped(@, 0)]
    <3> DEFINE c == [chan EXCEPT ![s][p] = Dropped(@, 4)]
    <3>1. c[t][p] = chan[t][p] /\ c \in [Player -> [Player -> {c[q][r] : q, r \in Player}]]
      BY <1>3, <1>7
    <3>2. Dropped(c[t][p], 0) = c[t][p]
      BY <1>7, <1>8, <3>1
    <3>3. chan' = c
      BY <1>1, <1>10
    <3>4. [chan EXCEPT ![s][p] = Dropped(@, 4), ![t][p] = Dropped(@, 0)] = [c EXCEPT ![t][p] = Dropped(@, 0)]
      <4> HIDE DEF s, t
      <4> QED BY <1>3, <1>7
    <3> HIDE DEF c
    <3>5. c = [c EXCEPT ![t][p] = Dropped(@, 0)]
      BY <1>7, <3>1, <3>2
    <3> QED BY <3>3, <3>4, <3>5
  <2> QED BY <2>1, <2>2, <2>3 DEF Arrived, Receive
<1>11. CASE Owner = t
  <2>1. m = 0 /\ n = 4
    BY <1>2, <1>7, <1>11
  <2>2. Len(chan[s][p]) >= 0 /\ Len(chan[t][p]) >= 4
    BY <1>1, <1>7, <1>8, <1>11
  <2>3. chan' = [chan EXCEPT ![s][p] = Dropped(@, 0), ![t][p] = Dropped(@, 4)]
    <3>1. Dropped(chan[s][p], 0) = chan[s][p]
      BY <1>7, <1>8
    <3>2. chan = [chan EXCEPT ![s][p] = Dropped(@, 0)]
      BY <1>3, <1>7, <3>1
    <3> QED BY <1>1, <1>11, <3>2
  <2> QED BY <2>1, <2>2, <2>3 DEF Arrived, Receive
<1>12. m \in Nat /\ n \in Nat
  BY <1>2
<1> QED BY <1>7, <1>10, <1>11, <1>12

LEMMA TakeDespoitPace ==
  ASSUME PaceInv, NEW p \in Player, TakeDespoit(p)
  PROVE  PaceInv'
<1>1. /\ pc[p] = << "deposit" >> /\ Goto(p, << "keys", "x" >>) /\ level' = level
  BY DEF TakeDespoit, At
<1>2. PICK m, n : m = Deal(Suc(p)) /\ n = Deal(Pre(p))
  OBVIOUS
<1>3. m \in Nat /\ n \in Nat /\ Arrived(p, m, n) /\ Receive(p, m, n)
  BY <1>2, DepositCame
<1>4. pc'[p] = << "keys", "x" >> /\ level'[p] = level[p]
  BY <1>1, Stayed DEF PaceInv
<1>5. level[p] \in Nat \ {0} /\ level' = [level EXCEPT ![p] = level[p]]
  BY <1>1 DEF PaceInv, PaceOK
<1>6. << "keys", "x" >> \in Steps /\ << "keys", "x" >> # << "done" >>
  BY StepsAre
<1>7. /\ SentToSuc(p)' = SentToSuc(p) /\ SentToPre(p)' = SentToPre(p)
      /\ TakenFromSuc(p)' = TakenFromSuc(p) + m /\ TakenFromPre(p)' = TakenFromPre(p) + n
  <2>1. level[p] \in Nat /\ Deep \in Int /\ IcCount \in Int /\ IcCount' = IcCount
    BY SizesAssumption DEF PaceInv, PaceOK, IcCount
  <2>2. p # Owner /\ m = (IF Suc(p) = Owner THEN 4 ELSE 0) /\ n = (IF Pre(p) = Owner THEN 4 ELSE 0)
    BY <1>2 DEF TakeDespoit, Deal
  <2>3. Place(pc[p]) = 0 /\ Place(pc'[p]) = 1
    BY <1>1, <1>4, Places
  <2> QED BY <1>4, <2>1, <2>2, <2>3
          DEF SentToSuc, SentToPre, TakenFromSuc, TakenFromPre, Once, Deal
<1> QED BY <1>1, <1>3, <1>5, <1>6, <1>7, ReceivePace

-------------------------------------------------------------------------------
LEMMA PaceInit ==
  ASSUME Init
  PROVE  PaceInv
<1>1. /\ pc = [p \in Player |-> << "deposit" >>] /\ level = [p \in Player |-> 1]
      /\ chan = NoMessages
  BY DEF Init
<1>2. << "deposit" >> \in Steps /\ << "deposit" >> # << "done" >>
  BY DEF Steps
<1>3. chan \in Queues({})
  <2>1. << >> \in Seq({})
    OBVIOUS
  <2>2. NoMessages \in [Player -> [Player -> Seq({})]]
    BY <2>1 DEF NoMessages
  <2> QED BY <1>1, <2>2 DEF Queues
<1>4. PaceOK
  BY <1>1, <1>2, <1>3 DEF PaceOK
<1>5. ASSUME NEW p \in Player
      PROVE  SentToSuc(p) = 0 /\ SentToPre(p) = 0 /\ TakenFromPre(p) = 0 /\ TakenFromSuc(p) = 0
  <2>1. Place(pc[p]) = 0 /\ level[p] = 1
    BY <1>1, Places
  <2> QED BY <2>1 DEF SentToSuc, SentToPre, TakenFromSuc, TakenFromPre, Once, Deal
<1>6. ASSUME NEW p \in Player, NEW q \in Player
      PROVE  Waiting(p, q) = 0
  BY <1>1 DEF NoMessages, Waiting
<1>7. Counts
  <2> SUFFICES ASSUME NEW p \in Player
               PROVE  /\ Waiting(p, p) = 0
                      /\ Waiting(p, Suc(p)) = SentToSuc(p) - TakenFromPre(Suc(p))
                      /\ Waiting(p, Pre(p)) = SentToPre(p) - TakenFromSuc(Pre(p))
    BY DEF Counts
  <2>1. Suc(p) \in Player /\ Pre(p) \in Player
    BY Ring
  <2> QED BY <1>5, <1>6, <2>1
<1> QED BY <1>4, <1>7 DEF PaceInv

LEMMA PaceSame ==
  ASSUME PaceInv, UNCHANGED vars
  PROVE  PaceInv'
<1>1. pc' = pc /\ level' = level /\ chan' = chan
  BY DEF vars
<1> QED BY <1>1 DEF PaceInv, PaceOK, Counts, Waiting, SentToSuc, SentToPre, TakenFromSuc, TakenFromPre, Once, Deal

(* What is under way between two players is, at every place of their       *)
(* programs, what the one has sent and the other not taken.                *)
THEOREM PaceInductive == Spec => []PaceInv
<1>1. Init => PaceInv
  BY PaceInit
<1>2. PaceInv /\ [Next]_vars => PaceInv'
  <2> SUFFICES ASSUME PaceInv, [Next]_vars
               PROVE  PaceInv'
    OBVIOUS
  <2>1. ASSUME NEW p \in Player, Evaluate(p)
        PROVE  PaceInv'
    <3>1. CASE Despoit(p)
      BY <3>1, DespoitPace
    <3>2. CASE TakeDespoit(p)
      BY <3>2, TakeDespoitPace
    <3>3. ASSUME NEW o \in {"x", "n"}, SendKeys(p, o)
          PROVE  PaceInv'
      BY <3>3, SendKeysPace
    <3>4. ASSUME NEW o \in {"x", "n"}, TakeKeys(p, o)
          PROVE  PaceInv'
      <4>1. CASE o = "x"
        BY <3>4, <4>1, TakeKeysXPace
      <4>2. CASE o = "n"
        BY <3>4, <4>2, TakeKeysNPace
      <4> QED BY <4>1, <4>2
    <3>5. ASSUME NEW o \in {"x", "n"}, Chosen(p, o)
          PROVE  PaceInv'
      <4>1. CASE o = "x"
        BY <3>5, <4>1, ChosenXPace
      <4>2. CASE o = "n"
        BY <3>5, <4>2, ChosenNPace
      <4> QED BY <4>1, <4>2
    <3>6. CASE SendIc(p)
      BY <3>6, SendIcPace
    <3>7. CASE TakeIc(p)
      BY <3>7, TakeIcPace
    <3>8. CASE Ask(p)
      BY <3>8, AskPace
    <3>9. CASE PickX(p)
      BY <3>9, PickXPace
    <3>10. CASE PickN(p)
      BY <3>10, PickNPace
    <3>11. CASE Choose(p)
      BY <3>11, ChoosePace
    <3> QED BY <2>1, <3>1, <3>2, <3>3, <3>4, <3>5, <3>6, <3>7, <3>8, <3>9, <3>10, <3>11 DEF Evaluate
  <2>2. CASE UNCHANGED vars
    BY <2>2, PaceSame
  <2> QED BY <2>1, <2>2 DEF Next, Returned
<1> QED BY <1>1, <1>2, PTL DEF Spec

(* Two players at levels a and b, and at places m and n of them *)
LEMMA Drift ==
  ASSUME NEW a \in Int, NEW b \in Int, NEW m \in 7 .. 12, NEW n \in 7 .. 12,
         NEW u \in Nat, NEW v \in Nat,
         u = 8 * (a - 1) + (IF m > 7 THEN 4 ELSE 0) + (IF m > 10 THEN 4 ELSE 0)
               - (8 * (b - 1) + (IF n > 8 THEN 2 ELSE 0) + (IF n > 9 THEN 2 ELSE 0) + (IF n > 11 THEN 2 ELSE 0)),
         v = 10 * (b - 1) + (IF n > 7 THEN 4 ELSE 0) + (IF n > 10 THEN 6 ELSE 0)
               - (10 * (a - 1) + (IF m > 8 THEN 2 ELSE 0) + (IF m > 9 THEN 2 ELSE 0) + (IF m > 11 THEN 3 ELSE 0))
  PROVE  a - b \in -1 .. 1 /\ b - a \in -1 .. 1 /\ u <= 8 /\ v <= 10
OBVIOUS

(* What waits between a player on the walk, or at its end, and the next one *)
LEMMA Between ==
  ASSUME PaceInv, NEW p \in Player, Place(pc[p]) \in 7 .. 12, Place(pc[Suc(p)]) \in 7 .. 12
  PROVE  LET q == Suc(p)
             a == level[p]
             b == level[q]
             m == Place(pc[p])
             n == Place(pc[q])
         IN  /\ a \in Int /\ b \in Int /\ Waiting(p, q) \in Nat /\ Waiting(q, p) \in Nat
             /\ Waiting(p, q) =
                  8 * (a - 1) + (IF m > 7 THEN 4 ELSE 0) + (IF m > 10 THEN 4 ELSE 0)
                    - (8 * (b - 1) + (IF n > 8 THEN 2 ELSE 0) + (IF n > 9 THEN 2 ELSE 0) + (IF n > 11 THEN 2 ELSE 0))
             /\ Waiting(q, p) =
                  10 * (b - 1) + (IF n > 7 THEN 4 ELSE 0) + (IF n > 10 THEN 6 ELSE 0)
                    - (10 * (a - 1) + (IF m > 8 THEN 2 ELSE 0) + (IF m > 9 THEN 2 ELSE 0) + (IF m > 11 THEN 3 ELSE 0))
<1> DEFINE q == Suc(p)
           a == level[p]
           b == level[q]
           m == Place(pc[p])
           n == Place(pc[q])
<1>1. q \in Player /\ Pre(q) = p /\ Suc(p) = q
  BY Ring
<1>2. /\ Waiting(p, q) = SentToSuc(p) - TakenFromPre(q)
      /\ Waiting(q, p) = SentToPre(q) - TakenFromSuc(p)
  BY <1>1 DEF PaceInv, Counts
<1>3. a \in Int /\ b \in Int /\ Waiting(p, q) \in Nat /\ Waiting(q, p) \in Nat
  BY <1>1 DEF PaceInv, PaceOK, Queues, Waiting
<1>4. m \in 7 .. 12 /\ n \in 7 .. 12 /\ Deep \in Int /\ IcCount \in Int
  BY SizesAssumption DEF IcCount
<1>5. PICK d \in Int, e \in Int : d = Deal(p) /\ e = Deal(q)
  BY DEF Deal
<1>6. SentToSuc(p) = d + Deep + Deep + IcCount + 8 * (a - 1)
                       + (IF m > 7 THEN 4 ELSE 0) + (IF m > 10 THEN 4 ELSE 0)
  BY <1>4, <1>5 DEF SentToSuc, Once, Deal
<1>7. TakenFromPre(q) = d + Deep + Deep + IcCount + 8 * (b - 1)
        + (IF n > 8 THEN 2 ELSE 0) + (IF n > 9 THEN 2 ELSE 0) + (IF n > 11 THEN 2 ELSE 0)
  BY <1>1, <1>4, <1>5 DEF TakenFromPre, Once, Deal
<1>8. SentToPre(q) = e + Deep + Deep + IcCount + 10 * (b - 1)
                       + (IF n > 7 THEN 4 ELSE 0) + (IF n > 10 THEN 6 ELSE 0)
  BY <1>4, <1>5 DEF SentToPre, Once, Deal
<1>9. TakenFromSuc(p) = e + Deep + Deep + IcCount + 10 * (a - 1)
        + (IF m > 8 THEN 2 ELSE 0) + (IF m > 9 THEN 2 ELSE 0) + (IF m > 11 THEN 3 ELSE 0)
  BY <1>1, <1>4, <1>5 DEF TakenFromSuc, Once, Deal
<1> HIDE DEF q, a, b, m, n
<1>10. /\ Waiting(p, q) =
            8 * (a - 1) + (IF m > 7 THEN 4 ELSE 0) + (IF m > 10 THEN 4 ELSE 0)
              - (8 * (b - 1) + (IF n > 8 THEN 2 ELSE 0) + (IF n > 9 THEN 2 ELSE 0) + (IF n > 11 THEN 2 ELSE 0))
  BY <1>2, <1>3, <1>4, <1>6, <1>7
<1>11. Waiting(q, p) =
            10 * (b - 1) + (IF n > 7 THEN 4 ELSE 0) + (IF n > 10 THEN 6 ELSE 0)
              - (10 * (a - 1) + (IF m > 8 THEN 2 ELSE 0) + (IF m > 9 THEN 2 ELSE 0) + (IF m > 11 THEN 3 ELSE 0))
  BY <1>2, <1>3, <1>4, <1>8, <1>9
<1> QED BY <1>3, <1>10, <1>11 DEF q, a, b, m, n

LEMMA WalkingPlace ==
  ASSUME PaceInv, NEW p \in Player, Walking(p) \/ pc[p] = << "done" >>
  PROVE  Place(pc[p]) \in 7 .. 12
<1>1. pc[p] \in Steps
  BY DEF PaceInv, PaceOK
<1>2. \A s \in Steps : s[1] \in {"ask", "pick", "choose", "chosen", "done"} => Place(s) \in 7 .. 12
  <2> DEFINE Late == { << "ask" >>, << "pick", "x" >>, << "pick", "n" >>, << "choose" >>,
                       << "chosen", "x" >>, << "chosen", "n" >>, << "done" >> }
  <2>1. \A s \in Steps : s[1] \in {"ask", "pick", "choose", "chosen", "done"} => s \in Late
    <3> DEFINE Early == { << "deposit" >>, << "keys", "x" >>, << "take", "x" >>, << "keys", "n" >>,
                          << "take", "n" >>, << "ic" >>, << "take ic" >> }
    <3>1. \A s \in Steps : s \in Late \/ s \in Early
      BY DEF Steps
    <3>2. \A s \in Early : s[1] \in {"deposit", "keys", "take", "ic", "take ic"}
      <4>1. /\ << "deposit" >>[1] = "deposit" /\ << "keys", "x" >>[1] = "keys" /\ << "take", "x" >>[1] = "take"
            /\ << "keys", "n" >>[1] = "keys" /\ << "take", "n" >>[1] = "take"
            /\ << "ic" >>[1] = "ic" /\ << "take ic" >>[1] = "take ic"
        OBVIOUS
      <4> QED BY <4>1, Zenon
    <3> HIDE DEF Early, Late
    <3> QED BY <3>1, <3>2
  <2>2. \A s \in Late : Place(s) = 7 \/ Place(s) = 8 \/ Place(s) = 9 \/ Place(s) = 10
                          \/ Place(s) = 11 \/ Place(s) = 12
    BY Places
  <2> HIDE DEF Late
  <2>3. \A n : n = 7 \/ n = 8 \/ n = 9 \/ n = 10 \/ n = 11 \/ n = 12 => n \in 7 .. 12
    OBVIOUS
  <2> QED BY <2>1, <2>2, <2>3
<1>3. pc[p][1] \in {"ask", "pick", "choose", "chosen", "done"}
  BY DEF Walking
<1> QED BY <1>1, <1>2, <1>3

LEMMA DriftNext ==
  ASSUME PaceInv, NEW p \in Player, Walking(p), Walking(Suc(p))
  PROVE  /\ level[p] - level[Suc(p)] \in -1 .. 1 /\ level[Suc(p)] - level[p] \in -1 .. 1
         /\ Waiting(p, Suc(p)) <= 8 /\ Waiting(Suc(p), p) <= 10
<1>1. Place(pc[p]) \in 7 .. 12 /\ Place(pc[Suc(p)]) \in 7 .. 12
  BY WalkingPlace, Ring
<1> DEFINE a == level[p]
           b == level[Suc(p)]
           m == Place(pc[p])
           n == Place(pc[Suc(p)])
           u == Waiting(p, Suc(p))
           v == Waiting(Suc(p), p)
<1>2. /\ a \in Int /\ b \in Int /\ m \in 7 .. 12 /\ n \in 7 .. 12 /\ u \in Nat /\ v \in Nat
      /\ u = 8 * (a - 1) + (IF m > 7 THEN 4 ELSE 0) + (IF m > 10 THEN 4 ELSE 0)
               - (8 * (b - 1) + (IF n > 8 THEN 2 ELSE 0) + (IF n > 9 THEN 2 ELSE 0) + (IF n > 11 THEN 2 ELSE 0))
      /\ v = 10 * (b - 1) + (IF n > 7 THEN 4 ELSE 0) + (IF n > 10 THEN 6 ELSE 0)
               - (10 * (a - 1) + (IF m > 8 THEN 2 ELSE 0) + (IF m > 9 THEN 2 ELSE 0) + (IF m > 11 THEN 3 ELSE 0))
  BY <1>1, Between
<1> HIDE DEF a, b, m, n, u, v
<1>3. a - b \in -1 .. 1 /\ b - a \in -1 .. 1 /\ u <= 8 /\ v <= 10
  BY <1>2, Drift
<1> QED BY <1>3 DEF a, b, u, v

(* Sent and not received, in the end nothing; on the walk at most the words *)
(* of one level; the players at most a level apart (InStep)                 *)
THEOREM Pace == Spec => []InStep
<1>1. PaceInv => InStep
  <2> SUFFICES ASSUME PaceInv PROVE InStep
    OBVIOUS
  <2>1. ASSUME Done, NEW p \in Player, NEW q \in Player
        PROVE  chan[p][q] = << >>
    <3>1. PICK S : chan \in Queues(S)
      BY DEF PaceInv, PaceOK
    <3>2. \A r \in Player : pc[r] = << "done" >> /\ Place(pc[r]) = 10 /\ level[r] = Deep
      BY <2>1, Places DEF Done, PaceInv, PaceOK
    <3>3. ASSUME NEW r \in Player
          PROVE  Waiting(r, Suc(r)) = 0 /\ Waiting(Suc(r), r) = 0
      <4>1. /\ Place(pc[r]) = 10 /\ Place(pc[Suc(r)]) = 10
            /\ level[r] = Deep /\ level[Suc(r)] = Deep
        BY <3>2, Ring
      <4>2. 10 \in 7 .. 12 /\ Deep \in Int
        BY SizesAssumption
      <4>3. /\ Waiting(r, Suc(r)) = 8 * (Deep - 1) + 4 + 0 - (8 * (Deep - 1) + 2 + 2 + 0)
            /\ Waiting(Suc(r), r) = 10 * (Deep - 1) + 4 + 0 - (10 * (Deep - 1) + 2 + 2 + 0)
        <5>1. Place(pc[r]) \in 7 .. 12 /\ Place(pc[Suc(r)]) \in 7 .. 12
          BY <4>1, <4>2
        <5> QED BY <4>1, <5>1, Between
      <4> QED BY <4>2, <4>3
    <3>4. Waiting(p, q) = 0
      <4>1. CASE q = p
        BY <4>1 DEF PaceInv, Counts
      <4>2. CASE q = Suc(p)
        BY <3>3, <4>2
      <4>3. CASE q = Pre(p)
        <5>1. p = Suc(q)
          BY <4>3, Ring
        <5> QED BY <3>3, <5>1
      <4> QED BY <4>1, <4>2, <4>3, Ring
    <3> QED BY <3>1, <3>4 DEF Waiting, Queues
  <2>2. ASSUME NEW p \in Player, NEW q \in Player, Walking(p), Walking(q)
        PROVE  /\ level[p] - level[q] \in -1 .. 1
               /\ Len(chan[p][q]) <= IF q = Suc(p) THEN 8 ELSE 10
    <3>1. CASE q = p
      <4>1. Len(chan[p][q]) = 0 /\ level[p] \in Int
        BY <3>1 DEF PaceInv, PaceOK, Counts, Waiting
      <4> QED BY <3>1, <4>1
    <3>2. CASE q = Suc(p)
      BY <2>2, <3>2, DriftNext DEF Waiting
    <3>3. CASE q = Pre(p)
      <4>1. p = Suc(q) /\ q # Suc(p)
        BY <3>3, Ring
      <4>2. level[p] - level[q] \in -1 .. 1 /\ Waiting(p, q) <= 10
        BY <2>2, <4>1, DriftNext
      <4> QED BY <4>1, <4>2 DEF Waiting
    <3> QED BY <3>1, <3>2, <3>3, Ring
  <2> QED BY <2>1, <2>2 DEF InStep
<1> QED BY <1>1, PaceInductive, PTL

-------------------------------------------------------------------------------
(* What is drawn, and sums over the players *)

LEMMA Drawn ==
  ASSUME NEW s \in Seeds, NEW obj \in Object,
         NEW kind \in {"pad", "pair", "fili", "rou", "z", "zeta"},
         NEW a \in Word, NEW b \in 0 .. Deep, NEW c \in Player
  PROVE  Random(s, << obj, kind, a, b, c >>) \in Nat
<1>1. << obj, kind, a, b, c >> \in Tag
  BY DEF Tag
<1> QED BY <1>1, RandomAssumption

LEMMA Objects ==
  /\ \A o \in {"x", "n"} : SotName(o) \in Object
  /\ \A o \in {"x", "n"}, l \in 0 .. Deep : CsotName(o, l) \in Object
  /\ \A f \in {"nl", "nr", "xl", "xr", "t", "v", "start"}, k \in {0, 1} : << "deposit", f, k >> \in Object
  /\ \A p \in Player : << "features", "x", p >> \in Object
<1>1. 0 \in 0 .. Deep
  BY SizesAssumption
<1> QED BY <1>1 DEF Object, SotName, CsotName

LEMMA Small3 ==
  /\ Player \subseteq Word /\ NodeIds \subseteq Word /\ FeatIds \subseteq Word /\ Word \subseteq Int
  /\ Nodes \in Nat \ {0} /\ Feats \in Nat \ {0} /\ 0 \in Word /\ 0 \in Player /\ W \in Nat \ {0}
BY Width, SizesAssumption DEF Player, NodeIds, FeatIds, Word

(* A sum over the players is the same from any one of them on *)
LEMMA Round ==
  ASSUME NEW f, \A p \in Player : f[p] \in Int, NEW p \in Player
  PROVE  Sum(f) \in Int /\ f[p] + f[Suc(p)] + f[Pre(p)] = Sum(f)
<1>1. /\ f[0] \in Int /\ f[1] \in Int /\ f[2] \in Int
  BY DEF Player
<1>2. /\ Suc(0) = 1 /\ Suc(1) = 2 /\ Suc(2) = 0
      /\ Pre(0) = 2 /\ Pre(1) = 0 /\ Pre(2) = 1
  BY DEF Suc, Pre
<1>3. p = 0 \/ p = 1 \/ p = 2
  BY DEF Player
<1> QED BY <1>1, <1>2, <1>3 DEF Sum

(* Sums over the players of what is the same modulo M are the same modulo M *)
LEMMA RoundSame ==
  ASSUME NEW M \in Nat \ {0}, NEW f, NEW g,
         \A p \in Player : f[p] \in Int /\ g[p] \in Int /\ Same(M, f[p], g[p])
  PROVE  Same(M, Sum(f), Sum(g)) /\ Sum(f) \in Int /\ Sum(g) \in Int
<1>1. /\ f[0] \in Int /\ f[1] \in Int /\ f[2] \in Int /\ g[0] \in Int /\ g[1] \in Int /\ g[2] \in Int
      /\ Same(M, f[0], g[0]) /\ Same(M, f[1], g[1]) /\ Same(M, f[2], g[2])
  BY DEF Player
<1>2. f[0] + f[1] \in Int /\ g[0] + g[1] \in Int
  BY <1>1
<1>3. Same(M, f[0] + f[1], g[0] + g[1])
  BY <1>1, SamePlus
<1>4. Same(M, (f[0] + f[1]) + f[2], (g[0] + g[1]) + g[2])
  BY <1>1, <1>2, <1>3, SamePlus
<1> QED BY <1>1, <1>4 DEF Sum

-------------------------------------------------------------------------------
(* SOT: the distance of the position from the filis *)

SotDelta(s, o, idx, l, i, p) == MyDelta(s, SotName(o), p, i, idx[p], l, LenOf(o))
SotDeltas(s, o, idx, l) == [i \in Player |-> [p \in Player |-> SotDelta(s, o, idx, l, i, p)]]
FiliOf(s, o, l, i) == Fili(s, SotName(o), i, l, LenOf(o))

LEMMA LenIs ==
  ASSUME NEW o \in {"x", "n"}
  PROVE  LenOf(o) \in Nat \ {0} /\ LenOf(o) \in Int /\ LenOf(o) <= W
BY Small3, SizesAssumption DEF LenOf

LEMMA FiliIs ==
  ASSUME NEW s \in Seeds, NEW o \in {"x", "n"}, NEW l \in 0 .. Deep, NEW i \in Player
  PROVE  FiliOf(s, o, l, i) \in 0 .. (LenOf(o) - 1) /\ FiliOf(s, o, l, i) \in Word
<1>1. Random(s, << SotName(o), "fili", i, l, 0 >>) \in Nat
  BY Drawn, Objects, Small3
<1>2. FiliOf(s, o, l, i) \in 0 .. (LenOf(o) - 1)
  <2> DEFINE r == Random(s, << SotName(o), "fili", i, l, 0 >>)
             N == LenOf(o)
  <2>1. FiliOf(s, o, l, i) = r % N
    BY DEF FiliOf, Fili
  <2>2. r \in Int /\ N \in Nat \ {0}
    BY <1>1, LenIs
  <2> HIDE DEF r, N
  <2>3. r % N \in 0 .. (N - 1)
    BY <2>2, Division
  <2> QED BY <2>1, <2>3 DEF N
<1> QED BY <1>2, LenIs, Width DEF Word

LEMMA SumsAdd ==
  ASSUME NEW f, NEW g, NEW h, \A p \in Player : f[p] \in Int /\ g[p] \in Int /\ h[p] = f[p] + g[p]
  PROVE  Sum(h) = Sum(f) + Sum(g)
<1>1. /\ f[0] \in Int /\ f[1] \in Int /\ f[2] \in Int /\ g[0] \in Int /\ g[1] \in Int /\ g[2] \in Int
      /\ h[0] = f[0] + g[0] /\ h[1] = f[1] + g[1] /\ h[2] = f[2] + g[2]
  BY DEF Player
<1> QED BY <1>1 DEF Sum

LEMMA SumsSubtract ==
  ASSUME NEW f, NEW g, NEW h, \A p \in Player : f[p] \in Int /\ g[p] \in Int /\ h[p] = f[p] - g[p]
  PROVE  Sum(h) = Sum(f) - Sum(g)
<1>1. /\ f[0] \in Int /\ f[1] \in Int /\ f[2] \in Int /\ g[0] \in Int /\ g[1] \in Int /\ g[2] \in Int
      /\ h[0] = f[0] - g[0] /\ h[1] = f[1] - g[1] /\ h[2] = f[2] - g[2]
  BY DEF Player
<1> QED BY <1>1 DEF Sum

LEMMA SotDistance ==
  ASSUME NEW s \in Seeds, NEW o \in {"x", "n"}, NEW idx, \A p \in Player : idx[p] \in Int,
         NEW l \in 0 .. Deep, NEW i \in Player
  PROVE  Delta(SotDeltas(s, o, idx, l), i, LenOf(o)) = (Sum(idx) - FiliOf(s, o, l, i)) % LenOf(o)
<1> DEFINE N == LenOf(o)
           m == [p \in Player |-> MaskW0(s, SotName(o), p, l, i) % N]
           n == [p \in Player |-> m[Pre(p)]]
           h == [p \in Player |-> IF i = p THEN FiliOf(s, o, l, i) ELSE 0]
           d == [p \in Player |-> SotDelta(s, o, idx, l, i, p)]
           e == [p \in Player |-> idx[p] + N - m[p] + n[p] - h[p]]
<1>1. N \in Nat \ {0} /\ N \in Int
  BY LenIs
<1>2. ASSUME NEW p \in Player
      PROVE  m[p] \in Int /\ n[p] \in Int /\ h[p] \in Int
  <2>1. \A q \in Player : MaskW0(s, SotName(o), q, l, i) \in Nat
    BY Drawn, Objects, Small3 DEF MaskW0
  <2>2. \A q \in Player : MaskW0(s, SotName(o), q, l, i) % N \in Int
    BY <1>1, <2>1, SameMod
  <2>3. Pre(p) \in Player
    BY Ring
  <2>4. h[p] \in Int
    BY FiliIs, Small3
  <2> QED BY <2>2, <2>3, <2>4
<1>3. ASSUME NEW p \in Player
      PROVE  e[p] \in Int /\ d[p] \in Int /\ Same(N, d[p], e[p])
  <2>1. e[p] \in Int
    <3> HIDE DEF m, n, h, N
    <3> QED BY <1>1, <1>2
  <2>2. d[p] = e[p] % N
    <3>1. Pre(p) \in Player
      BY Ring
    <3> QED BY <3>1 DEF SotDelta, MyDelta, MaskW1, FiliOf
  <2> HIDE DEF d, e, N
  <2> QED BY <1>1, <2>1, <2>2, SameMod
<1>4. Sum(h) = FiliOf(s, o, l, i)
  <2>1. FiliOf(s, o, l, i) \in Int
    BY FiliIs, Small3
  <2>2. i = 0 \/ i = 1 \/ i = 2
    BY DEF Player
  <2>3. h[0] = (IF i = 0 THEN FiliOf(s, o, l, i) ELSE 0) /\ h[1] = (IF i = 1 THEN FiliOf(s, o, l, i) ELSE 0)
        /\ h[2] = (IF i = 2 THEN FiliOf(s, o, l, i) ELSE 0)
    BY DEF Player
  <2> HIDE DEF h
  <2> QED BY <2>1, <2>2, <2>3 DEF Sum
<1>5. Sum(n) = Sum(m)
  <2>1. n[0] = m[2] /\ n[1] = m[0] /\ n[2] = m[1]
    BY DEF Player, Pre
  <2>2. m[0] \in Int /\ m[1] \in Int /\ m[2] \in Int
    BY <1>2 DEF Player
  <2> HIDE DEF m, n
  <2> QED BY <2>1, <2>2 DEF Sum
<1> DEFINE j == [p \in Player |-> idx[p] + N]
           k == [p \in Player |-> j[p] - m[p]]
           f == [p \in Player |-> k[p] + n[p]]
<1>6. Sum(e) = Sum(idx) - Sum(h) + N * 3
  <2>1. \A p \in Player : /\ j[p] = idx[p] + N /\ k[p] = j[p] - m[p] /\ f[p] = k[p] + n[p] /\ e[p] = f[p] - h[p]
    <3> SUFFICES ASSUME NEW p \in Player
                 PROVE  j[p] = idx[p] + N /\ k[p] = j[p] - m[p] /\ f[p] = k[p] + n[p] /\ e[p] = f[p] - h[p]
      OBVIOUS
    <3> HIDE DEF m, n, h, N
    <3>1. j[p] = idx[p] + N /\ e[p] = idx[p] + N - m[p] + n[p] - h[p]
      OBVIOUS
    <3> HIDE DEF e, j
    <3>2. k[p] = j[p] - m[p]
      OBVIOUS
    <3> HIDE DEF k
    <3>3. f[p] = k[p] + n[p]
      OBVIOUS
    <3> HIDE DEF f
    <3>4. idx[p] \in Int /\ m[p] \in Int /\ n[p] \in Int /\ h[p] \in Int /\ N \in Int
      BY <1>1, <1>2
    <3> QED BY <3>1, <3>2, <3>3, <3>4
  <2> HIDE DEF m, n, h, e, N, j, k, f
  <2>2. \A p \in Player : j[p] \in Int
    BY <1>1, <2>1
  <2>3. \A p \in Player : k[p] \in Int
    BY <1>2, <2>1, <2>2
  <2>4. \A p \in Player : f[p] \in Int
    BY <1>2, <2>1, <2>3
  <2>5. Sum(k) = Sum(j) - Sum(m) /\ Sum(f) = Sum(k) + Sum(n) /\ Sum(e) = Sum(f) - Sum(h)
    BY <1>2, <2>1, <2>2, <2>3, <2>4, SumsAdd, SumsSubtract
  <2>6. Sum(j) = Sum(idx) + N * 3
    <3>1. /\ idx[0] \in Int /\ idx[1] \in Int /\ idx[2] \in Int
          /\ j[0] = idx[0] + N /\ j[1] = idx[1] + N /\ j[2] = idx[2] + N
      BY <2>1 DEF Player
    <3> QED BY <1>1, <3>1 DEF Sum
  <2>7. Sum(j) \in Int /\ Sum(m) \in Int /\ Sum(h) \in Int /\ Sum(idx) \in Int
    BY <1>2, <2>2, Round
  <2> QED BY <1>1, <1>5, <2>5, <2>6, <2>7
<1> HIDE DEF m, n, h, e, N, j, k, f
<1>7. Same(N, Sum(d), Sum(e)) /\ Sum(d) \in Int /\ Sum(e) \in Int
  <2> HIDE DEF d
  <2> QED BY <1>1, <1>3, RoundSame
<1>8. Sum(idx) \in Int /\ FiliOf(s, o, l, i) \in Int
  BY Round, FiliIs, Small3
<1>9. Same(N, Sum(e), Sum(idx) - FiliOf(s, o, l, i))
  <2>1. Sum(e) = (Sum(idx) - FiliOf(s, o, l, i)) + N * 3
    BY <1>1, <1>4, <1>6, <1>8
  <2>2. Sum(idx) - FiliOf(s, o, l, i) \in Int /\ 3 \in Int
    BY <1>8
  <2> QED BY <1>1, <1>7, <2>1, <2>2, SameShift
<1>10. Same(N, Sum(d), Sum(idx) - FiliOf(s, o, l, i))
  BY <1>7, <1>9, SameTrans
<1>11. Delta(SotDeltas(s, o, idx, l), i, N) = Sum(d) % N
  BY DEF Delta, SotDeltas, Sum, Player
<1> QED BY <1>10, <1>11 DEF Same, N

-------------------------------------------------------------------------------
(* SOT: what the two holders of a key make of a list *)

LEMMA PointIs ==
  ASSUME NEW at \in Word, NEW pad \in Word, NEW i \in Word
  PROVE  /\ EqEval(PointKey(TRUE, at, pad), i) \in Int /\ EqEval(PointKey(FALSE, at, pad), i) \in Int
         /\ i # at => EqEval(PointKey(TRUE, at, pad), i) = EqEval(PointKey(FALSE, at, pad), i)
<1> DEFINE x == LeafSeed(PointKey(TRUE, at, pad), i)
           z == LeafSeed(PointKey(FALSE, at, pad), i)
           w == Factor(at, pad)
<1>1. /\ x \in Nat /\ z \in Nat /\ w \in Nat /\ Prime \in Nat \ {0}
      /\ i # at => x = z
  <2>1. at \in Word /\ pad \in Word /\ i \in Word /\ TRUE \in BOOLEAN /\ FALSE \in BOOLEAN
    OBVIOUS
  <2> QED BY ONLY <2>1, PointAssumption DEF x, z, w
<1>2. /\ EqEval(PointKey(TRUE, at, pad), i) = ((x * w) % Prime) % W
      /\ EqEval(PointKey(FALSE, at, pad), i) = ((z * w) % Prime) % W
  BY DEF EqEval, PointKey
<1> HIDE DEF x, z, w
<1> DEFINE a == x * w
           b == z * w
<1>3. a \in Int /\ b \in Int
  BY <1>1
<1> HIDE DEF a, b
<1>4. a % Prime \in Int /\ b % Prime \in Int
  BY <1>1, <1>3, SameMod
<1>5. (a % Prime) % W \in Int /\ (b % Prime) % W \in Int
  BY <1>4, Width, SameMod
<1> QED BY <1>1, <1>2, <1>5 DEF a, b

(* What a share v counts for: Gained of TreeWalk, for a pair of keys        *)
Gain(v, at, pad, M) ==
  (((v * EqEval(PointKey(TRUE, at, pad), at)) % W) % M)
    - (((v * EqEval(PointKey(FALSE, at, pad), at)) % W) % M)

Turnable(N, M, list, f, at, pad, shift) ==
  /\ N \in Nat \ {0} /\ N <= W /\ M \in Nat \ {0}
  /\ \A i \in 0 .. (N - 1) : list[i][f] \in Int
  /\ at \in 0 .. (N - 1) /\ pad \in Word /\ shift \in Int

Paired(N, M, list, f, at, pad, shift) ==
  LET fst == Turned(list, PointKey(TRUE, at, pad), shift, N, f, M)
      snd == Turned(list, PointKey(FALSE, at, pad), shift, N, f, M)
  IN  fst \in Int /\ snd \in Int /\ fst - snd = Gain(list[(at + shift) % N][f], at, pad, M)

(* The two sums over a list differ by what the element at the hidden        *)
(* position counts for                                                      *)
LEMMA TurnedPair ==
  ASSUME NEW N, NEW M, NEW list, NEW f, NEW at, NEW pad, NEW shift,
         Turnable(N, M, list, f, at, pad, shift)
  PROVE  Paired(N, M, list, f, at, pad, shift)
<1> USE DEF Turnable
<1> DEFINE S == 0 .. (N - 1)
           v(i) == list[(i + shift) % N][f]
           a(i) == EqEval(PointKey(TRUE, at, pad), i)
           b(i) == EqEval(PointKey(FALSE, at, pad), i)
           x == [i \in S |-> ((v(i) * a(i)) % W) % M]
           z == [i \in S |-> ((v(i) * b(i)) % W) % M]
           g == [i \in S |-> x[i] - z[i]]
<1>1. IsFiniteSet(S) /\ at \in S /\ S \subseteq Word
  <2>1. 0 \in Int /\ N - 1 \in Int
    OBVIOUS
  <2>2. IsFiniteSet(S)
    BY <2>1, FS_Interval
  <2> QED BY <2>2, Width DEF Word
<1>2. ASSUME NEW i \in S
      PROVE  v(i) \in Int
  <2>1. (i + shift) % N \in 0 .. (N - 1)
    <3>1. i + shift \in Int
      OBVIOUS
    <3> QED BY <3>1, Division
  <2> QED BY <2>1
<1>3. ASSUME NEW i \in S
      PROVE  a(i) \in Int /\ b(i) \in Int /\ (i # at => a(i) = b(i))
  <2>1. i \in Word /\ at \in Word
    BY <1>1
  <2> QED BY <2>1, PointIs
<1>4. ASSUME NEW i \in S
      PROVE  /\ x[i] \in Int /\ z[i] \in Int /\ g[i] \in Int
             /\ g[i] = x[i] - z[i] /\ (i # at => g[i] = 0)
  <2> HIDE DEF a, b, v
  <2>1. v(i) \in Int /\ a(i) \in Int /\ b(i) \in Int
    BY <1>2, <1>3
  <2> DEFINE c == v(i) * a(i)
             d == v(i) * b(i)
  <2>2. c \in Int /\ d \in Int
    BY <2>1
  <2>3. i # at => c = d
    BY <1>3
  <2>4. x[i] = (c % W) % M /\ z[i] = (d % W) % M /\ g[i] = x[i] - z[i]
    OBVIOUS
  <2> HIDE DEF c, d, x, z, g
  <2>5. c % W \in Int /\ d % W \in Int
    BY <2>2, Width, SameMod
  <2>6. (c % W) % M \in Int /\ (d % W) % M \in Int
    BY <2>5, SameMod
  <2> QED BY <2>3, <2>4, <2>6
<1>5. g[at] = Gain(v(at), at, pad, M)
  BY <1>1 DEF Gain
<1>6. /\ Turned(list, PointKey(TRUE, at, pad), shift, N, f, M) = SumFunctionOnSet(x, S)
      /\ Turned(list, PointKey(FALSE, at, pad), shift, N, f, M) = SumFunctionOnSet(z, S)
  BY DEF Turned
<1>7. v(at) = list[(at + shift) % N][f]
  OBVIOUS
<1> HIDE DEF S, v, a, b, x, z, g
<1>8. SumFunctionOnSet(x, S) \in Int /\ SumFunctionOnSet(z, S) \in Int
  BY <1>1, <1>4, SumInt
<1>9. SumFunctionOnSet(g, S) = SumFunctionOnSet(x, S) - SumFunctionOnSet(z, S)
  BY <1>1, <1>4, SumDiff
<1>10. SumFunctionOnSet(g, S) = g[at]
  <2>1. IsFiniteSet(S) /\ at \in S /\ g[at] \in Int /\ \A i \in S \ {at} : g[i] = 0
    BY <1>1, <1>4
  <2> QED BY ONLY <2>1, SumOnly
<1> QED BY <1>5, <1>6, <1>7, <1>8, <1>9, <1>10 DEF Paired

LEMMA Turnings ==
  ASSUME NEW f, \A p \in Player : f[p] \in Int
  PROVE  /\ Sum([p \in Player |-> f[Suc(p)]]) = Sum(f)
         /\ Sum([p \in Player |-> f[Pre(p)]]) = Sum(f)
<1>1. /\ f[0] \in Int /\ f[1] \in Int /\ f[2] \in Int
      /\ Suc(0) = 1 /\ Suc(1) = 2 /\ Suc(2) = 0
      /\ Pre(0) = 2 /\ Pre(1) = 0 /\ Pre(2) = 1
      /\ 0 \in Player /\ 1 \in Player /\ 2 \in Player
  BY DEF Player, Suc, Pre
<1> QED BY <1>1 DEF Sum

(* What the three players answer in one SOT *)
AnswersOf(Y, at, pad, D, N, mod) ==
  [p \in Player |->
     Answer(p, Y[Suc(p)], Y[Pre(p)], PointKey(FALSE, at[Suc(p)], pad[Suc(p)]),
            PointKey(TRUE, at[Pre(p)], pad[Pre(p)]), D, N, mod)]

(* Lists Y of N elements, the point keys at and pad of the three players,   *)
(* distances D of the position X from the points; u are field f of the      *)
(* answers, v what that of the elements at the position counts for          *)
Selects(N, X, D, at, pad, mod, f, Y, u, v) ==
  /\ N \in Nat \ {0} /\ N <= W /\ X \in Int
  /\ at \in [Player -> 0 .. (N - 1)] /\ pad \in [Player -> Word]
  /\ \A d \in Player : Delta(D, d, N) = (X - at[d]) % N
  /\ f \in DOMAIN mod /\ mod[f] \in Nat \ {0}
  /\ \A d \in Player, i \in 0 .. (N - 1) : Y[d][i][f] \in Int
  /\ \A p \in Player : u[p] = AnswersOf(Y, at, pad, D, N, mod)[p][f]
  /\ \A d \in Player : v[d] = Gain(Y[d][X % N][f], at[d], pad[d], mod[f])

(* SOT selects (online_2 of sot.hpp): the players' answers add up to what   *)
(* the shares of the element at the position count for, and nothing of any  *)
(* other element is in them, for every length of the list, range of the     *)
(* elements, position, hidden point and key.                                *)
THEOREM Selection ==
  ASSUME NEW N, NEW X, NEW D, NEW at, NEW pad, NEW mod, NEW f, NEW Y, NEW u, NEW v,
         Selects(N, X, D, at, pad, mod, f, Y, u, v)
  PROVE  (\A p \in Player : u[p] \in 0 .. (mod[f] - 1)) /\ Same(mod[f], Sum(u), Sum(v))
<1> USE DEF Selects
<1> DEFINE M == mod[f]
           A == AnswersOf(Y, at, pad, D, N, mod)
           fst == [d \in Player |-> Turned(Y[d], PointKey(TRUE, at[d], pad[d]), Delta(D, d, N), N, f, M)]
           snd == [d \in Player |-> Turned(Y[d], PointKey(FALSE, at[d], pad[d]), Delta(D, d, N), N, f, M)]
           a == [p \in Player |-> A[p][f]]
           b == [p \in Player |-> fst[Pre(p)]]
           c == [p \in Player |-> snd[Suc(p)]]
           e == [p \in Player |-> b[p] - c[p]]
           g == [d \in Player |-> fst[d] - snd[d]]
           h == [d \in Player |-> Gain(Y[d][X % N][f], at[d], pad[d], M)]
<1>0. M \in Nat \ {0}
  OBVIOUS
<1>1. ASSUME NEW d \in Player
      PROVE  fst[d] \in Int /\ snd[d] \in Int /\ fst[d] - snd[d] = h[d] /\ h[d] \in Int
  <2>1. (X - at[d]) % N \in Int /\ at[d] \in 0 .. (N - 1) /\ X - at[d] \in Int
    <3>1. at[d] \in 0 .. (N - 1) /\ X - at[d] \in Int
      OBVIOUS
    <3> QED BY <3>1, SameMod
  <2> DEFINE k == Delta(D, d, N)
  <2>2. k = (X - at[d]) % N /\ k \in Int
    BY <2>1
  <2>3. /\ fst[d] \in Int /\ snd[d] \in Int
        /\ fst[d] - snd[d] = Gain(Y[d][(at[d] + k) % N][f], at[d], pad[d], M)
    <3>1. /\ pad[d] \in Word /\ \A i \in 0 .. (N - 1) : Y[d][i][f] \in Int
          /\ N \in Nat \ {0} /\ N <= W
      OBVIOUS
    <3> HIDE DEF k, M
    <3> DEFINE list == Y[d]
               r == at[d]
    <3>4. Turnable(N, M, list, f, r, pad[d], k)
      BY <1>0, <2>1, <2>2, <3>1 DEF Turnable
    <3> HIDE DEF list, r
    <3>5. Paired(N, M, list, f, r, pad[d], k)
      BY ONLY <3>4, TurnedPair
    <3>2. /\ Turned(Y[d], PointKey(TRUE, at[d], pad[d]), k, N, f, M) \in Int
          /\ Turned(Y[d], PointKey(FALSE, at[d], pad[d]), k, N, f, M) \in Int
          /\ Turned(Y[d], PointKey(TRUE, at[d], pad[d]), k, N, f, M)
               - Turned(Y[d], PointKey(FALSE, at[d], pad[d]), k, N, f, M)
               = Gain(Y[d][(at[d] + k) % N][f], at[d], pad[d], M)
      BY <3>5 DEF Paired, list, r
    <3>3. /\ fst[d] = Turned(Y[d], PointKey(TRUE, at[d], pad[d]), k, N, f, M)
          /\ snd[d] = Turned(Y[d], PointKey(FALSE, at[d], pad[d]), k, N, f, M)
      BY DEF k
    <3> QED BY <3>2, <3>3
  <2> HIDE DEF k
  <2>4. (at[d] + k) % N = X % N /\ X % N \in 0 .. (N - 1)
    <3> DEFINE t == X - at[d]
               r == at[d]
    <3>1. t \in Int /\ r \in Int /\ t + r = X
      BY <2>1
    <3>2. k = t % N
      BY <2>2
    <3> HIDE DEF t, r
    <3>3. Same(N, k, t) /\ Same(N, r, r)
      BY <3>1, <3>2, SameMod DEF Same
    <3>4. Same(N, r + k, r + t)
      BY <2>2, <3>1, <3>3, SamePlus
    <3>5. r + t = X
      BY <3>1
    <3> QED BY <3>4, <3>5, Division DEF Same, r
  <2>5. h[d] = Gain(Y[d][X % N][f], at[d], pad[d], M)
    OBVIOUS
  <2> HIDE DEF fst, snd, h, M
  <2> QED BY <2>3, <2>4, <2>5
<1>2. ASSUME NEW p \in Player
      PROVE  /\ b[p] \in Int /\ c[p] \in Int /\ e[p] \in Int /\ e[p] = b[p] - c[p]
             /\ a[p] \in 0 .. (M - 1) /\ a[p] \in Int /\ Same(M, a[p], e[p])
  <2>1. Suc(p) \in Player /\ Pre(p) \in Player
    BY Ring
  <2>2. b[p] = fst[Pre(p)] /\ c[p] = snd[Suc(p)] /\ e[p] = b[p] - c[p]
    OBVIOUS
  <2>3. A[p][f] = (fst[Pre(p)] - snd[Suc(p)]) % M
    BY <2>1 DEF AnswersOf, Answer
  <2>4. a[p] = A[p][f]
    OBVIOUS
  <2> HIDE DEF A, a, b, c, e, M, fst, snd
  <2>5. b[p] \in Int /\ c[p] \in Int
    BY <1>1, <2>1, <2>2
  <2>6. e[p] \in Int
    BY <2>2, <2>5
  <2>7. a[p] = e[p] % M
    BY <2>2, <2>3, <2>4
  <2>8. e[p] % M \in 0 .. (M - 1) /\ e[p] % M \in Int /\ Same(M, e[p] % M, e[p])
    BY <1>0, <2>6, SameMod
  <2> QED BY <2>2, <2>5, <2>6, <2>7, <2>8
<1>3. Sum(b) = Sum(fst) /\ Sum(c) = Sum(snd)
  <2> HIDE DEF fst, snd
  <2> QED BY <1>1, Turnings
<1>4. \A d \in Player : g[d] = fst[d] - snd[d]
  OBVIOUS
<1>5. A = AnswersOf(Y, at, pad, D, N, mod) /\ M = mod[f] /\ \A p \in Player : a[p] = A[p][f]
  OBVIOUS
<1> HIDE DEF A, M, fst, snd, a, b, c, e, g, h
<1>6. \A d \in Player : g[d] \in Int
  BY <1>1, <1>4
<1>7. Sum(e) = Sum(b) - Sum(c)
  BY <1>2, SumsSubtract
<1>8. Sum(g) = Sum(fst) - Sum(snd)
  BY <1>1, <1>4, SumsSubtract
<1>9. Same(M, Sum(a), Sum(e))
  BY <1>0, <1>2, RoundSame
<1>10. Sum(g) = Sum(h)
  <2>1. g[0] = h[0] /\ g[1] = h[1] /\ g[2] = h[2]
    BY <1>1, <1>4 DEF Player
  <2> QED BY <2>1 DEF Sum
<1>11. Same(M, Sum(a), Sum(h))
  BY <1>3, <1>7, <1>8, <1>9, <1>10
<1>12. \A p \in Player : u[p] = a[p] /\ v[p] = h[p]
  BY <1>5 DEF a, h
<1>13. Sum(u) = Sum(a) /\ Sum(v) = Sum(h)
  <2>1. u[0] = a[0] /\ u[1] = a[1] /\ u[2] = a[2] /\ v[0] = h[0] /\ v[1] = h[1] /\ v[2] = h[2]
    BY <1>12 DEF Player
  <2> QED BY <2>1 DEF Sum
<1> QED BY <1>2, <1>5, <1>11, <1>12, <1>13

-------------------------------------------------------------------------------
(* What is fixed for a walk: the run's numbers, the lists the SOTs select   *)
(* from - p has those of Suc(p) and Pre(p) - the shares of the start, and   *)
(* what the owner deposits                                                  *)

NodeList(d) == IF d = Suc(Owner) THEN Rest ELSE PadOf(IF d = Owner THEN 1 ELSE 0)
StartShare(mod, start, p) ==
  IF p = Owner THEN StartOf(mod, start) ELSE StartPad(IF p = Suc(Owner) THEN 0 ELSE 1, mod)

World ==
  [seed |-> seed,
   x |-> [d \in Player |-> FeatureShare(Suc(d))],
   n |-> [d \in Player |-> NodeList(d)],
   start |-> [ki |-> [p \in Player |-> StartShare(Feats, tree.start, p)],
              idi |-> [p \in Player |-> StartShare(Nodes, 0, p)],
              y |-> [p \in Player |-> 0]],
   toSuc |-> << PadOf(0), PadOf(1), StartPad(0, Nodes), StartPad(0, Feats) >>,
   toPre |-> << PadOf(1), Rest, StartPad(1, Nodes), StartPad(1, Feats) >>]

(* What the SOTs of level l give, when the players come to it holding h *)
PointPad(s, o, l, i) == Random(s, << SotName(o), "pad", i, l, 0 >>) % W
FilisOf(s, o, l) == [i \in Player |-> FiliOf(s, o, l, i)]
PointPads(s, o, l) == [i \in Player |-> PointPad(s, o, l, i)]
PickedX(w, h, l) ==
  AnswersOf(w.x, FilisOf(w.seed, "x", l), PointPads(w.seed, "x", l),
            SotDeltas(w.seed, "x", h.ki, l), Feats, FeatMod)
PickedN(w, h, l) ==
  AnswersOf(w.n, FilisOf(w.seed, "n", l), PointPads(w.seed, "n", l),
            SotDeltas(w.seed, "n", h.idi, l), Nodes, NodeMod)

(* A CSOT of level l, from shares a and b of two words *)
CsotDelta(s, o, l, a, b, i, p) ==
  (b - a - MaskW0(s, CsotName(o, l), p, 0, i) + MaskW1(s, CsotName(o, l), p, 0, i)
     + (IF i = p THEN Rou(s, CsotName(o, l), p) ELSE 0)) % W
CsotDeltas(s, o, l, a, b) == [i \in Player |-> [p \in Player |-> CsotDelta(s, o, l, a[p], b[p], i, p)]]
IcPart(s, o, l, a, b, side, d) ==
  IcShare(DealtIc(s, CsotName(o, l), d, side), 0, Tao, Delta(CsotDeltas(s, o, l, a, b), d, W))

(* The choice between shares of two blocks *)
Masked(s, o, l, fst, snd, p) == MaskedBlocks(s, CsotName(o, l), p, << fst[p], snd[p] >>, LenOf(o))
ChosenOf(s, o, l, a, b, fst, snd) ==
  [p \in Player |-> Choice(Masked(s, o, l, fst, snd, p), Masked(s, o, l, fst, snd, Suc(p)),
                           IcPart(s, o, l, a, b, "pre", Suc(p)), IcPart(s, o, l, a, b, "suc", Pre(p)),
                           LenOf(o))]

(* What the players compare on level l and choose between, share by share *)
Feature(w, h, l) == [p \in Player |-> PickedX(w, h, l)[p].x]
Field(w, h, l, f) == [p \in Player |-> PickedN(w, h, l)[p][f]]
First(o) == IF o = "x" THEN "xl" ELSE "nl"
Second(o) == IF o = "x" THEN "xr" ELSE "nr"
Next2(w, h, l, o) ==
  ChosenOf(w.seed, o, l, Feature(w, h, l), Field(w, h, l, "t"),
           Field(w, h, l, First(o)), Field(w, h, l, Second(o)))
Onward(w, h, l) ==
  [ki |-> Next2(w, h, l, "x"), idi |-> Next2(w, h, l, "n"),
   y |-> [p \in Player |-> (h.y[p] + Field(w, h, l, "v")[p]) % W]]

(* g holds what the players hold when they come to each level, and after    *)
(* the last                                                                 *)
IsWalk(w, g) == g[1] = w.start /\ \A l \in 1 .. Deep : g[l + 1] = Onward(w, g[l], l)

(* Every walk goes on *)
LEMMA WalkExists == ASSUME NEW w PROVE \E g : IsWalk(w, g)
<1> DEFINE P == { n \in Nat : \E g : g[1] = w.start /\ \A l \in 1 .. n : g[l + 1] = Onward(w, g[l], l) }
           next(h, l) == Onward(w, h, l)
<1>1. 0 \in P
  <2> DEFINE g == [l \in {1} |-> w.start]
  <2>1. g[1] = w.start /\ \A l \in 1 .. 0 : g[l + 1] = Onward(w, g[l], l)
    OBVIOUS
  <2> QED BY <2>1
<1>2. ASSUME NEW n \in Nat, n \in P
      PROVE  n + 1 \in P
  <2> HIDE DEF next
  <2>1. PICK g : g[1] = w.start /\ \A l \in 1 .. n : g[l + 1] = next(g[l], l)
    BY <1>2 DEF next
  <2> DEFINE e == [l \in 1 .. (n + 2) |-> IF l = n + 2 THEN next(g[n + 1], n + 1) ELSE g[l]]
  <2>2. e[1] = w.start
    BY <2>1
  <2>3. ASSUME NEW l \in 1 .. (n + 1)
        PROVE  e[l + 1] = next(e[l], l)
    <3>0. l \in 1 .. (n + 2) /\ l + 1 \in 1 .. (n + 2) /\ l # n + 2 /\ l \in Int
      OBVIOUS
    <3>1. e[l] = g[l]
      BY <3>0
    <3>2. CASE l = n + 1
      <4>1. l + 1 = n + 2
        BY <3>2
      <4>2. e[l + 1] = next(g[n + 1], n + 1)
        BY <3>0, <4>1
      <4> QED BY <3>1, <3>2, <4>2
    <3>3. CASE l # n + 1
      <4>1. l \in 1 .. n /\ l + 1 # n + 2
        BY <3>3
      <4>2. e[l + 1] = g[l + 1]
        BY <3>0, <4>1
      <4> QED BY <2>1, <3>1, <4>1, <4>2
    <3> QED BY <3>2, <3>3
  <2> HIDE DEF e
  <2> QED BY <2>2, <2>3 DEF next
<1>3. Deep \in P
  <2>1. \A n \in Nat : n \in P
    <3> HIDE DEF P
    <3> QED BY <1>1, <1>2, CountUp
  <2> QED BY <2>1, SizesAssumption
<1> QED BY <1>3 DEF IsWalk

-------------------------------------------------------------------------------
(* CSOT: the masked difference, the comparison and the choice *)

(* Of three numbers one is what the two others leave of v *)
LEMMA ThreeShares ==
  ASSUME NEW M \in Nat \ {0}, NEW v \in Int, NEW o \in Player, NEW f, \A p \in Player : f[p] \in Int,
         f[o] = (v - f[Suc(o)] - f[Pre(o)]) % M
  PROVE  Same(M, Sum(f), v)
<1> DEFINE a == f[Suc(o)]
           b == f[Pre(o)]
           c == v - a - b
<1>1. a \in Int /\ b \in Int
  BY Ring
<1>2. Sum(f) = f[o] + a + b
  BY Round
<1>3. f[o] = c % M
  OBVIOUS
<1>4. c \in Int /\ c + (a + b) = v /\ a + b \in Int
  BY <1>1
<1> HIDE DEF a, b, c
<1>5. c % M \in Int /\ Same(M, c % M, c)
  BY <1>4, SameMod
<1>6. Same(M, a + b, a + b)
  BY DEF Same
<1>7. Same(M, (c % M) + (a + b), c + (a + b))
  BY <1>4, <1>5, <1>6, SamePlus
<1>8. Sum(f) = (c % M) + (a + b)
  BY <1>1, <1>2, <1>3, <1>5
<1> QED BY <1>4, <1>7, <1>8

LEMMA RouIs ==
  ASSUME NEW s \in Seeds, NEW o \in {"x", "n"}, NEW l \in 0 .. Deep, NEW i \in Player
  PROVE  Rou(s, CsotName(o, l), i) \in Word
<1> DEFINE r == Random(s, << CsotName(o, l), "rou", i, 0, 0 >>)
<1>1. r \in Nat
  <2>1. 0 \in 0 .. Deep /\ 0 \in Player /\ i \in Word
    BY Small3, SizesAssumption
  <2> QED BY <2>1, Drawn, Objects
<1>2. Rou(s, CsotName(o, l), i) = r % W
  BY DEF Rou
<1> HIDE DEF r
<1> QED BY <1>1, <1>2, Width, Division DEF Word

LEMMA CsotDistance ==
  ASSUME NEW s \in Seeds, NEW o \in {"x", "n"}, NEW l \in 0 .. Deep, NEW i \in Player,
         NEW a, \A p \in Player : a[p] \in Int, NEW b, \A p \in Player : b[p] \in Int
  PROVE  Delta(CsotDeltas(s, o, l, a, b), i, W)
           = (Sum(b) - Sum(a) + Rou(s, CsotName(o, l), i)) % W
<1> DEFINE r == Rou(s, CsotName(o, l), i)
           m == [p \in Player |-> MaskW0(s, CsotName(o, l), p, 0, i)]
           n == [p \in Player |-> m[Pre(p)]]
           h == [p \in Player |-> IF i = p THEN r ELSE 0]
           d == [p \in Player |-> CsotDelta(s, o, l, a[p], b[p], i, p)]
           e == [p \in Player |-> b[p] - a[p] - m[p] + n[p] + h[p]]
<1>1. r \in Int
  BY RouIs, Small3
<1>2. ASSUME NEW p \in Player
      PROVE  m[p] \in Int /\ n[p] \in Int /\ h[p] \in Int
  <2>0. 0 \in 0 .. Deep /\ 0 \in Word
    BY Small3, SizesAssumption
  <2>1. \A q \in Player : MaskW0(s, CsotName(o, l), q, 0, i) \in Nat
    <3> SUFFICES ASSUME NEW q \in Player
                 PROVE  MaskW0(s, CsotName(o, l), q, 0, i) \in Nat
      OBVIOUS
    <3>1. q \in Word /\ CsotName(o, l) \in Object
      BY Small3, Objects
    <3> QED BY <2>0, <3>1, Drawn DEF MaskW0
  <2>3. Pre(p) \in Player
    BY Ring
  <2> HIDE DEF r
  <2>4. h[p] \in Int
    BY <1>1
  <2> QED BY <2>1, <2>3, <2>4
<1>3. ASSUME NEW p \in Player
      PROVE  e[p] \in Int /\ d[p] \in Int /\ Same(W, d[p], e[p])
  <2>1. e[p] \in Int
    <3> HIDE DEF m, n, h
    <3> QED BY <1>2
  <2>2. d[p] = e[p] % W
    <3>1. Pre(p) \in Player /\ (i = p => r = Rou(s, CsotName(o, l), p))
      BY Ring
    <3> QED BY <3>1 DEF CsotDelta, MaskW1
  <2> HIDE DEF d, e
  <2> QED BY <2>1, <2>2, Width, SameMod
<1>4. Sum(h) = r
  <2>2. i = 0 \/ i = 1 \/ i = 2
    BY DEF Player
  <2>3. h[0] = (IF i = 0 THEN r ELSE 0) /\ h[1] = (IF i = 1 THEN r ELSE 0) /\ h[2] = (IF i = 2 THEN r ELSE 0)
    BY DEF Player
  <2> HIDE DEF h, r
  <2> QED BY <1>1, <2>2, <2>3 DEF Sum
<1>5. Sum(n) = Sum(m)
  <2>1. n[0] = m[2] /\ n[1] = m[0] /\ n[2] = m[1]
    BY DEF Player, Pre
  <2>2. m[0] \in Int /\ m[1] \in Int /\ m[2] \in Int
    BY <1>2 DEF Player
  <2> HIDE DEF m, n
  <2> QED BY <2>1, <2>2 DEF Sum
<1> DEFINE j == [p \in Player |-> b[p] - a[p]]
           k == [p \in Player |-> j[p] - m[p]]
           f == [p \in Player |-> k[p] + n[p]]
<1>6. Sum(e) = Sum(b) - Sum(a) + Sum(h)
  <2>1. \A p \in Player : /\ j[p] = b[p] - a[p] /\ k[p] = j[p] - m[p] /\ f[p] = k[p] + n[p] /\ e[p] = f[p] + h[p]
    <3> SUFFICES ASSUME NEW p \in Player
                 PROVE  j[p] = b[p] - a[p] /\ k[p] = j[p] - m[p] /\ f[p] = k[p] + n[p] /\ e[p] = f[p] + h[p]
      OBVIOUS
    <3> HIDE DEF m, n, h
    <3>1. j[p] = b[p] - a[p] /\ e[p] = b[p] - a[p] - m[p] + n[p] + h[p]
      OBVIOUS
    <3> HIDE DEF e, j
    <3>2. k[p] = j[p] - m[p]
      OBVIOUS
    <3> HIDE DEF k
    <3>3. f[p] = k[p] + n[p]
      OBVIOUS
    <3> HIDE DEF f
    <3>4. a[p] \in Int /\ b[p] \in Int /\ m[p] \in Int /\ n[p] \in Int /\ h[p] \in Int
      BY <1>2
    <3> QED BY <3>1, <3>2, <3>3, <3>4
  <2> HIDE DEF m, n, h, e, j, k, f
  <2>2. \A p \in Player : j[p] \in Int
    BY <2>1
  <2>3. \A p \in Player : k[p] \in Int
    BY <1>2, <2>1, <2>2
  <2>4. \A p \in Player : f[p] \in Int
    BY <1>2, <2>1, <2>3
  <2>5. /\ Sum(j) = Sum(b) - Sum(a) /\ Sum(k) = Sum(j) - Sum(m)
        /\ Sum(f) = Sum(k) + Sum(n) /\ Sum(e) = Sum(f) + Sum(h)
    BY <1>2, <2>1, <2>2, <2>3, <2>4, SumsAdd, SumsSubtract
  <2>7. Sum(j) \in Int /\ Sum(m) \in Int /\ Sum(h) \in Int /\ Sum(a) \in Int /\ Sum(b) \in Int
    BY <1>2, <2>2, Round
  <2> QED BY <1>5, <2>5, <2>7
<1> HIDE DEF m, n, h, e, j, k, f
<1>7. Same(W, Sum(d), Sum(e))
  <2> HIDE DEF d
  <2> QED BY <1>3, Width, RoundSame
<1>11. Delta(CsotDeltas(s, o, l, a, b), i, W) = Sum(d) % W
  BY DEF Delta, CsotDeltas, Sum, Player
<1> QED BY <1>4, <1>6, <1>7, <1>11 DEF Same

(* The two holders of the keys of d agree, as a sum, on how the words       *)
(* compare                                                                  *)
LEMMA PartsCompare ==
  ASSUME NEW s \in Seeds, NEW o \in {"x", "n"}, NEW l \in 0 .. Deep, NEW d \in Player,
         NEW a, \A p \in Player : a[p] \in Int, NEW b, \A p \in Player : b[p] \in Int
  PROVE  /\ IcPart(s, o, l, a, b, "suc", d) \in Word /\ IcPart(s, o, l, a, b, "pre", d) \in Word
         /\ Same(W, IcPart(s, o, l, a, b, "suc", d) + IcPart(s, o, l, a, b, "pre", d),
                 Bool((Sum(b) - Sum(a)) % W \in 0 .. Tao))
<1> DEFINE r == Rou(s, CsotName(o, l), d)
           u == Random(s, << CsotName(o, l), "pad", d, 0, 0 >>)
           v == Random(s, << CsotName(o, l), "z", d, 0, 0 >>)
           D == Sum(b) - Sum(a)
           R == (D + r) % W
           y1 == IcPart(s, o, l, a, b, "suc", d)
           y2 == IcPart(s, o, l, a, b, "pre", d)
<1>1. r \in Word /\ r \in Int
  BY RouIs, Small3
<1>2. u \in Nat /\ v \in Nat
  <2>1. 0 \in 0 .. Deep /\ 0 \in Player /\ d \in Word /\ CsotName(o, l) \in Object
    BY Small3, SizesAssumption, Objects
  <2> QED BY <2>1, Drawn
<1>3. D \in Int
  BY Round
<1>4. /\ y1 = IcShare(IcKey("suc", 0, Tao, r, u % W, v % W), 0, Tao, R)
      /\ y2 = IcShare(IcKey("pre", 0, Tao, r, u % W, v % W), 0, Tao, R)
  BY CsotDistance DEF IcPart, DealtIc
<1> HIDE DEF r, u, v, D, y1, y2
<1>5. \A k \in Int : k % W \in Word
  BY Width, Division DEF Word
<1>6. u % W \in Word /\ v % W \in Word /\ R \in Word /\ D + r \in Int
  BY <1>1, <1>2, <1>3, <1>5
<1>7. 0 \in Word /\ Tao \in Word /\ 0 <= Tao
  BY Width DEF Tao, Word
<1>8. (R - r) % W = D % W
  <2>1. Same(W, R, D + r) /\ R \in Int
    BY <1>6, Width, SameMod
  <2>2. Same(W, r, r)
    BY DEF Same
  <2> HIDE DEF R
  <2>3. Same(W, R - r, (D + r) - r)
    BY <1>1, <1>6, <2>1, <2>2, Width, SameMinus
  <2>4. (D + r) - r = D
    BY <1>1, <1>3
  <2> QED BY <2>3, <2>4 DEF Same
<1> HIDE DEF R
<1> DEFINE c == Bool(D % W \in 0 .. Tao)
<1>9. (y1 + y2) % W = c
  <2> DEFINE A == u % W
             B == v % W
  <2>1. A \in Word /\ B \in Word
    BY <1>6
  <2>2. /\ y1 = IcShare(IcKey("suc", 0, Tao, r, A, B), 0, Tao, R)
        /\ y2 = IcShare(IcKey("pre", 0, Tao, r, A, B), 0, Tao, R)
    BY <1>4
  <2> HIDE DEF A, B, c
  <2>3. (IcShare(IcKey("suc", 0, Tao, r, A, B), 0, Tao, R)
           + IcShare(IcKey("pre", 0, Tao, r, A, B), 0, Tao, R)) % W = Bool((R - r) % W \in 0 .. Tao)
    BY <1>1, <1>6, <1>7, <2>1, Containment DEF Bool
  <2>4. Bool((R - r) % W \in 0 .. Tao) = c
    BY <1>8 DEF c, Bool
  <2> QED BY <2>2, <2>3, <2>4
<1>10. c \in Int /\ 0 <= c /\ c < W
  BY Width DEF Bool
<1>11. y1 \in Word /\ y2 \in Word
  <2>1. \A key \in {IcKey("suc", 0, Tao, r, u % W, v % W), IcKey("pre", 0, Tao, r, u % W, v % W)} :
          IcShare(key, 0, Tao, R) \in Word
    <3> SUFFICES ASSUME NEW key \in {IcKey("suc", 0, Tao, r, u % W, v % W), IcKey("pre", 0, Tao, r, u % W, v % W)}
                 PROVE  IcShare(key, 0, Tao, R) \in Word
      OBVIOUS
    <3>1. key.z \in Int /\ key.pad \in Int
      <4>1. v % W \in Int /\ u % W \in Int
        BY <1>6, Small3
      <4>2. Carry(0, Tao, r) \in Int
        BY DEF Carry, Bool
      <4>3. Carry(0, Tao, r) - (v % W) \in Int
        BY <4>1, <4>2
      <4>4. (Carry(0, Tao, r) - (v % W)) % W \in Int
        BY <4>3, <1>5, Small3
      <4> QED BY <4>1, <4>4 DEF IcKey
    <3>2. \A k \in Word : LtEval(key, k) \in Int
      <4> SUFFICES ASSUME NEW k \in Word PROVE LtEval(key, k) \in Int
        OBVIOUS
      <4> DEFINE t == key.pad + k + Bool(key.side = "suc" /\ k < key.at)
      <4>1. t \in Int
        <5>1. k \in Int /\ Bool(key.side = "suc" /\ k < key.at) \in Int
          BY Small3 DEF Bool
        <5> QED BY <3>1, <5>1
      <4>2. LtEval(key, k) = t % W
        BY DEF LtEval
      <4> HIDE DEF t
      <4> QED BY <4>1, <4>2, <1>5, Small3
    <3> DEFINE g == LtEval(key, (R - 1 - 0) % W)
               q == (Tao + 1) % W
               h == LtEval(key, (R - 1 - q) % W)
    <3>3. g \in Int /\ h \in Int
      <4>1. R \in Int /\ Tao \in Int
        BY <1>6, <1>7, Small3
      <4>2. q \in Int
        BY <4>1, <1>5, Small3
      <4> HIDE DEF q
      <4>3. (R - 1 - 0) % W \in Word /\ (R - 1 - q) % W \in Word
        BY <4>1, <4>2, <1>5
      <4> QED BY <3>2, <4>3
    <3> DEFINE e == Bool(R > 0) - Bool(R > q) + g - h + key.z
               f == h - g + key.z
    <3>4. IcShare(key, 0, Tao, R) = e % W \/ IcShare(key, 0, Tao, R) = f % W
      BY DEF IcShare
    <3>5. e \in Int /\ f \in Int
      <4> HIDE DEF g, h, q
      <4>1. Bool(R > 0) \in Int /\ Bool(R > q) \in Int
        BY DEF Bool
      <4> QED BY <3>1, <3>3, <4>1
    <3> HIDE DEF e, f
    <3> QED BY <3>4, <3>5, <1>5, Small3
  <2> QED BY <1>4, <2>1
<1>12. Same(W, y1 + y2, c)
  <2>1. c % W = c
    BY <1>10, Small
  <2> QED BY <1>9, <2>1 DEF Same
<1> QED BY <1>11, <1>12 DEF y1, y2, D

-------------------------------------------------------------------------------
(* The shares of a world add up to the tree and the data *)

Fields == {"nl", "nr", "xl", "xr", "t", "v"}

Adds(w, tr, d) ==
  /\ w.seed \in Seeds
  /\ \A e \in Player, i \in FeatIds : w.x[e][i].x \in Int
  /\ \A i \in FeatIds : Same(W, Sum([e \in Player |-> w.x[e][i].x]), d[i])
  /\ \A e \in Player, i \in NodeIds, f \in Fields : w.n[e][i][f] \in Int
  /\ \A i \in NodeIds, f \in Fields :
       Same(NodeMod[f], Sum([e \in Player |-> w.n[e][i][f]]), tr.nodes[i][f])
  /\ \A p \in Player : w.start.ki[p] \in Int /\ w.start.idi[p] \in Int /\ w.start.y[p] = 0
  /\ Same(Feats, Sum(w.start.ki), tr.start)
  /\ Same(Nodes, Sum(w.start.idi), 0)

LEMMA FieldMods ==
  /\ DOMAIN NodeMod = Fields /\ DOMAIN FeatMod = {"x"} /\ FeatMod["x"] = W
  /\ \A f \in Fields : NodeMod[f] \in Nat \ {0}
  /\ \A f \in Fields : NodeMod[f] = W \/ NodeMod[f] = Nodes \/ NodeMod[f] = Feats
  /\ NodeMod["t"] = W /\ NodeMod["v"] = W
  /\ NodeMod["nl"] = Nodes /\ NodeMod["nr"] = Nodes /\ NodeMod["xl"] = Feats /\ NodeMod["xr"] = Feats
<1>1. W \in Nat \ {0} /\ Nodes \in Nat \ {0} /\ Feats \in Nat \ {0}
  BY Small3
<1>2. /\ DOMAIN NodeMod = Fields /\ DOMAIN FeatMod = {"x"} /\ FeatMod["x"] = W
      /\ NodeMod["t"] = W /\ NodeMod["v"] = W
      /\ NodeMod["nl"] = Nodes /\ NodeMod["nr"] = Nodes /\ NodeMod["xl"] = Feats /\ NodeMod["xr"] = Feats
  BY DEF NodeMod, FeatMod, Fields
<1> QED BY <1>1, <1>2 DEF Fields

LEMMA TreeIs ==
  ASSUME NEW tr \in Trees
  PROVE  /\ tr.start \in FeatIds /\ tr.start \in Int
         /\ \A i \in NodeIds : /\ tr.nodes[i] \in Node
                               /\ tr.nodes[i].nl \in NodeIds /\ tr.nodes[i].nr \in NodeIds
                               /\ tr.nodes[i].xl \in FeatIds /\ tr.nodes[i].xr \in FeatIds
                               /\ tr.nodes[i].t \in Word /\ tr.nodes[i].v \in Word
                               /\ \A f \in Fields : tr.nodes[i][f] \in Int
<1>1. tr.start \in FeatIds /\ tr.nodes \in [NodeIds -> Node]
  BY TreesAssumption
<1>2. NodeIds \subseteq Int /\ FeatIds \subseteq Int /\ Word \subseteq Int
  BY Small3
<1>3. ASSUME NEW i \in NodeIds
      PROVE  /\ tr.nodes[i] \in Node
             /\ tr.nodes[i].nl \in NodeIds /\ tr.nodes[i].nr \in NodeIds
             /\ tr.nodes[i].xl \in FeatIds /\ tr.nodes[i].xr \in FeatIds
             /\ tr.nodes[i].t \in Word /\ tr.nodes[i].v \in Word
  BY <1>1 DEF Node
<1> QED BY <1>1, <1>2, <1>3 DEF Fields

LEMMA DataIs ==
  ASSUME NEW d \in Datas, NEW i \in FeatIds
  PROVE  d[i] \in Word /\ d[i] \in Int
BY TreesAssumption, Small3

LEMMA PadIs ==
  ASSUME seed \in Seeds, NEW k \in {0, 1}
  PROVE  /\ \A i \in NodeIds, f \in Fields : Pad(k, i, f) \in Int
         /\ \A M \in Nat \ {0} : StartPad(k, M) \in Int
<1>0. 0 \in 0 .. Deep /\ 0 \in Player /\ 0 \in Word /\ NodeIds \subseteq Word
  BY Small3, SizesAssumption
<1>1. ASSUME NEW i \in NodeIds, NEW f \in Fields
      PROVE  Pad(k, i, f) \in Int
  <2> DEFINE r == Random(seed, << << "deposit", f, k >>, "pad", i, 0, 0 >>)
  <2>1. i \in Word /\ << "deposit", f, k >> \in Object
    BY <1>0, Objects DEF Fields
  <2>2. r \in Nat
    BY <1>0, <2>1, Drawn
  <2> DEFINE M == NodeMod[f]
  <2>3. Pad(k, i, f) = r % M /\ M \in Nat \ {0}
    BY FieldMods DEF Pad
  <2> HIDE DEF r, M
  <2> QED BY <2>2, <2>3, SameMod
<1>2. ASSUME NEW M \in Nat \ {0}
      PROVE  StartPad(k, M) \in Int
  <2> DEFINE r == Random(seed, << << "deposit", "start", k >>, "pad", 0, 0, 0 >>)
  <2>1. << "deposit", "start", k >> \in Object
    BY Objects
  <2>2. r \in Nat
    BY <1>0, <2>1, Drawn
  <2>3. StartPad(k, M) = r % M
    BY DEF StartPad
  <2> HIDE DEF r
  <2> QED BY <2>2, <2>3, SameMod
<1> QED BY <1>1, <1>2

LEMMA NodesAdd ==
  ASSUME seed \in Seeds, tree \in Trees, NEW i \in NodeIds, NEW f \in Fields
  PROVE  /\ \A e \in Player : NodeList(e)[i][f] \in Int
         /\ Same(NodeMod[f], Sum([e \in Player |-> NodeList(e)[i][f]]), tree.nodes[i][f])
<1> DEFINE o == Suc(Owner)
           v == tree.nodes[i][f]
           g == [e \in Player |-> NodeList(e)[i][f]]
           M == NodeMod[f]
<1>1. /\ o \in Player /\ Owner \in Player /\ Pre(o) = Owner /\ Suc(o) = Pre(Owner) /\ Suc(o) \in Player
      /\ Owner # o /\ Suc(o) # o /\ Suc(o) # Owner
      /\ \A e \in Player : e = o \/ e = Owner \/ e = Suc(o)
  <2>1. Owner \in Player
    BY OwnerAssumption
  <2> QED BY <2>1, Ring
<1>2. v \in Int /\ M \in Nat \ {0} /\ f \in DOMAIN NodeMod
  BY TreeIs, FieldMods
<1>3. g[Owner] = Pad(1, i, f) /\ g[Suc(o)] = Pad(0, i, f)
  BY <1>1, <1>2 DEF NodeList, PadOf
<1>4. g[o] = (v - Pad(0, i, f) - Pad(1, i, f)) % M
  BY <1>1, <1>2 DEF NodeList, Rest
<1>5. Pad(0, i, f) \in Int /\ Pad(1, i, f) \in Int
  BY PadIs
<1>6. g[o] \in Int
  <2> DEFINE z == v - Pad(0, i, f) - Pad(1, i, f)
  <2>1. z \in Int
    BY <1>2, <1>5
  <2>2. g[o] = z % M
    BY <1>4
  <2> HIDE DEF z, M, g
  <2> QED BY <1>2, <2>1, <2>2, SameMod
<1>7. \A e \in Player : g[e] = NodeList(e)[i][f]
  OBVIOUS
<1> HIDE DEF g, v, M, o
<1>8. \A e \in Player : g[e] \in Int
  BY <1>1, <1>3, <1>5, <1>6
<1>9. g[o] = (v - g[Suc(o)] - g[Pre(o)]) % M
  BY <1>1, <1>3, <1>4
<1>10. Same(M, Sum(g), v)
  BY <1>1, <1>2, <1>8, <1>9, ThreeShares
<1> QED BY <1>7, <1>8, <1>10 DEF g, v, M

LEMMA FeaturesAdd ==
  ASSUME seed \in Seeds, data \in Datas, NEW i \in FeatIds
  PROVE  /\ \A e \in Player : FeatureShare(Suc(e))[i].x \in Int
         /\ Same(W, Sum([e \in Player |-> FeatureShare(Suc(e))[i].x]), data[i])
<1> DEFINE v == data[i]
           g == [p \in Player |-> FeatureShare(p)[i].x]
           h == [e \in Player |-> g[Suc(e)]]
<1>1. /\ Owner \in Player /\ Suc(Owner) \in Player /\ Pre(Owner) \in Player
      /\ Suc(Owner) # Owner /\ Pre(Owner) # Owner
  <2>1. Owner \in Player
    BY OwnerAssumption
  <2> QED BY <2>1, Ring
<1>2. v \in Int /\ W \in Nat \ {0} /\ i \in 0 .. (Feats - 1) /\ i \in Word
  BY DataIs, Small3 DEF FeatIds
<1>3. ASSUME NEW p \in Player
      PROVE  FeaturePad(p, i) \in Int
  <2> DEFINE r == Random(seed, << << "features", "x", p >>, "pad", i, 0, 0 >>)
  <2>1. << "features", "x", p >> \in Object /\ 0 \in 0 .. Deep /\ 0 \in Player
    BY Objects, Small3, SizesAssumption
  <2>2. r \in Nat
    BY <1>2, <2>1, Drawn
  <2>3. FeaturePad(p, i) = r % W
    BY DEF FeaturePad
  <2> HIDE DEF r
  <2> QED BY <1>2, <2>2, <2>3, SameMod
<1>4. \A p \in Player : p # Owner => g[p] = FeaturePad(p, i)
  BY <1>2 DEF FeatureShare
<1>5. g[Owner] = (v - g[Suc(Owner)] - g[Pre(Owner)]) % W
  <2>1. g[Owner] = (v - FeaturePad(Suc(Owner), i) - FeaturePad(Pre(Owner), i)) % W
    BY <1>1, <1>2 DEF FeatureShare
  <2> HIDE DEF g
  <2> QED BY <1>1, <1>4, <2>1
<1>6. \A e \in Player : h[e] = FeatureShare(Suc(e))[i].x
  <2>1. \A e \in Player : Suc(e) \in Player
    BY Ring
  <2> QED BY <2>1
<1>7. h = [e \in Player |-> g[Suc(e)]] /\ h = [e \in Player |-> FeatureShare(Suc(e))[i].x]
  BY <1>6
<1> HIDE DEF g, h, v
<1>8. \A p \in Player : g[p] \in Int
  <2>1. \A p \in Player : p # Owner => g[p] \in Int
    BY <1>3, <1>4
  <2> DEFINE z == v - g[Suc(Owner)] - g[Pre(Owner)]
  <2>2. z \in Int
    BY <1>1, <1>2, <2>1
  <2>3. g[Owner] = z % W
    BY <1>5
  <2> HIDE DEF z
  <2>4. g[Owner] \in Int
    BY <1>2, <2>2, <2>3, SameMod
  <2> QED BY <2>1, <2>4
<1>9. Same(W, Sum(g), v)
  BY <1>1, <1>2, <1>5, <1>8, ThreeShares
<1>10. Sum(h) = Sum(g)
  BY <1>7, <1>8, Turnings
<1>11. \A e \in Player : h[e] \in Int
  <2>1. \A e \in Player : Suc(e) \in Player
    BY Ring
  <2> QED BY <1>7, <1>8, <2>1
<1> QED BY <1>6, <1>7, <1>9, <1>10, <1>11 DEF v

LEMMA StartAdds ==
  ASSUME seed \in Seeds, NEW M \in Nat \ {0}, NEW v \in Int
  PROVE  /\ \A p \in Player : StartShare(M, v, p) \in Int
         /\ Same(M, Sum([p \in Player |-> StartShare(M, v, p)]), v)
<1> DEFINE g == [p \in Player |-> StartShare(M, v, p)]
<1>1. /\ Owner \in Player /\ Suc(Owner) \in Player /\ Pre(Owner) \in Player
      /\ Suc(Owner) # Owner /\ Pre(Owner) # Owner /\ Pre(Owner) # Suc(Owner)
      /\ \A p \in Player : p = Owner \/ p = Suc(Owner) \/ p = Pre(Owner)
  <2>1. Owner \in Player
    BY OwnerAssumption
  <2> QED BY <2>1, Ring
<1>2. StartPad(0, M) \in Int /\ StartPad(1, M) \in Int
  BY PadIs
<1>3. /\ g[Suc(Owner)] = StartPad(0, M) /\ g[Pre(Owner)] = StartPad(1, M)
      /\ g[Owner] = (v - StartPad(0, M) - StartPad(1, M)) % M
  BY <1>1 DEF StartShare, StartOf
<1>4. g[Owner] \in Int
  <2> DEFINE z == v - StartPad(0, M) - StartPad(1, M)
  <2>1. z \in Int
    BY <1>2
  <2>2. g[Owner] = z % M
    BY <1>3
  <2> HIDE DEF z, g
  <2> QED BY <2>1, <2>2, SameMod
<1>5. \A p \in Player : g[p] = StartShare(M, v, p)
  OBVIOUS
<1> HIDE DEF g
<1>6. \A p \in Player : g[p] \in Int
  BY <1>1, <1>2, <1>3, <1>4
<1>7. g[Owner] = (v - g[Suc(Owner)] - g[Pre(Owner)]) % M
  BY <1>3
<1>8. Same(M, Sum(g), v)
  BY <1>1, <1>6, <1>7, ThreeShares
<1> QED BY <1>5, <1>6, <1>8 DEF g

LEMMA WorldAdds ==
  ASSUME seed \in Seeds, tree \in Trees, data \in Datas
  PROVE  Adds(World, tree, data)
<1>1. /\ World.seed = seed
      /\ \A e \in Player : World.x[e] = FeatureShare(Suc(e)) /\ World.n[e] = NodeList(e)
      /\ World.start.ki = [p \in Player |-> StartShare(Feats, tree.start, p)]
      /\ World.start.idi = [p \in Player |-> StartShare(Nodes, 0, p)]
      /\ \A p \in Player : World.start.y[p] = 0
  BY DEF World
<1>2. tree.start \in Int /\ Feats \in Nat \ {0} /\ Nodes \in Nat \ {0} /\ 0 \in Int
  BY TreeIs, Small3
<1> DEFINE w == World
<1> HIDE DEF w
<1>3. \A e \in Player, i \in FeatIds : w.x[e][i].x \in Int
  BY <1>1, FeaturesAdd DEF w
<1>4. ASSUME NEW i \in FeatIds
      PROVE  Same(W, Sum([e \in Player |-> w.x[e][i].x]), data[i])
  <2>1. [e \in Player |-> w.x[e][i].x] = [e \in Player |-> FeatureShare(Suc(e))[i].x]
    BY <1>1 DEF w
  <2> QED BY <2>1, FeaturesAdd
<1>5. \A e \in Player, i \in NodeIds, f \in Fields : w.n[e][i][f] \in Int
  BY <1>1, NodesAdd DEF w
<1>6. ASSUME NEW i \in NodeIds, NEW f \in Fields
      PROVE  Same(NodeMod[f], Sum([e \in Player |-> w.n[e][i][f]]), tree.nodes[i][f])
  <2>1. [e \in Player |-> w.n[e][i][f]] = [e \in Player |-> NodeList(e)[i][f]]
    BY <1>1 DEF w
  <2> QED BY <2>1, NodesAdd
<1>7. \A p \in Player : w.start.ki[p] \in Int /\ w.start.idi[p] \in Int /\ w.start.y[p] = 0
  BY <1>1, <1>2, StartAdds DEF w
<1>8. Same(Feats, Sum(w.start.ki), tree.start) /\ Same(Nodes, Sum(w.start.idi), 0)
  BY <1>1, <1>2, StartAdds DEF w
<1>9. w.seed \in Seeds
  BY <1>1 DEF w
<1> QED BY <1>3, <1>4, <1>5, <1>6, <1>7, <1>8, <1>9 DEF Adds, w

-------------------------------------------------------------------------------
(* One level of the walk: what the players select, and where they go on to *)

LEMMA PadsAre ==
  ASSUME NEW s \in Seeds, NEW o \in {"x", "n"}, NEW l \in 0 .. Deep
  PROVE  /\ FilisOf(s, o, l) \in [Player -> 0 .. (LenOf(o) - 1)]
         /\ PointPads(s, o, l) \in [Player -> Word]
<1>1. ASSUME NEW i \in Player
      PROVE  PointPad(s, o, l, i) \in Word
  <2> DEFINE r == Random(s, << SotName(o), "pad", i, l, 0 >>)
  <2>1. i \in Word /\ 0 \in Player /\ SotName(o) \in Object
    BY Small3, Objects
  <2>2. r \in Nat
    BY <2>1, Drawn
  <2>3. PointPad(s, o, l, i) = r % W
    BY DEF PointPad
  <2> HIDE DEF r
  <2>4. r % W \in 0 .. (W - 1)
    BY <2>2, Width, Division
  <2> QED BY <2>3, <2>4 DEF Word
<1> QED BY <1>1, FiliIs DEF FilisOf, PointPads

LEMMA ResidueIs ==
  ASSUME NEW N \in Nat \ {0}, NEW x \in Int, NEW k \in 0 .. (N - 1), Same(N, x, k)
  PROVE  x % N = k
<1> DEFINE z == x % N
<1>1. z \in 0 .. (N - 1) /\ Same(N, z, x)
  BY SameMod
<1> HIDE DEF z
<1>2. Same(N, z, k)
  BY <1>1, SameTrans
<1>3. z = k
  BY <1>1, <1>2, SameEqual
<1> QED BY <1>3 DEF z

(* What the lists' shares at the shared position count for *)
XGains(w, h, l) ==
  [e \in Player |-> Gain(w.x[e][Sum(h.ki) % Feats].x,
                         FiliOf(w.seed, "x", l, e), PointPad(w.seed, "x", l, e), W)]
NGains(w, h, l, f) ==
  [e \in Player |-> Gain(w.n[e][Sum(h.idi) % Nodes][f],
                         FiliOf(w.seed, "n", l, e), PointPad(w.seed, "n", l, e), NodeMod[f])]

LEMMA FeaturePicked ==
  ASSUME NEW w, NEW tr, NEW d, Adds(w, tr, d), NEW l \in 0 .. Deep,
         NEW h, \A p \in Player : h.ki[p] \in Int
  PROVE  /\ \A p \in Player : Feature(w, h, l)[p] \in Int
         /\ Same(W, Sum(Feature(w, h, l)), Sum(XGains(w, h, l)))
<1> DEFINE X == Sum(h.ki)
           D == SotDeltas(w.seed, "x", h.ki, l)
           at == FilisOf(w.seed, "x", l)
           pad == PointPads(w.seed, "x", l)
           A == AnswersOf(w.x, at, pad, D, Feats, FeatMod)
           list == w.x
           mod == FeatMod
           f == "x"
           b == [p \in Player |-> A[p][f]]
           c == [e \in Player |-> Gain(list[e][X % Feats][f], at[e], pad[e], mod[f])]
<1>1. w.seed \in Seeds /\ LenOf("x") = Feats /\ Feats \in Nat \ {0} /\ Feats <= W /\ X \in Int
  BY Round, Small3, SizesAssumption DEF Adds, LenOf
<1>2. at \in [Player -> 0 .. (Feats - 1)] /\ pad \in [Player -> Word]
  BY <1>1, PadsAre
<1>3. ASSUME NEW e \in Player
      PROVE  /\ Delta(D, e, Feats) = (X - at[e]) % Feats
             /\ at[e] = FiliOf(w.seed, "x", l, e) /\ pad[e] = PointPad(w.seed, "x", l, e)
  <2>1. at[e] = FiliOf(w.seed, "x", l, e) /\ pad[e] = PointPad(w.seed, "x", l, e)
    BY DEF FilisOf, PointPads
  <2> HIDE DEF at, pad
  <2> QED BY <1>1, <2>1, SotDistance
<1>4. mod[f] = W /\ f \in DOMAIN mod /\ mod[f] \in Nat \ {0}
  BY FieldMods, Width
<1>5. \A e \in Player, i \in 0 .. (Feats - 1) : list[e][i][f] \in Int
  BY DEF Adds, FeatIds
<1>6. PickedX(w, h, l) = A /\ A = AnswersOf(list, at, pad, D, Feats, mod)
  BY DEF PickedX
<1>7. Feature(w, h, l) = b
  BY <1>6 DEF Feature
<1>8. XGains(w, h, l) = c
  <2>1. \A e \in Player : c[e] = Gain(list[e][X % Feats][f], FiliOf(w.seed, "x", l, e), PointPad(w.seed, "x", l, e), mod[f])
    <3> HIDE DEF at, pad, mod
    <3> QED BY <1>3
  <2>2. c = [e \in Player |-> c[e]]
    OBVIOUS
  <2> HIDE DEF c, at, pad, D, A
  <2> QED BY <1>4, <2>1, <2>2 DEF XGains
<1>9. (\A p \in Player : b[p] = A[p][f])
      /\ \A e \in Player : c[e] = Gain(list[e][X % Feats][f], at[e], pad[e], mod[f])
  OBVIOUS
<1> HIDE DEF A, X, D, at, pad, list, mod, b, c, f
<1>10. (\A p \in Player : b[p] \in 0 .. (mod[f] - 1)) /\ Same(mod[f], Sum(b), Sum(c))
  <2>1. Feats \in Nat \ {0} /\ Feats <= W /\ X \in Int
    BY <1>1
  <2>2. at \in [Player -> 0 .. (Feats - 1)] /\ pad \in [Player -> Word]
    BY <1>2
  <2>3. \A e \in Player : Delta(D, e, Feats) = (X - at[e]) % Feats
    BY <1>3
  <2>4. f \in DOMAIN mod /\ mod[f] \in Nat \ {0}
    BY <1>4
  <2>5. \A e \in Player, i \in 0 .. (Feats - 1) : list[e][i][f] \in Int
    BY <1>5
  <2>6. \A p \in Player : b[p] = AnswersOf(list, at, pad, D, Feats, mod)[p][f]
    BY <1>6, <1>9
  <2>7. Selects(Feats, X, D, at, pad, mod, f, list, b, c)
    BY <1>9, <2>1, <2>2, <2>3, <2>4, <2>5, <2>6 DEF Selects
  <2> QED BY <2>7, Selection
<1>11. \A p \in Player : b[p] \in Int
  BY <1>4, <1>10
<1> QED BY <1>4, <1>7, <1>8, <1>10, <1>11

LEMMA FieldPicked ==
  ASSUME NEW w, NEW tr, NEW d, Adds(w, tr, d), NEW l \in 0 .. Deep,
         NEW h, \A p \in Player : h.idi[p] \in Int, NEW f \in Fields
  PROVE  /\ \A p \in Player : Field(w, h, l, f)[p] \in Int
         /\ Same(NodeMod[f], Sum(Field(w, h, l, f)), Sum(NGains(w, h, l, f)))
<1> DEFINE X == Sum(h.idi)
           D == SotDeltas(w.seed, "n", h.idi, l)
           at == FilisOf(w.seed, "n", l)
           pad == PointPads(w.seed, "n", l)
           A == AnswersOf(w.n, at, pad, D, Nodes, NodeMod)
           list == w.n
           mod == NodeMod
           b == [p \in Player |-> A[p][f]]
           c == [e \in Player |-> Gain(list[e][X % Nodes][f], at[e], pad[e], mod[f])]
<1>1. w.seed \in Seeds /\ LenOf("n") = Nodes /\ Nodes \in Nat \ {0} /\ Nodes <= W /\ X \in Int
  BY Round, Small3, SizesAssumption DEF Adds, LenOf
<1>2. at \in [Player -> 0 .. (Nodes - 1)] /\ pad \in [Player -> Word]
  BY <1>1, PadsAre
<1>3. ASSUME NEW e \in Player
      PROVE  /\ Delta(D, e, Nodes) = (X - at[e]) % Nodes
             /\ at[e] = FiliOf(w.seed, "n", l, e) /\ pad[e] = PointPad(w.seed, "n", l, e)
  <2>1. at[e] = FiliOf(w.seed, "n", l, e) /\ pad[e] = PointPad(w.seed, "n", l, e)
    BY DEF FilisOf, PointPads
  <2> HIDE DEF at, pad
  <2> QED BY <1>1, <2>1, SotDistance
<1>4. mod[f] = NodeMod[f] /\ f \in DOMAIN mod /\ mod[f] \in Nat \ {0}
  BY FieldMods
<1>5. \A e \in Player, i \in 0 .. (Nodes - 1) : list[e][i][f] \in Int
  BY DEF Adds, NodeIds
<1>6. PickedN(w, h, l) = A /\ A = AnswersOf(list, at, pad, D, Nodes, mod)
  BY DEF PickedN
<1>7. Field(w, h, l, f) = b
  BY <1>6 DEF Field
<1>8. NGains(w, h, l, f) = c
  <2>1. \A e \in Player : c[e] = Gain(list[e][X % Nodes][f], FiliOf(w.seed, "n", l, e), PointPad(w.seed, "n", l, e), mod[f])
    <3> HIDE DEF at, pad, mod
    <3> QED BY <1>3
  <2>2. c = [e \in Player |-> c[e]]
    OBVIOUS
  <2> HIDE DEF c, at, pad, D, A
  <2> QED BY <1>4, <2>1, <2>2 DEF NGains
<1>9. (\A p \in Player : b[p] = A[p][f])
      /\ \A e \in Player : c[e] = Gain(list[e][X % Nodes][f], at[e], pad[e], mod[f])
  OBVIOUS
<1> HIDE DEF A, X, D, at, pad, list, mod, b, c
<1>10. (\A p \in Player : b[p] \in 0 .. (mod[f] - 1)) /\ Same(mod[f], Sum(b), Sum(c))
  <2>1. Nodes \in Nat \ {0} /\ Nodes <= W /\ X \in Int
    BY <1>1
  <2>2. at \in [Player -> 0 .. (Nodes - 1)] /\ pad \in [Player -> Word]
    BY <1>2
  <2>3. \A e \in Player : Delta(D, e, Nodes) = (X - at[e]) % Nodes
    BY <1>3
  <2>4. f \in DOMAIN mod /\ mod[f] \in Nat \ {0}
    BY <1>4
  <2>5. \A e \in Player, i \in 0 .. (Nodes - 1) : list[e][i][f] \in Int
    BY <1>5
  <2>6. \A p \in Player : b[p] = AnswersOf(list, at, pad, D, Nodes, mod)[p][f]
    BY <1>6, <1>9
  <2>7. Selects(Nodes, X, D, at, pad, mod, f, list, b, c)
    BY <1>9, <2>1, <2>2, <2>3, <2>4, <2>5, <2>6 DEF Selects
  <2> QED BY <2>7, Selection
<1>11. \A p \in Player : b[p] \in Int
  BY <1>4, <1>10
<1> QED BY <1>4, <1>7, <1>8, <1>10, <1>11

(* The masks of the blocks add up to nothing *)
LEMMA MaskedAdds ==
  ASSUME NEW s \in Seeds, NEW o \in {"x", "n"}, NEW l \in 0 .. Deep, NEW k \in 1 .. 2,
         NEW fst, \A p \in Player : fst[p] \in Int, NEW snd, \A p \in Player : snd[p] \in Int
  PROVE  /\ \A p \in Player : Masked(s, o, l, fst, snd, p)[k] \in Int
         /\ Same(LenOf(o), Sum([p \in Player |-> Masked(s, o, l, fst, snd, p)[k]]),
                 Sum(IF k = 1 THEN fst ELSE snd))
<1> DEFINE N == LenOf(o)
           b == IF k = 1 THEN fst ELSE snd
           m == [p \in Player |-> Zeta(s, CsotName(o, l), p, k) % N]
           n == [p \in Player |-> m[Pre(p)]]
           d == [p \in Player |-> Masked(s, o, l, fst, snd, p)[k]]
           e == [p \in Player |-> b[p] + m[p] + N - n[p]]
<1>1. N \in Nat \ {0} /\ N \in Int /\ \A p \in Player : b[p] \in Int
  BY LenIs
<1>2. ASSUME NEW p \in Player
      PROVE  m[p] \in Int /\ n[p] \in Int
  <2>1. ASSUME NEW q \in Player
        PROVE  Zeta(s, CsotName(o, l), q, k) % N \in Int
    <3>1. q \in Word /\ 0 \in 0 .. Deep /\ k \in Player /\ CsotName(o, l) \in Object
      BY Small3, SizesAssumption, Objects DEF Player
    <3>2. Zeta(s, CsotName(o, l), q, k) \in Nat
      BY <3>1, Drawn DEF Zeta
    <3> HIDE DEF N
    <3> QED BY <1>1, <3>2, SameMod
  <2>2. Pre(p) \in Player
    BY Ring
  <2> QED BY <2>1, <2>2
<1>3. ASSUME NEW p \in Player
      PROVE  e[p] \in Int /\ d[p] \in Int /\ Same(N, d[p], e[p])
  <2>1. e[p] \in Int
    <3> HIDE DEF m, n, b, N
    <3> QED BY <1>1, <1>2
  <2>2. d[p] = e[p] % N
    <3>1. Pre(p) \in Player /\ (k = 1 \/ k = 2)
      BY Ring
    <3>2. << fst[p], snd[p] >>[k] = b[p]
      BY <3>1
    <3> QED BY <3>1, <3>2 DEF Masked, MaskedBlocks
  <2> HIDE DEF d, e, N
  <2> QED BY <1>1, <2>1, <2>2, SameMod
<1>5. Sum(n) = Sum(m)
  <2>1. n[0] = m[2] /\ n[1] = m[0] /\ n[2] = m[1]
    BY DEF Player, Pre
  <2>2. m[0] \in Int /\ m[1] \in Int /\ m[2] \in Int
    BY <1>2 DEF Player
  <2> HIDE DEF m, n
  <2> QED BY <2>1, <2>2 DEF Sum
<1>6. Sum(e) = Sum(b) + N * 3
  <2>1. /\ e[0] = b[0] + m[0] + N - n[0] /\ e[1] = b[1] + m[1] + N - n[1] /\ e[2] = b[2] + m[2] + N - n[2]
    BY DEF Player
  <2>2. /\ b[0] \in Int /\ b[1] \in Int /\ b[2] \in Int /\ m[0] \in Int /\ m[1] \in Int /\ m[2] \in Int
        /\ n[0] \in Int /\ n[1] \in Int /\ n[2] \in Int
    BY <1>1, <1>2 DEF Player
  <2> HIDE DEF b, m, n, e, N
  <2>3. n[0] + n[1] + n[2] = m[0] + m[1] + m[2]
    BY <1>5 DEF Sum
  <2> QED BY <1>1, <2>1, <2>2, <2>3 DEF Sum
<1>7. \A p \in Player : d[p] = Masked(s, o, l, fst, snd, p)[k]
  OBVIOUS
<1> HIDE DEF m, n, b, d, e, N
<1>8. Same(N, Sum(d), Sum(e)) /\ Sum(d) \in Int /\ Sum(e) \in Int
  BY <1>1, <1>3, RoundSame
<1>9. Sum(b) \in Int
  BY <1>1, Small3, Round
<1>10. Same(N, Sum(e), Sum(b))
  <2>1. 3 \in Int
    OBVIOUS
  <2> QED BY <1>1, <1>6, <1>8, <1>9, <2>1, SameShift
<1>11. Same(N, Sum(d), Sum(b))
  BY <1>8, <1>10, SameTrans
<1> QED BY <1>3, <1>7, <1>11 DEF d, b, N

(* The share of a comparison is reduced before it multiplies a difference   *)
LEMMA TimesIs ==
  ASSUME NEW M \in Nat \ {0}, NEW b \in Int, NEW c \in Int, NEW beta \in Int
  PROVE  LET e == (b - c) * (beta % M)
         IN  e \in Int /\ Same(M, e, (b - c) * beta) /\ (b - c) * beta \in Int
<1> DEFINE g == beta % M
           d == b - c
<1>1. g \in Int /\ Same(M, g, beta) /\ d \in Int
  BY SameMod
<1> HIDE DEF g, d
<1>2. d * g \in Int /\ d * beta \in Int
  BY <1>1
<1>3. Same(M, d * g, d * beta)
  BY <1>1, SameTimes
<1> QED BY <1>2, <1>3 DEF g, d

(* What a player makes of its own blocks a and b and of the next one's c    *)
(* and d                                                                    *)
LEMMA ChoiceIs ==
  ASSUME NEW M \in Nat \ {0}, NEW own, NEW next,
         own[1] \in Int, own[2] \in Int, next[1] \in Int, next[2] \in Int,
         NEW bs \in Int, NEW bp \in Int
  PROVE  /\ Choice(own, next, bs, bp, M) \in Int
         /\ Same(M, Choice(own, next, bs, bp, M),
                 own[2] + ((own[1] - own[2]) * bs + (next[1] - next[2]) * bp))
         /\ (own[1] - own[2]) * bs \in Int /\ (next[1] - next[2]) * bp \in Int
<1> DEFINE u == (own[1] - own[2]) * (bs % M)
           v == (next[1] - next[2]) * (bp % M)
           a == own[2]
           x == (own[1] - own[2]) * bs
           z == (next[1] - next[2]) * bp
           e == a + u + v
<1>1. u \in Int /\ Same(M, u, x) /\ x \in Int /\ v \in Int /\ Same(M, v, z) /\ z \in Int
  BY TimesIs
<1>3. Choice(own, next, bs, bp, M) = e % M
  BY DEF Choice
<1> HIDE DEF u, v
<1>4. e = a + (u + v) /\ a \in Int
  BY <1>1
<1> HIDE DEF x, z, e, a
<1>5. Same(M, u + v, x + z)
  BY <1>1, SamePlus
<1>6. Same(M, a, a)
  BY DEF Same
<1>7. Same(M, a + (u + v), a + (x + z))
  <2>1. u + v \in Int /\ x + z \in Int
    BY <1>1
  <2> QED BY <1>4, <1>5, <1>6, <2>1, SamePlus
<1>8. e \in Int
  BY <1>1, <1>4
<1>9. e % M \in Int /\ Same(M, e % M, e)
  BY <1>8, SameMod
<1>10. Same(M, e % M, a + (x + z))
  BY <1>4, <1>7, <1>9, SameTrans
<1> QED BY <1>1, <1>3, <1>9, <1>10 DEF a, x, z

(* Two words that add up to 0 or 1 as a word wrap at most once *)
LEMMA WordsWrap ==
  ASSUME NEW u \in Word, NEW v \in Word, NEW c \in {0, 1}, Same(W, v + u, c)
  PROVE  v + u = c \/ v + u = c + W
<1>1. PICK x : x = v + u
  OBVIOUS
<1>2. x \in Int /\ 0 <= x /\ x < 2 * W /\ W \in Nat /\ W > 1
  BY <1>1, Width DEF Word
<1>3. x % W = c
  <2>1. c % W = c
    BY <1>2, Small
  <2> QED BY <1>1, <2>1 DEF Same
<1>4. CASE x < W
  <2>1. x % W = x
    BY <1>2, <1>4, Small
  <2> QED BY <1>1, <1>3, <2>1
<1>5. CASE W <= x
  <2>1. x % W = x - W
    BY <1>2, <1>5, Above
  <2> QED BY ONLY <1>1, <1>2, <1>3, <2>1
<1> QED BY <1>2, <1>4, <1>5

(* What the choice adds up to *)
ChosenUpTo(s, o, l, a, b, fst, snd) ==
  \E slip \in [Player -> {0, 1}] :
      Same(LenOf(o), Sum(ChosenOf(s, o, l, a, b, fst, snd)),
           (IF (Sum(b) - Sum(a)) % W \in 0 .. Tao THEN Sum(fst) ELSE Sum(snd))
             + W * Sum([p \in Player |-> slip[p] * (Masked(s, o, l, fst, snd, p)[1]
                                                      - Masked(s, o, l, fst, snd, p)[2])]))

LEMMA ChosenSlips ==
  ASSUME NEW s \in Seeds, NEW o \in {"x", "n"}, NEW l \in 0 .. Deep,
         NEW a, \A p \in Player : a[p] \in Int, NEW b, \A p \in Player : b[p] \in Int,
         NEW fst, \A p \in Player : fst[p] \in Int, NEW snd, \A p \in Player : snd[p] \in Int
  PROVE  /\ \A p \in Player : ChosenOf(s, o, l, a, b, fst, snd)[p] \in Int
         /\ ChosenUpTo(s, o, l, a, b, fst, snd)
<1> DEFINE M == LenOf(o)
           C == ChosenOf(s, o, l, a, b, fst, snd)
           B == [p \in Player |-> Masked(s, o, l, fst, snd, p)]
           u == [d \in Player |-> IcPart(s, o, l, a, b, "pre", d)]
           v == [d \in Player |-> IcPart(s, o, l, a, b, "suc", d)]
           pos == (Sum(b) - Sum(a)) % W \in 0 .. Tao
           c == Bool(pos)
           b1 == [p \in Player |-> B[p][1]]
           b2 == [p \in Player |-> B[p][2]]
           x == [p \in Player |-> (b1[p] - b2[p]) * u[Suc(p)]]
           z == [p \in Player |-> (b1[p] - b2[p]) * v[Suc(p)]]
           t == [p \in Player |-> z[Suc(p)]]
           e == [p \in Player |-> b2[p] + (x[p] + t[p])]
           g == [p \in Player |-> x[p] + z[p]]
           h == [p \in Player |-> (b1[p] - b2[p]) * c]
           j == [p \in Player |-> b2[p] + g[p]]
           k == [p \in Player |-> b2[p] + h[p]]
           r == [p \in Player |-> x[p] + t[p]]
           slip == [p \in Player |-> IF v[Suc(p)] + u[Suc(p)] = c THEN 0 ELSE 1]
           off == [p \in Player |-> slip[p] * (B[p][1] - B[p][2])]
           wrapped == [p \in Player |-> W * off[p]]
<1>1. M \in Nat \ {0} /\ W \in Nat \ {0}
  BY LenIs, Width
<1>2. c \in Int /\ (pos => c = 1) /\ (~pos => c = 0)
  BY DEF Bool
<1>3. ASSUME NEW p \in Player
      PROVE  /\ b1[p] = Masked(s, o, l, fst, snd, p)[1] /\ b2[p] = Masked(s, o, l, fst, snd, p)[2]
             /\ b1[p] \in Int /\ b2[p] \in Int
  <2>1. 1 \in 1 .. 2 /\ 2 \in 1 .. 2
    OBVIOUS
  <2> QED BY <2>1, MaskedAdds
<1>4. ASSUME NEW d \in Player
      PROVE  u[d] \in Int /\ v[d] \in Int /\ (v[d] + u[d] = c \/ v[d] + u[d] = c + W)
  <2>1. u[d] = IcPart(s, o, l, a, b, "pre", d) /\ v[d] = IcPart(s, o, l, a, b, "suc", d)
    OBVIOUS
  <2>2. /\ IcPart(s, o, l, a, b, "suc", d) \in Word /\ IcPart(s, o, l, a, b, "pre", d) \in Word
        /\ Same(W, IcPart(s, o, l, a, b, "suc", d) + IcPart(s, o, l, a, b, "pre", d), c)
    BY PartsCompare DEF Bool
  <2>3. c \in {0, 1}
    BY DEF Bool
  <2> HIDE DEF u, v, c
  <2>4. u[d] \in Word /\ v[d] \in Word /\ Same(W, v[d] + u[d], c)
    BY <2>1, <2>2
  <2>5. u[d] \in Int /\ v[d] \in Int
    BY <2>4, Width DEF Word
  <2>6. v[d] + u[d] = c \/ v[d] + u[d] = c + W
    BY ONLY <2>3, <2>4, WordsWrap
  <2> QED BY <2>5, <2>6
<1>5. ASSUME NEW p \in Player
      PROVE  /\ x[p] = (b1[p] - b2[p]) * u[Suc(p)] /\ z[p] = (b1[p] - b2[p]) * v[Suc(p)]
             /\ x[p] \in Int /\ z[p] \in Int /\ t[p] \in Int /\ h[p] \in Int
             /\ t[p] = z[Suc(p)] /\ h[p] = (b1[p] - b2[p]) * c
  <2>1. ASSUME NEW q \in Player
        PROVE  /\ x[q] = (b1[q] - b2[q]) * u[Suc(q)] /\ z[q] = (b1[q] - b2[q]) * v[Suc(q)]
               /\ x[q] \in Int /\ z[q] \in Int /\ h[q] = (b1[q] - b2[q]) * c /\ h[q] \in Int
    <3>1. /\ x[q] = (b1[q] - b2[q]) * u[Suc(q)] /\ z[q] = (b1[q] - b2[q]) * v[Suc(q)]
          /\ h[q] = (b1[q] - b2[q]) * c
      OBVIOUS
    <3>2. Suc(q) \in Player
      BY Ring
    <3>3. u[Suc(q)] \in Int /\ v[Suc(q)] \in Int /\ b1[q] \in Int /\ b2[q] \in Int
      BY <1>3, <1>4, <3>2
    <3> HIDE DEF x, z, h, u, v, b1, b2, c
    <3>4. b1[q] - b2[q] \in Int
      BY <3>3
    <3> QED BY <1>2, <3>1, <3>3, <3>4
  <2>2. t[p] = z[Suc(p)] /\ Suc(p) \in Player
    BY Ring
  <2> HIDE DEF x, z, t, h, b1, b2, u, v, c
  <2> QED BY <2>1, <2>2
<1>6. ASSUME NEW p \in Player
      PROVE  C[p] \in Int /\ Same(M, C[p], e[p]) /\ e[p] \in Int /\ e[p] = b2[p] + r[p] /\ r[p] = x[p] + t[p]
  <2>1. Suc(p) \in Player /\ Pre(p) \in Player /\ Suc(Suc(p)) = Pre(p)
    BY Ring
  <2> DEFINE own == Masked(s, o, l, fst, snd, p)
             next == Masked(s, o, l, fst, snd, Suc(p))
  <2>2. C[p] = Choice(own, next, u[Suc(p)], v[Pre(p)], M)
    BY <2>1 DEF ChosenOf
  <2>3. /\ b1[p] = own[1] /\ b2[p] = own[2] /\ b1[Suc(p)] = next[1] /\ b2[Suc(p)] = next[2]
        /\ own[1] \in Int /\ own[2] \in Int /\ next[1] \in Int /\ next[2] \in Int
    BY <1>3, <2>1
  <2>4. u[Suc(p)] \in Int /\ v[Pre(p)] \in Int
    BY <1>4, <2>1
  <2>5. e[p] = b2[p] + r[p] /\ r[p] = x[p] + t[p] /\ e[p] = b2[p] + (x[p] + t[p])
    OBVIOUS
  <2> HIDE DEF own, next, u, v, M, C, b1, b2, e, r, x, t, z
  <2>6. /\ C[p] \in Int
        /\ Same(M, C[p], own[2] + ((own[1] - own[2]) * u[Suc(p)] + (next[1] - next[2]) * v[Pre(p)]))
    BY <1>1, <2>2, <2>3, <2>4, ChoiceIs
  <2>7. x[p] = (own[1] - own[2]) * u[Suc(p)]
    BY <1>5, <2>3
  <2>8. t[p] = (next[1] - next[2]) * v[Pre(p)]
    <3>1. z[Suc(p)] = (b1[Suc(p)] - b2[Suc(p)]) * v[Suc(Suc(p))]
      BY <1>5, <2>1
    <3> QED BY <1>5, <2>1, <2>3, <3>1
  <2>9. e[p] \in Int
    BY <1>3, <1>5, <2>5
  <2> QED BY <2>3, <2>5, <2>6, <2>7, <2>8, <2>9
<1>7. ASSUME NEW p \in Player
      PROVE  /\ g[p] = x[p] + z[p] /\ g[p] \in Int /\ j[p] = b2[p] + g[p] /\ j[p] \in Int
             /\ k[p] = b2[p] + h[p] /\ k[p] \in Int /\ j[p] = k[p] + wrapped[p]
             /\ slip[p] \in {0, 1} /\ off[p] = slip[p] * (b1[p] - b2[p]) /\ off[p] \in Int
             /\ wrapped[p] = W * off[p] /\ wrapped[p] \in Int
  <2>1. /\ g[p] = x[p] + z[p] /\ j[p] = b2[p] + g[p] /\ k[p] = b2[p] + h[p]
        /\ slip[p] = (IF v[Suc(p)] + u[Suc(p)] = c THEN 0 ELSE 1)
        /\ off[p] = slip[p] * (b1[p] - b2[p]) /\ wrapped[p] = W * off[p]
    OBVIOUS
  <2>2. Suc(p) \in Player
    BY Ring
  <2> HIDE DEF g, j, k, x, z, h, b1, b2, u, v, c, M, slip, off, wrapped
  <2> DEFINE D == b1[p] - b2[p]
             i == u[Suc(p)]
             n == v[Suc(p)]
  <2>3. D \in Int /\ i \in Int /\ n \in Int /\ (n + i = c \/ n + i = c + W)
    BY <1>3, <1>4, <2>2
  <2>4. x[p] = D * i /\ z[p] = D * n /\ h[p] = D * c
    BY <1>5
  <2>5. b2[p] \in Int
    BY <1>3
  <2>6. slip[p] = (IF n + i = c THEN 0 ELSE 1) /\ off[p] = slip[p] * D
    BY <2>1
  <2> HIDE DEF D, i, n
  <2>7. g[p] = D * (n + i) /\ n + i \in Int
    BY <2>1, <2>3, <2>4
  <2>8. g[p] = h[p] + wrapped[p] /\ h[p] \in Int /\ off[p] \in Int /\ wrapped[p] \in Int /\ slip[p] \in {0, 1}
    <3>1. CASE n + i = c
      <4>1. off[p] = 0 * D /\ slip[p] = 0
        BY <2>6, <3>1
      <4>2. off[p] = 0
        BY <2>3, <4>1
      <4>3. wrapped[p] = 0
        BY <1>1, <2>1, <4>2
      <4> QED BY <1>2, <2>3, <2>4, <2>7, <3>1, <4>1, <4>2, <4>3
    <3>2. CASE n + i # c
      <4>1. off[p] = 1 * D /\ slip[p] = 1 /\ n + i = c + W
        BY <2>3, <2>6, <3>2
      <4>2. off[p] = D /\ wrapped[p] = W * D
        BY <2>1, <2>3, <4>1
      <4>3. g[p] = D * (c + W)
        BY <2>7, <4>1
      <4>4. D * (c + W) = D * c + W * D /\ W * D \in Int /\ D * c \in Int
        BY <1>1, <1>2, <2>3
      <4> QED BY <2>3, <2>4, <4>1, <4>2, <4>3, <4>4
    <3> QED BY <3>1, <3>2
  <2> QED BY <2>1, <2>5, <2>8 DEF D
<1>8. Sum(t) = Sum(z)
  <2>1. \A p \in Player : z[p] \in Int
    BY <1>5
  <2> HIDE DEF z
  <2> QED BY <2>1, Turnings
<1>9. ASSUME NEW p \in Player
      PROVE  k[p] = IF pos THEN b1[p] ELSE b2[p]
  <2>1. k[p] = b2[p] + (b1[p] - b2[p]) * c
    OBVIOUS
  <2> HIDE DEF k, b1, b2, c, pos
  <2> QED BY <1>2, <1>3, <2>1
<1>10. /\ Same(M, Sum(b1), Sum(fst)) /\ Same(M, Sum(b2), Sum(snd))
  <2>1. 1 \in 1 .. 2 /\ 2 \in 1 .. 2 /\ 2 # 1
    OBVIOUS
  <2>2. /\ b1 = [p \in Player |-> Masked(s, o, l, fst, snd, p)[1]]
        /\ b2 = [p \in Player |-> Masked(s, o, l, fst, snd, p)[2]]
    BY <1>3
  <2>3. Same(M, Sum([p \in Player |-> Masked(s, o, l, fst, snd, p)[1]]), Sum(fst))
    <3>1. Same(M, Sum([p \in Player |-> Masked(s, o, l, fst, snd, p)[1]]), Sum(IF 1 = 1 THEN fst ELSE snd))
      BY <2>1, MaskedAdds
    <3> QED BY <3>1
  <2>4. Same(M, Sum([p \in Player |-> Masked(s, o, l, fst, snd, p)[2]]), Sum(snd))
    <3>1. Same(M, Sum([p \in Player |-> Masked(s, o, l, fst, snd, p)[2]]), Sum(IF 2 = 1 THEN fst ELSE snd))
      BY <2>1, MaskedAdds
    <3> QED BY <2>1, <3>1
  <2> HIDE DEF b1, b2, M
  <2> QED BY <2>2, <2>3, <2>4
<1>11. C = ChosenOf(s, o, l, a, b, fst, snd)
  OBVIOUS
<1>18. /\ slip \in [Player -> {0, 1}]
       /\ off = [p \in Player |-> slip[p] * (Masked(s, o, l, fst, snd, p)[1]
                                          - Masked(s, o, l, fst, snd, p)[2])]
  <2>1. slip \in [Player -> {0, 1}]
    OBVIOUS
  <2> HIDE DEF slip
  <2> QED BY <2>1
<1> HIDE DEF C, M, B, u, v, pos, c, b1, b2, x, z, t, e, g, h, j, k, r, slip, off, wrapped
<1>12. Sum(e) = Sum(b2) + (Sum(x) + Sum(z))
  <2>1. \A p \in Player : r[p] \in Int
    BY <1>5, <1>6
  <2>2. Sum(r) = Sum(x) + Sum(t) /\ Sum(e) = Sum(b2) + Sum(r)
    BY <1>3, <1>5, <1>6, <2>1, SumsAdd
  <2> QED BY <1>8, <2>2
<1>13. Sum(j) = Sum(b2) + (Sum(x) + Sum(z))
  <2>1. Sum(g) = Sum(x) + Sum(z)
    BY <1>5, <1>7, SumsAdd
  <2>2. Sum(j) = Sum(b2) + Sum(g)
    BY <1>3, <1>7, SumsAdd
  <2> QED BY <2>1, <2>2
<1>14. Same(M, Sum(C), Sum(e))
  BY <1>1, <1>6, RoundSame
<1>15. Sum(k) = IF pos THEN Sum(b1) ELSE Sum(b2)
  <2>1. k[0] = (IF pos THEN b1[0] ELSE b2[0]) /\ k[1] = (IF pos THEN b1[1] ELSE b2[1])
        /\ k[2] = (IF pos THEN b1[2] ELSE b2[2])
    BY <1>9 DEF Player
  <2> QED BY <2>1 DEF Sum
<1>16. Sum(j) = Sum(k) + W * Sum(off) /\ Sum(off) \in Int /\ Sum(k) \in Int
  <2>1. Sum(j) = Sum(k) + Sum(wrapped)
    BY <1>7, SumsAdd
  <2>2. Sum(wrapped) = W * Sum(off)
    <3>1. /\ wrapped[0] = W * off[0] /\ wrapped[1] = W * off[1] /\ wrapped[2] = W * off[2]
          /\ off[0] \in Int /\ off[1] \in Int /\ off[2] \in Int
      BY <1>7 DEF Player
    <3> QED BY <1>1, <3>1 DEF Sum
  <2>3. Sum(off) \in Int /\ Sum(k) \in Int
    BY <1>7, Small3, Round
  <2> QED BY <2>1, <2>2, <2>3
<1> DEFINE to == IF pos THEN Sum(fst) ELSE Sum(snd)
           sl == W * Sum(off)
<1>17. Same(M, Sum(C), to + sl)
  <2>1. Same(M, Sum(k), to) /\ to \in Int /\ sl \in Int
    <3>1. Sum(fst) \in Int /\ Sum(snd) \in Int
      BY Small3, Round
    <3> QED BY <1>1, <1>10, <1>15, <1>16, <3>1
  <2>2. Same(M, sl, sl)
    BY DEF Same
  <2>3. Sum(j) = Sum(k) + sl
    BY <1>16
  <2> HIDE DEF to, sl
  <2>4. Same(M, Sum(k) + sl, to + sl)
    BY <1>1, <1>16, <2>1, <2>2, SamePlus
  <2>5. Sum(e) = Sum(k) + sl
    BY <1>12, <1>13, <2>3
  <2> QED BY <1>14, <2>4, <2>5, SameTrans
<1> QED BY <1>6, <1>11, <1>17, <1>18 DEF M, pos, ChosenUpTo

(* CSOT chooses (online_2 of csot.hpp): the shares of the choice add up to  *)
(* the first block if the difference of the words is not negative, and to   *)
(* the second otherwise, plus W times the masked difference of each player  *)
(* for whom the two parts of the comparison wrap; for all shares, masks and *)
(* keys, and every length, whether it divides W or not.                     *)
THEOREM ChosenAdds ==
  ASSUME NEW s \in Seeds, NEW o \in {"x", "n"}, NEW l \in 0 .. Deep,
         NEW a, \A p \in Player : a[p] \in Int, NEW b, \A p \in Player : b[p] \in Int,
         NEW fst, \A p \in Player : fst[p] \in Int, NEW snd, \A p \in Player : snd[p] \in Int
  PROVE  /\ \A p \in Player : ChosenOf(s, o, l, a, b, fst, snd)[p] \in Int
         /\ \E slip \in [Player -> {0, 1}] :
              Same(LenOf(o), Sum(ChosenOf(s, o, l, a, b, fst, snd)),
                   (IF (Sum(b) - Sum(a)) % W \in 0 .. Tao THEN Sum(fst) ELSE Sum(snd))
                     + W * Sum([p \in Player |-> slip[p] * (Masked(s, o, l, fst, snd, p)[1]
                                                              - Masked(s, o, l, fst, snd, p)[2])]))
<1>1. /\ \A p \in Player : ChosenOf(s, o, l, a, b, fst, snd)[p] \in Int
      /\ ChosenUpTo(s, o, l, a, b, fst, snd)
  BY ChosenSlips
<1> QED BY <1>1 DEF ChosenUpTo

(* What the players hold are numbers on every level *)
Held(h) == \A p \in Player : h.ki[p] \in Int /\ h.idi[p] \in Int /\ h.y[p] \in Int

LEMMA PickedInts ==
  ASSUME NEW w, NEW tr, NEW d, Adds(w, tr, d), NEW l \in 0 .. Deep, NEW h, Held(h)
  PROVE  /\ \A p \in Player : Feature(w, h, l)[p] \in Int
         /\ \A f \in Fields, p \in Player : Field(w, h, l, f)[p] \in Int
<1>1. (\A p \in Player : h.ki[p] \in Int) /\ (\A p \in Player : h.idi[p] \in Int)
  BY DEF Held
<1> QED BY <1>1, FeaturePicked, FieldPicked

LEMMA OnwardHeld ==
  ASSUME NEW w, NEW tr, NEW d, Adds(w, tr, d), NEW l \in 0 .. Deep, NEW h, Held(h)
  PROVE  Held(Onward(w, h, l))
<1> DEFINE a == Feature(w, h, l)
           b == Field(w, h, l, "t")
           v == Field(w, h, l, "v")
<1>1. w.seed \in Seeds
  BY DEF Adds
<1>2. /\ \A p \in Player : a[p] \in Int
      /\ \A p \in Player : b[p] \in Int
      /\ \A p \in Player : v[p] \in Int
      /\ \A f \in Fields : \A p \in Player : Field(w, h, l, f)[p] \in Int
  <2>1. "t" \in Fields /\ "v" \in Fields
    BY DEF Fields
  <2> QED BY <2>1, PickedInts
<1>3. ASSUME NEW o \in {"x", "n"}
      PROVE  \A p \in Player : Next2(w, h, l, o)[p] \in Int
  <2> DEFINE fst == Field(w, h, l, First(o))
             snd == Field(w, h, l, Second(o))
  <2>1. (\A p \in Player : fst[p] \in Int) /\ (\A p \in Player : snd[p] \in Int)
    <3>1. First(o) \in Fields /\ Second(o) \in Fields
      BY DEF First, Second, Fields
    <3> QED BY <1>2, <3>1
  <2>2. Next2(w, h, l, o) = ChosenOf(w.seed, o, l, a, b, fst, snd)
    BY DEF Next2
  <2> HIDE DEF a, b, fst, snd
  <2> QED BY <1>1, <1>2, <2>1, <2>2, ChosenAdds
<1>4. ASSUME NEW p \in Player
      PROVE  (h.y[p] + v[p]) % W \in Int
  <2> DEFINE c == h.y[p] + v[p]
  <2>1. c \in Int
    BY <1>2 DEF Held
  <2> HIDE DEF c
  <2>2. c % W \in Int
    BY <2>1, Width, SameMod
  <2> QED BY <2>2 DEF c
<1>5. /\ Onward(w, h, l).ki = Next2(w, h, l, "x") /\ Onward(w, h, l).idi = Next2(w, h, l, "n")
      /\ \A p \in Player : Onward(w, h, l).y[p] = (h.y[p] + v[p]) % W
  BY DEF Onward
<1> HIDE DEF v
<1> QED BY <1>3, <1>4, <1>5 DEF Held

LEMMA WalkInts ==
  ASSUME seed \in Seeds, tree \in Trees, data \in Datas, NEW g, IsWalk(World, g)
  PROVE  \A l \in 1 .. Deep : Held(g[l])
<1> DEFINE P == { n \in Nat : n + 1 <= Deep => Held(g[n + 1]) }
           w == World
<1>1. Deep \in Nat \ {0}
  BY SizesAssumption
<1>2. Adds(w, tree, data)
  BY WorldAdds
<1>3. g[1] = w.start /\ \A l \in 1 .. Deep : g[l + 1] = Onward(w, g[l], l)
  BY DEF IsWalk
<1> HIDE DEF w
<1>4. 0 \in P
  <2>1. Held(w.start)
    BY <1>2 DEF Adds, Held
  <2> QED BY <1>3, <2>1
<1>5. ASSUME NEW n \in Nat, n \in P
      PROVE  n + 1 \in P
  <2> SUFFICES ASSUME (n + 1) + 1 <= Deep
               PROVE  Held(g[(n + 1) + 1])
    OBVIOUS
  <2>1. n + 1 \in 1 .. Deep /\ n + 1 \in 0 .. Deep /\ n + 1 <= Deep
    BY <1>1
  <2>2. Held(g[n + 1])
    BY <1>5, <2>1
  <2>3. Held(Onward(w, g[n + 1], n + 1))
    BY <1>2, <2>1, <2>2, OnwardHeld
  <2> QED BY <1>3, <2>1, <2>3
<1>6. \A n \in Nat : n \in P
  <2> HIDE DEF P
  <2> QED BY <1>4, <1>5, CountUp
<1>7. ASSUME NEW l \in 1 .. Deep
      PROVE  Held(g[l])
  <2>1. l - 1 \in Nat /\ (l - 1) + 1 = l /\ (l - 1) + 1 <= Deep
    BY <1>1
  <2>2. l - 1 \in P
    BY <1>6, <2>1
  <2> QED BY <2>1, <2>2
<1> QED BY <1>7

-------------------------------------------------------------------------------
(* What a player sends, word by word *)

(* What p has sent q, and what q has taken of it *)
Sent(p, q) == IF q = Suc(p) THEN SentToSuc(p) ELSE SentToPre(p)
Taken(p, q) == IF q = Suc(p) THEN TakenFromPre(q) ELSE TakenFromSuc(q)

Third(p, q) == IF q = Suc(p) THEN Pre(p) ELSE Suc(p)
Deposited(w, q, p) == IF q = Suc(p) THEN w.toSuc ELSE w.toPre
SotKey(s, o, p, q, t) == PointKey(q = Suc(p), FiliOf(s, o, t, p), PointPad(s, o, t, p))
IcKeyOf(s, p, q, n) ==
  DealtIc(s, CsotName(IF n % 2 = 1 THEN "x" ELSE "n", (n + 1) \div 2), p, IF q = Suc(p) THEN "suc" ELSE "pre")

(* What the players hold g[l] and send on level l *)
Away(w, g, l, o) == SotDeltas(w.seed, o, IF o = "x" THEN g[l].ki ELSE g[l].idi, l)
Apart(w, g, l, o) == CsotDeltas(w.seed, o, l, Feature(w, g[l], l), Field(w, g[l], l, "t"))
Blocks(w, g, l, o, p) == Masked(w.seed, o, l, Field(w, g[l], l, First(o)), Field(w, g[l], l, Second(o)), p)
LevelWords(w, g, p, q, l) ==
  LET x == Away(w, g, l, "x")
      n == Away(w, g, l, "n")
      cx == Apart(w, g, l, "x")
      cn == Apart(w, g, l, "n")
      r == Third(p, q)
  IN  IF q = Suc(p)
      THEN << x[p][p], x[r][p], n[p][p], n[r][p], cx[p][p], cx[r][p], cn[p][p], cn[r][p] >>
      ELSE << x[p][p], x[r][p], n[p][p], n[r][p], cx[p][p], cx[r][p], Blocks(w, g, l, "x", p),
              cn[p][p], cn[r][p], Blocks(w, g, l, "n", p) >>
Words(p, q) == IF q = Suc(p) THEN 8 ELSE 10

(* The k-th word p sends q: the deposit, the keys, and the words of each level *)
Ahead(p) == Deal(p) + 2 * Deep + IcCount
Nth(w, g, p, q, k) ==
  IF k <= Deal(p) THEN Deposited(w, q, p)[k]
  ELSE IF k <= Deal(p) + Deep THEN SotKey(w.seed, "x", p, q, k - Deal(p))
  ELSE IF k <= Deal(p) + 2 * Deep THEN SotKey(w.seed, "n", p, q, k - Deal(p) - Deep)
  ELSE IF k <= Ahead(p) THEN IcKeyOf(w.seed, p, q, k - Deal(p) - 2 * Deep)
  ELSE LevelWords(w, g, p, q, ((k - Ahead(p) - 1) \div Words(p, q)) + 1)[((k - Ahead(p) - 1) % Words(p, q)) + 1]

(* What waits is what comes next *)
Streams(w, g) ==
  \A p, q \in Player : p # q =>
    \A j \in 1 .. Waiting(p, q) : chan[p][q][j] = Nth(w, g, p, q, Taken(p, q) + j)

LEMMA NthDeal ==
  ASSUME NEW w, NEW g, NEW q \in Player, NEW j \in 1 .. 4
  PROVE  Nth(w, g, Owner, q, j) = Deposited(w, q, Owner)[j]
<1>1. j <= Deal(Owner)
  BY DEF Deal
<1> QED BY <1>1 DEF Nth

LEMMA NthX ==
  ASSUME NEW w, NEW g, NEW p \in Player, NEW q \in Player, NEW j \in 1 .. Deep
  PROVE  Nth(w, g, p, q, Deal(p) + j) = SotKey(w.seed, "x", p, q, j)
<1> DEFINE a == Deal(p)
           b == IcCount
           k == a + j
<1>1. Deep \in Nat /\ a \in Nat /\ b \in Nat /\ Ahead(p) = a + 2 * Deep + b
  BY SizesAssumption DEF Deal, IcCount, Ahead
<1>2. j \in 1 .. Deep
  OBVIOUS
<1> HIDE DEF a, b
<1>3. ~(k <= a) /\ k <= a + Deep /\ k - a = j
  BY <1>1, <1>2
<1> HIDE DEF k
<1>4. Nth(w, g, p, q, k) = SotKey(w.seed, "x", p, q, j)
  BY <1>3 DEF Nth, a
<1> QED BY <1>4 DEF k, a

LEMMA NthN ==
  ASSUME NEW w, NEW g, NEW p \in Player, NEW q \in Player, NEW j \in 1 .. Deep
  PROVE  Nth(w, g, p, q, Deal(p) + Deep + j) = SotKey(w.seed, "n", p, q, j)
<1> DEFINE a == Deal(p)
           b == IcCount
           k == a + Deep + j
<1>1. Deep \in Nat /\ a \in Nat /\ b \in Nat /\ Ahead(p) = a + 2 * Deep + b
  BY SizesAssumption DEF Deal, IcCount, Ahead
<1>2. j \in 1 .. Deep
  OBVIOUS
<1> HIDE DEF a, b
<1>3. ~(k <= a) /\ ~(k <= a + Deep) /\ k <= a + 2 * Deep /\ k - a - Deep = j
  BY <1>1, <1>2
<1> HIDE DEF k
<1>4. Nth(w, g, p, q, k) = SotKey(w.seed, "n", p, q, j)
  BY <1>3 DEF Nth, a
<1> QED BY <1>4 DEF k, a

LEMMA NthIc ==
  ASSUME NEW w, NEW g, NEW p \in Player, NEW q \in Player, NEW j \in 1 .. IcCount
  PROVE  Nth(w, g, p, q, Deal(p) + 2 * Deep + j) = IcKeyOf(w.seed, p, q, j)
<1> DEFINE a == Deal(p)
           b == IcCount
           k == a + 2 * Deep + j
<1>1. Deep \in Nat /\ a \in Nat /\ b \in Nat /\ Ahead(p) = a + 2 * Deep + b
  BY SizesAssumption DEF Deal, IcCount, Ahead
<1>2. j \in 1 .. b
  OBVIOUS
<1> HIDE DEF a, b
<1>3. /\ ~(k <= a) /\ ~(k <= a + Deep) /\ ~(k <= a + 2 * Deep)
      /\ k <= Ahead(p) /\ k - a - 2 * Deep = j
  BY <1>1, <1>2
<1> HIDE DEF k
<1>4. Nth(w, g, p, q, k) = IcKeyOf(w.seed, p, q, j)
  BY <1>3 DEF Nth, a
<1> QED BY <1>4 DEF k, a

LEMMA NthLevel ==
  ASSUME NEW w, NEW g, NEW p \in Player, NEW q \in Player, NEW l \in Nat \ {0}, NEW j \in 1 .. Words(p, q)
  PROVE  Nth(w, g, p, q, Ahead(p) + Words(p, q) * (l - 1) + j) = LevelWords(w, g, p, q, l)[j]
<1> DEFINE a == Ahead(p)
           d == Deal(p)
           b == IcCount
           m == Words(p, q)
           k == a + m * (l - 1) + j
           i == k - a - 1
<1>1. Deep \in Nat /\ d \in Nat /\ b \in Nat /\ a = d + 2 * Deep + b /\ m \in Nat \ {0}
  BY SizesAssumption DEF Deal, IcCount, Ahead, Words
<1>2. m * (l - 1) \in Nat
  <2>1. l - 1 \in Nat
    OBVIOUS
  <2> HIDE DEF m
  <2> QED BY <1>1, <2>1
<1>3. j \in 1 .. m
  OBVIOUS
<1> DEFINE c == m * (l - 1)
<1> HIDE DEF m, d, b, a, c
<1>4. /\ k = a + c + j /\ c \in Nat
  BY <1>2 DEF c
<1> HIDE DEF k
<1>5. /\ ~(k <= d) /\ ~(k <= d + Deep) /\ ~(k <= d + 2 * Deep) /\ ~(k <= a)
      /\ i = c + (j - 1) /\ j - 1 \in 0 .. (m - 1) /\ i \in Int
  BY <1>1, <1>3, <1>4
<1>6. i = m * (l - 1) + (j - 1)
  BY <1>5 DEF c
<1> HIDE DEF i
<1>7. i % m = j - 1 /\ i \div m = l - 1
  <2>1. l - 1 \in Int
    OBVIOUS
  <2>2. i % m = j - 1
    BY <1>1, <1>5, <1>6, <2>1, Remainder
  <2>3. i \div m = l - 1
    BY <1>1, <1>5, <1>6, <2>1, Quotient
  <2> QED BY <2>2, <2>3
<1>8. (i \div m) + 1 = l /\ (i % m) + 1 = j
  BY <1>3, <1>7
<1>9. Nth(w, g, p, q, k) = LevelWords(w, g, p, q, (i \div m) + 1)[(i % m) + 1]
  BY <1>5 DEF Nth, a, d, m, i
<1> QED BY <1>8, <1>9 DEF k, a, m

-------------------------------------------------------------------------------
(* The streams, at a step *)

LEMMA TakenIs ==
  ASSUME NEW p \in Player
  PROVE  /\ Sent(p, Suc(p)) = SentToSuc(p) /\ Sent(p, Pre(p)) = SentToPre(p)
         /\ Taken(p, Suc(p)) = TakenFromPre(Suc(p)) /\ Taken(p, Pre(p)) = TakenFromSuc(Pre(p))
         /\ Taken(Suc(p), p) = TakenFromSuc(p) /\ Taken(Pre(p), p) = TakenFromPre(p)
<1>1. Pre(p) # Suc(p) /\ Suc(Suc(p)) # p /\ Suc(Pre(p)) = p
  BY Ring
<1> QED BY <1>1 DEF Sent, Taken

LEMMA Waits ==
  ASSUME PaceInv, NEW p \in Player, NEW q \in Player, p # q
  PROVE  /\ Waiting(p, q) = Sent(p, q) - Taken(p, q)
         /\ Waiting(p, q) \in Nat /\ Sent(p, q) \in Int /\ Taken(p, q) \in Int
<1>1. PICK S : chan \in Queues(S)
  BY DEF PaceInv, PaceOK
<1>2. Waiting(p, q) \in Nat
  BY <1>1 DEF Queues, Waiting
<1>3. Sent(p, q) \in Int /\ Taken(p, q) \in Int
  BY CountInt DEF PaceInv, Sent, Taken
<1>4. q = Suc(p) \/ q = Pre(p)
  BY Ring
<1>5. /\ Waiting(p, Suc(p)) = SentToSuc(p) - TakenFromPre(Suc(p))
      /\ Waiting(p, Pre(p)) = SentToPre(p) - TakenFromSuc(Pre(p))
  BY DEF PaceInv, Counts
<1>6. Waiting(p, q) = Sent(p, q) - Taken(p, q)
  BY <1>4, <1>5, TakenIs
<1> QED BY <1>2, <1>3, <1>6

(* A step of p leaves alone what the others have taken *)
LEMMA OthersTook ==
  ASSUME PaceInv, NEW p \in Player, NEW step, Goto(p, step),
         \A q \in Player \ {p} : level'[q] = level[q]
  PROVE  \A q \in Player \ {p} : TakenFromSuc(q)' = TakenFromSuc(q) /\ TakenFromPre(q)' = TakenFromPre(q)
<1> SUFFICES ASSUME NEW q \in Player \ {p}
             PROVE  TakenFromSuc(q)' = TakenFromSuc(q) /\ TakenFromPre(q)' = TakenFromPre(q)
  OBVIOUS
<1>1. pc'[q] = pc[q] /\ level'[q] = level[q]
  BY DEF Goto, PaceInv, PaceOK
<1> QED BY <1>1 DEF TakenFromSuc, TakenFromPre, Once, Deal

LEMMA StreamsSend ==
  ASSUME PaceInv, NEW w, NEW g, Streams(w, g), NEW p \in Player, NEW step, Goto(p, step), level' = level,
         NEW A, NEW x \in Seq(A), NEW z \in Seq(A), Send(p, x, z),
         TakenFromSuc(p)' = TakenFromSuc(p) /\ TakenFromPre(p)' = TakenFromPre(p),
         \A j \in 1 .. Len(x) : x[j] = Nth(w, g, p, Suc(p), SentToSuc(p) + j),
         \A j \in 1 .. Len(z) : z[j] = Nth(w, g, p, Pre(p), SentToPre(p) + j)
  PROVE  Streams(w, g)'
<1>1. PICK B : chan \in Queues(B)
  BY DEF PaceInv, PaceOK
<1>2. \A q \in Player : TakenFromSuc(q)' = TakenFromSuc(q) /\ TakenFromPre(q)' = TakenFromPre(q)
  BY OthersTook
<1>3. ASSUME NEW q \in Player, NEW r \in Player
      PROVE  Taken(q, r)' = Taken(q, r)
  BY <1>2 DEF Taken
<1> SUFFICES ASSUME NEW q \in Player, NEW r \in Player, q # r, NEW j \in 1 .. Waiting(q, r)'
             PROVE  chan'[q][r][j] = Nth(w, g, q, r, Taken(q, r) + j)
  BY <1>3 DEF Streams
<1>4. ASSUME j \in 1 .. Waiting(q, r)
      PROVE  chan[q][r][j] = Nth(w, g, q, r, Taken(q, r) + j)
  BY <1>4 DEF Streams
<1> DEFINE c == chan
           d == chan'
<1>5. c \in [Player -> [Player -> Seq(B)]]
  BY <1>1 DEF Queues
<1>6. d = [c EXCEPT ![p][Suc(p)] = @ \o x, ![p][Pre(p)] = @ \o z]
  BY DEF Send
<1>7. Suc(p) \in Player /\ Pre(p) \in Player /\ Suc(p) # p /\ Pre(p) # p /\ Suc(p) # Pre(p)
      /\ (r = p \/ r = Suc(p) \/ r = Pre(p))
  BY Ring
<1>8. Waiting(q, r)' = Len(d[q][r]) /\ Waiting(q, r) = Len(c[q][r]) /\ c[q][r] \in Seq(B)
  BY <1>5 DEF Waiting
<1> HIDE DEF c, d
<1>9. CASE q # p
  <2>1. d[q][r] = c[q][r]
    BY <1>5, <1>6, <1>7, <1>9
  <2> QED BY <1>4, <1>8, <2>1 DEF c, d
<1>10. ASSUME NEW u \in Seq(A), d[q][r] = c[q][r] \o u,
              \A i \in 1 .. Len(u) : u[i] = Nth(w, g, q, r, Sent(q, r) + i)
       PROVE  chan'[q][r][j] = Nth(w, g, q, r, Taken(q, r) + j)
  <2> DEFINE v == c[q][r]
             n == Waiting(q, r)
  <2>1. n = Sent(q, r) - Taken(q, r) /\ n \in Nat /\ Sent(q, r) \in Int /\ Taken(q, r) \in Int
    BY Waits
  <2>2. v \in Seq(B) /\ Len(v) = n
    BY <1>8
  <2>3. Len(v \o u) = n + Len(u) /\ Len(u) \in Nat
    <3> HIDE DEF v, n
    <3> DEFINE S == A \cup B
    <3>1. v \in Seq(S) /\ u \in Seq(S)
      <4>1. Seq(A) \subseteq Seq(S) /\ Seq(B) \subseteq Seq(S)
        <5>1. A \subseteq S /\ B \subseteq S
          OBVIOUS
        <5> QED BY <5>1, Wider
      <4> HIDE DEF S
      <4> QED BY <2>2, <4>1
    <3> HIDE DEF S
    <3>2. Len(v \o u) = Len(v) + Len(u) /\ Len(u) \in Nat
      BY <3>1
    <3> QED BY <2>2, <3>2
  <2>4. j \in 1 .. (n + Len(u)) /\ j \in Int
    BY <1>8, <1>10, <2>3
  <2> HIDE DEF v, n
  <2>5. CASE j <= n
    <3>1. j \in 1 .. n
      BY <2>1, <2>4, <2>5
    <3>2. (v \o u)[j] = v[j]
      BY <2>2, <3>1
    <3>3. v[j] = Nth(w, g, q, r, Taken(q, r) + j)
      BY <1>4, <3>1 DEF v, n, c
    <3> QED BY <1>10, <3>2, <3>3 DEF v, d
  <2>6. CASE j > n
    <3>1. j - n \in 1 .. Len(u) /\ Sent(q, r) + (j - n) = Taken(q, r) + j
      BY <2>1, <2>3, <2>4, <2>6, SMTT(60)
    <3>2. (v \o u)[j] = u[j - n]
      <4>1. j \in 1 .. (Len(v) + Len(u)) /\ j > Len(v)
        BY <2>2, <2>4, <2>6
      <4>2. (v \o u)[j] = u[j - Len(v)]
        BY <2>2, <4>1
      <4> QED BY <2>2, <4>2
    <3>3. u[j - n] = Nth(w, g, q, r, Sent(q, r) + (j - n))
      BY <1>10, <3>1
    <3>4. d[q][r][j] = Nth(w, g, q, r, Sent(q, r) + (j - n))
      BY <1>10, <3>2, <3>3 DEF v
    <3> QED BY <3>1, <3>4 DEF d
  <2> QED BY <2>1, <2>4, <2>5, <2>6
<1>11. CASE q = p /\ r = Suc(p)
  <2>1. d[q][r] = c[q][r] \o x
    BY <1>5, <1>6, <1>7, <1>11
  <2>2. Sent(q, r) = SentToSuc(p)
    BY <1>11, TakenIs
  <2> QED BY <1>10, <1>11, <2>1, <2>2
<1>12. CASE q = p /\ r = Pre(p)
  <2>1. d[q][r] = c[q][r] \o z
    BY <1>5, <1>6, <1>7, <1>12
  <2>2. Sent(q, r) = SentToPre(p)
    BY <1>12, TakenIs
  <2> QED BY <1>10, <1>12, <2>1, <2>2
<1> QED BY <1>7, <1>9, <1>11, <1>12

LEMMA StreamsReceive ==
  ASSUME PaceInv, NEW w, NEW g, Streams(w, g), NEW p \in Player, NEW step, Goto(p, step),
         \A q \in Player \ {p} : level'[q] = level[q],
         NEW m \in Nat, NEW n \in Nat, Arrived(p, m, n), Receive(p, m, n),
         TakenFromSuc(p)' = TakenFromSuc(p) + m, TakenFromPre(p)' = TakenFromPre(p) + n
  PROVE  Streams(w, g)'
<1>1. PICK B : chan \in Queues(B)
  BY DEF PaceInv, PaceOK
<1>2. \A q \in Player \ {p} : TakenFromSuc(q)' = TakenFromSuc(q) /\ TakenFromPre(q)' = TakenFromPre(q)
  BY OthersTook
<1> DEFINE c == chan
           d == chan'
           s == Suc(p)
           t == Pre(p)
<1>3. s \in Player /\ t \in Player /\ s # p /\ t # p /\ s # t /\ \A q \in Player : q = p \/ q = s \/ q = t
  BY Ring
<1>4. ASSUME NEW q \in Player, NEW r \in Player, r # p
      PROVE  Taken(q, r)' = Taken(q, r)
  BY <1>2, <1>4 DEF Taken
<1>5. Taken(s, p)' = Taken(s, p) + m /\ Taken(t, p)' = Taken(t, p) + n
  <2>1. Taken(s, p) = TakenFromSuc(p) /\ Taken(t, p) = TakenFromPre(p)
    BY TakenIs
  <2>2. Taken(s, p)' = TakenFromSuc(p)' /\ Taken(t, p)' = TakenFromPre(p)'
    <3>1. Suc(s) # p /\ Suc(t) = p
      BY Ring
    <3> HIDE DEF s, t
    <3> QED BY <3>1 DEF Taken
  <2> QED BY <2>1, <2>2
<1>6. c \in [Player -> [Player -> Seq(B)]]
  BY <1>1 DEF Queues
<1>7. d = [c EXCEPT ![s][p] = Dropped(@, m), ![t][p] = Dropped(@, n)]
  BY DEF Receive
<1>8. Len(c[s][p]) >= m /\ Len(c[t][p]) >= n
  BY DEF Arrived
<1> SUFFICES ASSUME NEW q \in Player, NEW r \in Player, q # r, NEW j \in 1 .. Waiting(q, r)'
             PROVE  d[q][r][j] = Nth(w, g, q, r, Taken(q, r)' + j)
  BY DEF Streams
<1>9. \A i \in 1 .. Waiting(q, r) : c[q][r][i] = Nth(w, g, q, r, Taken(q, r) + i)
  BY DEF Streams
<1>10. Waiting(q, r)' = Len(d[q][r]) /\ Waiting(q, r) = Len(c[q][r]) /\ c[q][r] \in Seq(B)
  BY <1>6 DEF Waiting
<1> HIDE DEF c, d, s, t
<1>11. CASE r # p
  <2>1. d[q][r] = c[q][r]
    BY <1>3, <1>6, <1>7, <1>11
  <2> QED BY <1>4, <1>9, <1>10, <1>11, <2>1
<1>12. ASSUME NEW k \in Nat, Len(c[q][r]) >= k, d[q][r] = Dropped(c[q][r], k),
              Taken(q, r)' = Taken(q, r) + k
       PROVE  d[q][r][j] = Nth(w, g, q, r, Taken(q, r)' + j)
  <2> DEFINE v == c[q][r]
  <2>1. v \in Seq(B) /\ Len(v) >= k /\ Len(v) \in Nat
    BY <1>10, <1>12
  <2>2. Len(Dropped(v, k)) = Len(v) - k
    <3> HIDE DEF v
    <3> QED BY <2>1 DEF Dropped
  <2>3. j \in 1 .. (Len(v) - k) /\ j \in Int
    BY <1>10, <1>12, <2>2
  <2>4. Dropped(v, k)[j] = v[k + j] /\ k + j \in 1 .. Len(v)
    <3> HIDE DEF v
    <3> QED BY <2>1, <2>3 DEF Dropped
  <2>5. Taken(q, r) \in Int
    BY Waits
  <2>6. v[k + j] = Nth(w, g, q, r, Taken(q, r) + (k + j))
    BY <1>9, <1>10, <2>4
  <2>7. Taken(q, r) + (k + j) = (Taken(q, r) + k) + j
    BY <2>3, <2>5
  <2> HIDE DEF v
  <2>8. d[q][r][j] = v[k + j]
    BY <1>12, <2>4 DEF v
  <2> QED BY <1>12, <2>6, <2>7, <2>8
<1>13. CASE r = p /\ q = s
  <2>1. d[s][p] = Dropped(c[s][p], m)
    BY <1>3, <1>6, <1>7
  <2> QED BY <1>5, <1>8, <1>12, <1>13, <2>1
<1>14. CASE r = p /\ q = t
  <2>1. d[t][p] = Dropped(c[t][p], n)
    BY <1>3, <1>6, <1>7
  <2> QED BY <1>5, <1>8, <1>12, <1>14, <2>1
<1> QED BY <1>3, <1>11, <1>13, <1>14

(* What p takes is what comes next *)
LEMMA Came ==
  ASSUME PaceInv, NEW w, NEW g, Streams(w, g), NEW p \in Player, NEW m \in Nat, NEW n \in Nat, Arrived(p, m, n)
  PROVE  /\ \A i \in 0 .. m, j \in 1 .. m : j <= i => FromSuc(p, i)[j] = Nth(w, g, Suc(p), p, TakenFromSuc(p) + j)
         /\ \A i \in 0 .. n, j \in 1 .. n : j <= i => FromPre(p, i)[j] = Nth(w, g, Pre(p), p, TakenFromPre(p) + j)
         /\ \A i \in 0 .. m : FromSuc(p, i) = [j \in 1 .. i |-> FromSuc(p, i)[j]]
         /\ \A i \in 0 .. n : FromPre(p, i) = [j \in 1 .. i |-> FromPre(p, i)[j]]
<1>1. PICK B : chan \in Queues(B)
  BY DEF PaceInv, PaceOK
<1>2. Suc(p) \in Player /\ Pre(p) \in Player /\ Suc(p) # p /\ Pre(p) # p
  BY Ring
<1>3. ASSUME NEW q \in Player, q # p, NEW k \in Nat, Len(chan[q][p]) >= k, NEW i \in 0 .. k
      PROVE  /\ \A j \in 1 .. k : j <= i => SubSeq(chan[q][p], 1, i)[j] = Nth(w, g, q, p, Taken(q, p) + j)
             /\ SubSeq(chan[q][p], 1, i) = [j \in 1 .. i |-> SubSeq(chan[q][p], 1, i)[j]]
  <2> DEFINE v == chan[q][p]
  <2>1. v \in Seq(B)
    BY <1>1 DEF Queues
  <2>2. \A j \in 1 .. Len(v) : v[j] = Nth(w, g, q, p, Taken(q, p) + j)
    BY <1>3 DEF Streams, Waiting
  <2>3. Len(v) >= k
    BY <1>3
  <2> HIDE DEF v
  <2>4. \A j \in 1 .. k : j \in 1 .. Len(v) /\ (j <= i => SubSeq(v, 1, i)[j] = v[j])
    BY <2>1, <2>3
  <2>5. SubSeq(v, 1, i) = [j \in 1 .. i |-> SubSeq(v, 1, i)[j]]
    BY <2>1, <2>3
  <2> QED BY <2>2, <2>4, <2>5 DEF v
<1>4. Taken(Suc(p), p) = TakenFromSuc(p) /\ Taken(Pre(p), p) = TakenFromPre(p)
  BY TakenIs
<1>5. Len(chan[Suc(p)][p]) >= m /\ Len(chan[Pre(p)][p]) >= n
  BY DEF Arrived
<1>6. ASSUME NEW i \in 0 .. m
      PROVE  /\ \A j \in 1 .. m : j <= i => FromSuc(p, i)[j] = Nth(w, g, Suc(p), p, TakenFromSuc(p) + j)
             /\ FromSuc(p, i) = [j \in 1 .. i |-> FromSuc(p, i)[j]]
  <2> DEFINE c == SubSeq(chan[Suc(p)][p], 1, i)
  <2>1. /\ \A j \in 1 .. m : j <= i => c[j] = Nth(w, g, Suc(p), p, Taken(Suc(p), p) + j)
        /\ c = [j \in 1 .. i |-> c[j]]
    BY <1>2, <1>3, <1>5
  <2>2. FromSuc(p, i) = c
    BY DEF FromSuc
  <2> HIDE DEF c
  <2> QED BY <1>4, <2>1, <2>2
<1>7. ASSUME NEW i \in 0 .. n
      PROVE  /\ \A j \in 1 .. n : j <= i => FromPre(p, i)[j] = Nth(w, g, Pre(p), p, TakenFromPre(p) + j)
             /\ FromPre(p, i) = [j \in 1 .. i |-> FromPre(p, i)[j]]
  <2> DEFINE c == SubSeq(chan[Pre(p)][p], 1, i)
  <2>1. /\ \A j \in 1 .. n : j <= i => c[j] = Nth(w, g, Pre(p), p, Taken(Pre(p), p) + j)
        /\ c = [j \in 1 .. i |-> c[j]]
    BY <1>2, <1>3, <1>5
  <2>2. FromPre(p, i) = c
    BY DEF FromPre
  <2> HIDE DEF c
  <2> QED BY <1>4, <2>1, <2>2
<1> QED BY <1>6, <1>7

-------------------------------------------------------------------------------
(* What the players hold, at every place of their programs *)

Objs == {"x", "n"}
Table(f) == DOMAIN f = Objs /\ \A o \in Objs : DOMAIN f[o] = Player
Square(d) == DOMAIN d = Player /\ \A i \in Player : DOMAIN d[i] = Player

Shapes ==
  /\ DOMAIN shares = Player /\ DOMAIN ics = Player
  /\ DOMAIN ki = Player /\ DOMAIN idi = Player /\ DOMAIN y = Player
  /\ DOMAIN x_pick = Player /\ DOMAIN n_pick = Player
  /\ Table(sks) /\ Table(gks) /\ Table(sotDeltas) /\ Table(csotDeltas) /\ Table(blocks)
  /\ \A o \in Objs, p \in Player :
       Square(sotDeltas[o][p]) /\ Square(csotDeltas[o][p]) /\ DOMAIN blocks[o][p] = Player

(* Parts of what p holds at place n of its program, on level l *)
Progress(p, n, l) == /\ l \in 1 .. Deep /\ (n < 7 => l = 1)
                     /\ n > 10 \/ pc[p] = << "choose" >> => l < Deep
Position(w, g, p, n, l) ==
  /\ y[p] = IF n >= 10 THEN g[l + 1].y[p] ELSE g[l].y[p]
  /\ n > 0 => /\ shares[p] = << w.n[Suc(p)], w.n[Pre(p)] >>
              /\ ki[p] = IF n = 12 THEN g[l + 1].ki[p] ELSE g[l].ki[p]
              /\ idi[p] = g[l].idi[p]
KeysOf(w, p, o) ==
  \A t \in 1 .. Deep : /\ sks[o][p][t] = SotKey(w.seed, o, Pre(p), p, t)
                       /\ gks[o][p][t] = SotKey(w.seed, o, Suc(p), p, t)
IcsOf(w, p) ==
  \A i \in 1 .. IcCount : /\ ics[p]["suc"][i] = IcKeyOf(w.seed, Suc(p), p, i)
                          /\ ics[p]["pre"][i] = IcKeyOf(w.seed, Pre(p), p, i)
Keyed(w, p, n) ==
  /\ n > 2 => KeysOf(w, p, "x")
  /\ n > 4 => KeysOf(w, p, "n")
  /\ n > 6 => IcsOf(w, p)
Asked(w, g, p, l, o) == \A i \in Player : sotDeltas[o][p][i][p] = Away(w, g, l, o)[i][p]
Picking(w, g, p, n, l) ==
  /\ n = 8 => Asked(w, g, p, l, "x")
  /\ n \in {8, 9} => Asked(w, g, p, l, "n")
  /\ n > 8 => x_pick[p] = PickedX(w, g[l], l)[p].x
  /\ n > 9 => n_pick[p] = PickedN(w, g[l], l)[p]
Compared(w, g, p, l, o) ==
  /\ \A i \in Player : csotDeltas[o][p][i][p] = Apart(w, g, l, o)[i][p]
  /\ blocks[o][p][p] = Blocks(w, g, l, o, p)
Settled(w, g, p, l) ==
  /\ x_pick[p] = PickedX(w, g[l], l)[p].x /\ n_pick[p] = PickedN(w, g[l], l)[p]
  /\ \A o \in Objs : blocks[o][p][p] = Blocks(w, g, l, o, p)
Choosing(w, g, p, n, l) ==
  /\ n = 11 => Compared(w, g, p, l, "x")
  /\ n \in {11, 12} => Compared(w, g, p, l, "n")
  /\ n = 12 => blocks["x"][p][p] = Blocks(w, g, l, "x", p)
  /\ n = 7 /\ l > 1 => Settled(w, g, p, l - 1)
Holds(w, g, p, n, l) ==
  /\ Progress(p, n, l) /\ Position(w, g, p, n, l) /\ Keyed(w, p, n)
  /\ Picking(w, g, p, n, l) /\ Choosing(w, g, p, n, l)

HoldsNow(w, g, p) == \E n, l : n = Place(pc[p]) /\ l = level[p] /\ Holds(w, g, p, n, l)

Walked(w, g) ==
  /\ w = World /\ IsWalk(w, g)
  /\ Shapes /\ Streams(w, g)
  /\ \A p \in Player : HoldsNow(w, g, p)

Given == seed \in Seeds /\ tree \in Trees /\ data \in Datas
WalkInv == PaceInv /\ Given /\ \E w, g : Walked(w, g)

(* What a step of another player leaves alone *)
Unmoved(q) ==
  /\ pc'[q] = pc[q] /\ level'[q] = level[q]
  /\ shares'[q] = shares[q] /\ ics'[q] = ics[q]
  /\ ki'[q] = ki[q] /\ idi'[q] = idi[q] /\ y'[q] = y[q]
  /\ x_pick'[q] = x_pick[q] /\ n_pick'[q] = n_pick[q]
  /\ \A o \in Objs : /\ sks'[o][q] = sks[o][q] /\ gks'[o][q] = gks[o][q]
                     /\ sotDeltas'[o][q] = sotDeltas[o][q] /\ csotDeltas'[o][q] = csotDeltas[o][q]
                     /\ blocks'[o][q] = blocks[o][q]

LEMMA WorldSame == ASSUME seed' = seed, tree' = tree, data' = data PROVE World' = World
BY DEF World, FeatureShare, FeaturePad, NodeList, PadOf, Pad, Rest, StartShare, StartOf, StartPad

LEMMA UnmovedHolds ==
  ASSUME NEW w, NEW g, NEW q \in Player, NEW n, NEW l, Unmoved(q), Holds(w, g, q, n, l)
  PROVE  Holds(w, g, q, n, l)'
<1>1. Progress(q, n, l)'
  BY DEF Unmoved, Holds, Progress
<1>2. Position(w, g, q, n, l)'
  BY DEF Unmoved, Holds, Position
<1>3. Keyed(w, q, n)'
  <2>1. "x" \in Objs /\ "n" \in Objs
    BY DEF Objs
  <2>2. KeysOf(w, q, "x")' <=> KeysOf(w, q, "x")
    BY <2>1 DEF Unmoved, KeysOf
  <2>3. KeysOf(w, q, "n")' <=> KeysOf(w, q, "n")
    BY <2>1 DEF Unmoved, KeysOf
  <2>4. IcsOf(w, q)' <=> IcsOf(w, q)
    BY DEF Unmoved, IcsOf
  <2> QED BY <2>2, <2>3, <2>4 DEF Holds, Keyed
<1>4. Picking(w, g, q, n, l)'
  <2>1. "x" \in Objs /\ "n" \in Objs
    BY DEF Objs
  <2>2. Asked(w, g, q, l, "x")' <=> Asked(w, g, q, l, "x")
    BY <2>1 DEF Unmoved, Asked
  <2>3. Asked(w, g, q, l, "n")' <=> Asked(w, g, q, l, "n")
    BY <2>1 DEF Unmoved, Asked
  <2> QED BY <2>2, <2>3 DEF Holds, Picking, Unmoved
<1>5. Choosing(w, g, q, n, l)'
  <2>1. "x" \in Objs /\ "n" \in Objs
    BY DEF Objs
  <2>2. Compared(w, g, q, l, "x")' <=> Compared(w, g, q, l, "x")
    BY <2>1 DEF Unmoved, Compared
  <2>3. Compared(w, g, q, l, "n")' <=> Compared(w, g, q, l, "n")
    BY <2>1 DEF Unmoved, Compared
  <2>4. Settled(w, g, q, l - 1)' <=> Settled(w, g, q, l - 1)
    BY <2>1 DEF Unmoved, Settled
  <2>5. blocks'["x"][q][q] = blocks["x"][q][q]
    BY <2>1 DEF Unmoved
  <2> QED BY <2>2, <2>3, <2>4, <2>5 DEF Holds, Choosing
<1> QED BY <1>1, <1>2, <1>3, <1>4, <1>5 DEF Holds

(* One step of p *)
LEMMA WalkedStep ==
  ASSUME NEW w, NEW g, Walked(w, g), seed' = seed, tree' = tree, data' = data,
         NEW p \in Player, \A q \in Player \ {p} : Unmoved(q),
         Shapes', Streams(w, g)', NEW n, NEW l, Place(pc'[p]) = n, level'[p] = l, Holds(w, g, p, n, l)'
  PROVE  Walked(w, g)'
<1>1. w = World' /\ IsWalk(w, g)
  BY WorldSame DEF Walked
<1>2. ASSUME NEW q \in Player
      PROVE  HoldsNow(w, g, q)'
  <2>1. CASE q = p
    BY <2>1 DEF HoldsNow
  <2>2. CASE q # p
    <3>1. Unmoved(q) /\ HoldsNow(w, g, q)
      BY <2>2 DEF Walked
    <3>2. PICK m, k : m = Place(pc[q]) /\ k = level[q] /\ Holds(w, g, q, m, k)
      BY <3>1 DEF HoldsNow
    <3>3. Holds(w, g, q, m, k)'
      BY <3>1, <3>2, UnmovedHolds
    <3> QED BY <3>1, <3>2, <3>3 DEF Unmoved, HoldsNow
  <2> QED BY <2>1, <2>2
<1> QED BY <1>1, <1>2 DEF Walked

LEMMA WalkInit ==
  ASSUME Init
  PROVE  WalkInv
<1>1. Given /\ PaceInv
  BY PaceInit DEF Init, Given
<1>2. PICK w : w = World
  OBVIOUS
<1>3. PICK g : IsWalk(w, g)
  BY WalkExists
<1>4. Shapes
  <2>1. DOMAIN shares = Player /\ DOMAIN ics = Player
        /\ DOMAIN ki = Player /\ DOMAIN idi = Player /\ DOMAIN y = Player
        /\ DOMAIN x_pick = Player /\ DOMAIN n_pick = Player
    BY DEF Init, NoShares
  <2>2. Table(sks) /\ Table(gks)
    BY DEF Init, NoShares, Table, Objs
  <2>3. Table(sotDeltas) /\ Table(csotDeltas) /\ Table(blocks)
    BY DEF Init, Table, Objs
  <2>4. \A o \in Objs, p \in Player :
          sotDeltas[o][p] = Zeros /\ csotDeltas[o][p] = Zeros /\ DOMAIN blocks[o][p] = Player
    BY DEF Init, Objs
  <2>5. Square(Zeros)
    BY DEF Square, Zeros
  <2> QED BY <2>1, <2>2, <2>3, <2>4, <2>5 DEF Shapes
<1>5. Streams(w, g)
  <2>1. ASSUME NEW p \in Player, NEW q \in Player
        PROVE  Waiting(p, q) = 0
    BY DEF Init, NoMessages, Waiting
  <2> QED BY <2>1 DEF Streams
<1>6. ASSUME NEW p \in Player
      PROVE  HoldsNow(w, g, p)
  <2>1. Place(pc[p]) = 0 /\ level[p] = 1 /\ y[p] = 0 /\ pc[p] = << "deposit" >>
    BY Places DEF Init
  <2>2. g[1].y[p] = 0
    BY <1>2, <1>3 DEF IsWalk, World
  <2>3. pc[p] # << "choose" >>
    BY <2>1
  <2>4. Progress(p, 0, 1)
    BY <2>3, SizesAssumption DEF Progress
  <2>5. Position(w, g, p, 0, 1)
    BY <2>1, <2>2 DEF Position
  <2>6. Keyed(w, p, 0) /\ Picking(w, g, p, 0, 1) /\ Choosing(w, g, p, 0, 1)
    BY DEF Keyed, Picking, Choosing
  <2> QED BY <2>1, <2>4, <2>5, <2>6 DEF Holds, HoldsNow
<1> QED BY <1>1, <1>2, <1>3, <1>4, <1>5, <1>6 DEF WalkInv, Walked

-------------------------------------------------------------------------------
(* The keys *)

LEMMA Now ==
  ASSUME NEW w, NEW g, Walked(w, g), NEW p \in Player
  PROVE  Holds(w, g, p, Place(pc[p]), level[p]) /\ level[p] \in 1 .. Deep
BY DEF Walked, HoldsNow, Holds, Progress

LEMMA KeyPlaces ==
  ASSUME NEW o \in Objs
  PROVE  /\ Place(<< "keys", o >>) = IF o = "x" THEN 1 ELSE 3
         /\ Place(<< "take", o >>) = IF o = "x" THEN 2 ELSE 4
         /\ Place(<< "chosen", o >>) = IF o = "x" THEN 11 ELSE 12
         /\ << "take", o >> # << "choose" >> /\ << "chosen", o >> # << "choose" >>
<1>1. CASE o = "x"
  BY <1>1, Places
<1>2. CASE o = "n"
  BY <1>2, Places
<1> QED BY <1>1, <1>2 DEF Objs

(* How keys and lists of keys are numbered *)
LEMMA KeyWords ==
  ASSUME NEW w, w = World, NEW p \in Player, NEW o \in Objs, NEW j \in 1 .. Deep
  PROVE  /\ Keys(seed, SotName(o), p, Deep, LenOf(o), TRUE)[j] = SotKey(w.seed, o, p, Suc(p), j)
         /\ Keys(seed, SotName(o), p, Deep, LenOf(o), FALSE)[j] = SotKey(w.seed, o, p, Pre(p), j)
<1>1. w.seed = seed
  BY DEF World
<1>2. (Suc(p) = Suc(p)) = TRUE /\ (Pre(p) = Suc(p)) = FALSE
  BY Ring
<1> QED BY <1>1, <1>2 DEF Keys, SotKey, FiliOf, PointPad

LEMMA IcWords ==
  ASSUME NEW w, w = World, NEW p \in Player, NEW j \in 1 .. IcCount
  PROVE  /\ IcKeysOf(p, "suc")[j] = IcKeyOf(w.seed, p, Suc(p), j)
         /\ IcKeysOf(p, "pre")[j] = IcKeyOf(w.seed, p, Pre(p), j)
<1>1. w.seed = seed
  BY DEF World
<1>2. Pre(p) # Suc(p)
  BY Ring
<1>3. j \in 1 .. (2 * (Deep - 1))
  BY DEF IcCount
<1> QED BY <1>1, <1>2, <1>3 DEF IcKeysOf, IcKeyOf

(* A step that changes nothing of the tables *)
LEMMA StepOnly ==
  ASSUME PaceInv, NEW p \in Player, NEW step, Goto(p, step), level' = level,
         shares' = shares, sks' = sks, gks' = gks, ics' = ics, sotDeltas' = sotDeltas,
         csotDeltas' = csotDeltas, blocks' = blocks, ki' = ki, idi' = idi, y' = y,
         x_pick' = x_pick, n_pick' = n_pick, Shapes
  PROVE  Shapes' /\ \A q \in Player \ {p} : Unmoved(q)
<1>1. \A q \in Player \ {p} : pc'[q] = pc[q]
  BY DEF Goto, PaceInv, PaceOK
<1>2. Shapes'
  BY DEF Shapes, Table, Square
<1> QED BY <1>1, <1>2 DEF Unmoved

LEMMA SendKeysWalks ==
  ASSUME PaceInv, NEW w, NEW g, Walked(w, g), NEW p \in Player, NEW o \in Objs, SendKeys(p, o)
  PROVE  Walked(w, g)'
<1> DEFINE x == Keys(seed, SotName(o), p, Deep, LenOf(o), TRUE)
           z == Keys(seed, SotName(o), p, Deep, LenOf(o), FALSE)
<1>1. /\ pc[p] = << "keys", o >> /\ Send(p, x, z) /\ Goto(p, << "take", o >>) /\ level' = level
      /\ seed' = seed /\ tree' = tree /\ data' = data
      /\ shares' = shares /\ sks' = sks /\ gks' = gks /\ ics' = ics /\ sotDeltas' = sotDeltas
      /\ csotDeltas' = csotDeltas /\ blocks' = blocks /\ ki' = ki /\ idi' = idi /\ y' = y
      /\ x_pick' = x_pick /\ n_pick' = n_pick
  BY DEF SendKeys, At
<1> HIDE DEF x, z
<1>a. PICK l : l = level[p]
  OBVIOUS
<1>b. PICK c : c = IF o = "x" THEN 1 ELSE 3
  OBVIOUS
<1>2. (o = "x" /\ c = 1) \/ (o = "n" /\ c = 3)
  BY <1>b DEF Objs
<1>3. Place(pc[p]) = c /\ pc'[p] = << "take", o >> /\ Place(pc'[p]) = c + 1 /\ level'[p] = l
  <2>1. pc'[p] = << "take", o >> /\ level'[p] = level[p]
    BY <1>1, Stayed DEF PaceInv
  <2>2. Place(pc[p]) = c
    BY <1>1, <1>b, KeyPlaces
  <2>3. Place(<< "take", o >>) = c + 1
    <3>1. c + 1 = IF o = "x" THEN 2 ELSE 4
      BY <1>2
    <3> QED BY <3>1, KeyPlaces
  <2> QED BY <1>a, <2>1, <2>2, <2>3
<1>4. Holds(w, g, p, c, l) /\ l \in 1 .. Deep
  BY <1>3, <1>a, Now
<1>5. l = 1
  BY <1>2, <1>4 DEF Holds, Progress
<1>6. Shapes' /\ \A q \in Player \ {p} : Unmoved(q)
  BY <1>1, StepOnly DEF Walked
<1>7. Streams(w, g)'
  <2>1. Deep \in Nat /\ IcCount \in Int /\ IcCount' = IcCount
    BY SizesAssumption DEF IcCount
  <2>2. /\ SentToSuc(p) = IF o = "x" THEN Deal(p) ELSE Deal(p) + Deep
        /\ SentToPre(p) = IF o = "x" THEN Deal(p) ELSE Deal(p) + Deep
        /\ TakenFromSuc(p)' = TakenFromSuc(p) /\ TakenFromPre(p)' = TakenFromPre(p)
    BY <1>2, <1>3, <1>5, <1>a, <2>1 DEF SentToSuc, SentToPre, TakenFromSuc, TakenFromPre, Once, Deal
  <2> DEFINE A == { x[i] : i \in 1 .. Deep } \cup { z[i] : i \in 1 .. Deep }
  <2>3. x = [i \in 1 .. Deep |-> x[i]] /\ z = [i \in 1 .. Deep |-> z[i]]
    BY DEF Keys, x, z
  <2>4. (\A i \in 1 .. Deep : x[i] \in A) /\ \A i \in 1 .. Deep : z[i] \in A
    OBVIOUS
  <2>5. ASSUME NEW j \in 1 .. Deep
        PROVE  /\ x[j] = Nth(w, g, p, Suc(p), SentToSuc(p) + j)
               /\ z[j] = Nth(w, g, p, Pre(p), SentToPre(p) + j)
    <3>1. x[j] = SotKey(w.seed, o, p, Suc(p), j) /\ z[j] = SotKey(w.seed, o, p, Pre(p), j)
      BY KeyWords DEF Walked, x, z
    <3>2. Suc(p) \in Player /\ Pre(p) \in Player
      BY Ring
    <3>3. \A q \in Player : /\ Nth(w, g, p, q, Deal(p) + j) = SotKey(w.seed, "x", p, q, j)
                             /\ Nth(w, g, p, q, Deal(p) + Deep + j) = SotKey(w.seed, "n", p, q, j)
      BY NthX, NthN
    <3>4. CASE o = "x"
      BY <2>2, <3>1, <3>2, <3>3, <3>4
    <3>5. CASE o = "n"
      BY <2>2, <3>1, <3>2, <3>3, <3>5
    <3> QED BY <1>2, <3>4, <3>5
  <2> HIDE DEF x, z, A
  <2>6. x \in Seq(A) /\ z \in Seq(A) /\ Len(x) = Deep /\ Len(z) = Deep
    BY <2>1, <2>3, <2>4, Listed
  <2> QED BY <1>1, <2>2, <2>5, <2>6, StreamsSend DEF Walked
<1>8. Holds(w, g, p, c + 1, l)'
  <2>1. pc'[p] # << "choose" >> /\ (c = 1 \/ c = 3)
    BY <1>2, <1>3
  <2>2. Progress(p, c + 1, l)'
    BY <1>4, <1>5, <2>1 DEF Progress
  <2>3. Position(w, g, p, c + 1, l)'
    BY <1>1, <1>4, <2>1 DEF Holds, Position
  <2>4. Keyed(w, p, c + 1)'
    <3>1. (KeysOf(w, p, "x")' <=> KeysOf(w, p, "x")) /\ (KeysOf(w, p, "n")' <=> KeysOf(w, p, "n"))
      BY <1>1 DEF KeysOf
    <3> QED BY <1>4, <2>1, <3>1 DEF Holds, Keyed
  <2>5. Picking(w, g, p, c + 1, l)' /\ Choosing(w, g, p, c + 1, l)'
    BY <2>1 DEF Picking, Choosing
  <2> QED BY <2>2, <2>3, <2>4, <2>5 DEF Holds
<1> QED BY <1>1, <1>3, <1>6, <1>7, <1>8, WalkedStep

LEMMA SendIcWalks ==
  ASSUME PaceInv, NEW w, NEW g, Walked(w, g), NEW p \in Player, SendIc(p)
  PROVE  Walked(w, g)'
<1> DEFINE x == IcKeysOf(p, "suc")
           z == IcKeysOf(p, "pre")
<1>a. PICK l, to : l = level[p] /\ to = << "take ic" >>
  OBVIOUS
<1>b. Place(to) = 6 /\ to # << "choose" >>
  <2>1. << "take ic" >> # << "choose" >>
    BY Zenon
  <2> QED BY <1>a, <2>1, Places, Zenon
<1>0. l = level[p]
  BY <1>a, Zenon
<1>1. /\ Place(pc[p]) = 5 /\ Send(p, x, z) /\ Goto(p, to) /\ level' = level
      /\ seed' = seed /\ tree' = tree /\ data' = data
      /\ shares' = shares /\ sks' = sks /\ gks' = gks /\ ics' = ics /\ sotDeltas' = sotDeltas
      /\ csotDeltas' = csotDeltas /\ blocks' = blocks /\ ki' = ki /\ idi' = idi /\ y' = y
      /\ x_pick' = x_pick /\ n_pick' = n_pick
  <2>1. pc[p] = << "ic" >> /\ Goto(p, << "take ic" >>) /\ Send(p, x, z)
    BY DEF SendIc, At
  <2>2. Place(pc[p]) = 5 /\ Goto(p, to)
    BY <1>a, <2>1, Places, Zenon
  <2>3. /\ level' = level /\ seed' = seed /\ tree' = tree /\ data' = data
        /\ shares' = shares /\ sks' = sks /\ gks' = gks /\ ics' = ics /\ sotDeltas' = sotDeltas
        /\ csotDeltas' = csotDeltas /\ blocks' = blocks /\ ki' = ki /\ idi' = idi /\ y' = y
        /\ x_pick' = x_pick /\ n_pick' = n_pick
    BY DEF SendIc
  <2> HIDE DEF x, z
  <2> QED BY <2>1, <2>2, <2>3, Zenon
<1> HIDE DEF x, z
<1>3. Place(pc[p]) = 5 /\ pc'[p] = to /\ Place(pc'[p]) = 6 /\ level'[p] = l
  <2>1. pc'[p] = to /\ level'[p] = level[p]
    BY <1>1, Stayed DEF PaceInv
  <2> QED BY <1>0, <1>1, <1>b, <2>1
<1>4. Holds(w, g, p, 5, l) /\ l \in 1 .. Deep
  BY <1>0, <1>3, Now
<1>5. l = 1
  BY <1>4 DEF Holds, Progress
<1>6. Shapes' /\ \A q \in Player \ {p} : Unmoved(q)
  BY <1>1, StepOnly DEF Walked
<1>7. Streams(w, g)'
  <2>1. Deep \in Nat /\ IcCount \in Nat /\ IcCount' = IcCount
    BY SizesAssumption DEF IcCount
  <2>2. /\ SentToSuc(p) = Deal(p) + 2 * Deep /\ SentToPre(p) = Deal(p) + 2 * Deep
        /\ TakenFromSuc(p)' = TakenFromSuc(p) /\ TakenFromPre(p)' = TakenFromPre(p)
    <3>1. level[p] = 1 /\ level'[p] = 1
      BY <1>0, <1>3, <1>5
    <3>2. SentToSuc(p) = Deal(p) + 2 * Deep
      BY <1>3, <2>1, <3>1 DEF SentToSuc, Once, Deal
    <3>3. SentToPre(p) = Deal(p) + 2 * Deep
      BY <1>3, <2>1, <3>1 DEF SentToPre, Once, Deal
    <3>4. TakenFromSuc(p)' = TakenFromSuc(p)
      BY <1>3, <2>1, <3>1 DEF TakenFromSuc, Once, Deal
    <3>5. TakenFromPre(p)' = TakenFromPre(p)
      BY <1>3, <2>1, <3>1 DEF TakenFromPre, Once, Deal
    <3> QED BY <3>2, <3>3, <3>4, <3>5
  <2> DEFINE n == IcCount
             A == { x[i] : i \in 1 .. n } \cup { z[i] : i \in 1 .. n }
  <2>3. x = [i \in 1 .. n |-> x[i]] /\ z = [i \in 1 .. n |-> z[i]]
    BY DEF IcKeysOf, IcCount, x, z
  <2>4. (\A i \in 1 .. n : x[i] \in A) /\ \A i \in 1 .. n : z[i] \in A
    OBVIOUS
  <2>5. ASSUME NEW j \in 1 .. n
        PROVE  /\ x[j] = Nth(w, g, p, Suc(p), SentToSuc(p) + j)
               /\ z[j] = Nth(w, g, p, Pre(p), SentToPre(p) + j)
    <3>1. x[j] = IcKeyOf(w.seed, p, Suc(p), j) /\ z[j] = IcKeyOf(w.seed, p, Pre(p), j)
      BY IcWords DEF Walked, x, z
    <3>2. Suc(p) \in Player /\ Pre(p) \in Player
      BY Ring
    <3>3. ASSUME NEW q \in Player
          PROVE  Nth(w, g, p, q, Deal(p) + 2 * Deep + j) = IcKeyOf(w.seed, p, q, j)
      BY NthIc
    <3> QED BY <2>2, <3>1, <3>2, <3>3
  <2>a. n \in Nat
    BY <2>1
  <2> HIDE DEF x, z, A, n
  <2>6. x \in Seq(A) /\ z \in Seq(A) /\ Len(x) = n /\ Len(z) = n
    BY <2>a, <2>3, <2>4, Listed
  <2> QED BY <1>1, <2>2, <2>5, <2>6, StreamsSend DEF Walked
<1>8. Holds(w, g, p, 6, l)'
  <2>1. pc'[p] # << "choose" >>
    BY <1>3, <1>b
  <2>2. Progress(p, 6, l)'
    BY <1>4, <1>5, <2>1 DEF Progress
  <2>3. Position(w, g, p, 6, l)'
    BY <1>1, <1>4 DEF Holds, Position
  <2>4. Keyed(w, p, 6)'
    <3>1. (KeysOf(w, p, "x")' <=> KeysOf(w, p, "x")) /\ (KeysOf(w, p, "n")' <=> KeysOf(w, p, "n"))
      BY <1>1 DEF KeysOf
    <3> QED BY <1>4, <3>1 DEF Holds, Keyed
  <2>5. Picking(w, g, p, 6, l)' /\ Choosing(w, g, p, 6, l)'
    BY DEF Picking, Choosing
  <2> QED BY <2>2, <2>3, <2>4, <2>5 DEF Holds
<1> QED BY <1>1, <1>3, <1>6, <1>7, <1>8, WalkedStep

(* What stays if only tables change, and those at p *)
LEMMA StepTables ==
  ASSUME PaceInv, NEW p \in Player, NEW step, Goto(p, step), level' = level,
         shares' = shares, ki' = ki, idi' = idi, y' = y, x_pick' = x_pick, n_pick' = n_pick,
         DOMAIN ics' = Player, \A q \in Player : q # p => ics'[q] = ics[q],
         Table(sks'), Table(gks'), sotDeltas' = sotDeltas, csotDeltas' = csotDeltas, blocks' = blocks,
         \A o \in Objs, q \in Player : q # p => sks'[o][q] = sks[o][q] /\ gks'[o][q] = gks[o][q], Shapes
  PROVE  Shapes' /\ \A q \in Player \ {p} : Unmoved(q)
<1>1. \A q \in Player \ {p} : pc'[q] = pc[q]
  BY DEF Goto, PaceInv, PaceOK
<1>2. Shapes'
  BY DEF Shapes, Table, Square
<1> QED BY <1>1, <1>2 DEF Unmoved

LEMMA TakeKeysWalks ==
  ASSUME PaceInv, NEW w, NEW g, Walked(w, g), NEW p \in Player, NEW o \in Objs, TakeKeys(p, o)
  PROVE  Walked(w, g)'
<1>a. PICK l, to : l = level[p] /\ to = IF o = "x" THEN << "keys", "n" >> ELSE << "ic" >>
  OBVIOUS
<1>b. PICK c : c = IF o = "x" THEN 2 ELSE 4
  OBVIOUS
<1>1. /\ pc[p] = << "take", o >> /\ Arrived(p, Deep, Deep) /\ Receive(p, Deep, Deep) /\ Goto(p, to) /\ level' = level
      /\ seed' = seed /\ tree' = tree /\ data' = data
      /\ shares' = shares /\ ics' = ics /\ sotDeltas' = sotDeltas
      /\ csotDeltas' = csotDeltas /\ blocks' = blocks /\ ki' = ki /\ idi' = idi /\ y' = y
      /\ x_pick' = x_pick /\ n_pick' = n_pick
  BY <1>a DEF TakeKeys, At
<1>s. /\ sks' = [sks EXCEPT ![o][p] = FromPre(p, Deep)]
      /\ gks' = [gks EXCEPT ![o][p] = FromSuc(p, Deep)]
  BY DEF TakeKeys
<1>2. (o = "x" /\ c = 2) \/ (o = "n" /\ c = 4)
  BY <1>b DEF Objs
<1>3. Place(pc[p]) = c /\ pc'[p] = to /\ Place(pc'[p]) = c + 1 /\ level'[p] = l /\ to # << "choose" >>
  <2>1. pc'[p] = to /\ level'[p] = level[p]
    BY <1>1, Stayed DEF PaceInv
  <2>2. Place(pc[p]) = c
    BY <1>1, <1>b, KeyPlaces
  <2>3. Place(to) = c + 1 /\ to # << "choose" >>
    <3>1. CASE o = "x"
      <4>1. to = << "keys", "n" >> /\ c + 1 = 3
        BY <1>2, <1>a, <3>1
      <4> QED BY <4>1, Places
    <3>2. CASE o = "n"
      <4>1. to = << "ic" >> /\ c + 1 = 5
        BY <1>2, <1>a, <3>2
      <4>2. << "ic" >> # << "choose" >>
        OBVIOUS
      <4> QED BY <4>1, <4>2, Places
    <3> QED BY <3>1, <3>2 DEF Objs
  <2> QED BY <1>a, <2>1, <2>2, <2>3
<1>4. Holds(w, g, p, c, l) /\ l \in 1 .. Deep
  BY <1>3, <1>a, Now
<1>5. l = 1
  BY <1>2, <1>4 DEF Holds, Progress
<1>6. /\ Table(sks') /\ sks'[o][p] = FromPre(p, Deep)
      /\ \A u \in Objs, q \in Player : u # o \/ q # p => sks'[u][q] = sks[u][q]
  <2> DEFINE f == sks
             e == sks'
             v == FromPre(p, Deep)
  <2>1. Table(f) /\ e = [f EXCEPT ![o][p] = v]
    BY <1>s DEF Walked, Shapes
  <2> HIDE DEF f, e, v
  <2>2. /\ Table(e) /\ e[o][p] = v
        /\ \A u \in Objs, q \in Player : u # o \/ q # p => e[u][q] = f[u][q]
    BY <2>1 DEF Table
  <2> QED BY <2>2 DEF e, f, v
<1>7. /\ Table(gks') /\ gks'[o][p] = FromSuc(p, Deep)
      /\ \A u \in Objs, q \in Player : u # o \/ q # p => gks'[u][q] = gks[u][q]
  <2> DEFINE f == gks
             e == gks'
             v == FromSuc(p, Deep)
  <2>1. Table(f) /\ e = [f EXCEPT ![o][p] = v]
    BY <1>s DEF Walked, Shapes
  <2> HIDE DEF f, e, v
  <2>2. /\ Table(e) /\ e[o][p] = v
        /\ \A u \in Objs, q \in Player : u # o \/ q # p => e[u][q] = f[u][q]
    BY <2>1 DEF Table
  <2> QED BY <2>2 DEF e, f, v
<1>8. Shapes' /\ \A q \in Player \ {p} : Unmoved(q)
  <2>1. Shapes /\ DOMAIN ics' = Player /\ \A q \in Player : ics'[q] = ics[q]
    BY <1>1 DEF Walked, Shapes
  <2> QED BY <1>1, <1>6, <1>7, <2>1, StepTables
<1>9. Deep \in Nat /\ IcCount \in Int /\ IcCount' = IcCount
  BY SizesAssumption DEF IcCount
<1>10. Suc(p) \in Player /\ Pre(p) \in Player
  BY Ring
<1>11. /\ TakenFromSuc(p) = IF o = "x" THEN Deal(Suc(p)) ELSE Deal(Suc(p)) + Deep
       /\ TakenFromPre(p) = IF o = "x" THEN Deal(Pre(p)) ELSE Deal(Pre(p)) + Deep
       /\ TakenFromSuc(p)' = TakenFromSuc(p) + Deep /\ TakenFromPre(p)' = TakenFromPre(p) + Deep
  BY <1>2, <1>3, <1>5, <1>9, <1>a DEF TakenFromSuc, TakenFromPre, Once, Deal
<1>12. Streams(w, g)'
  BY <1>1, <1>9, <1>11, StreamsReceive DEF Walked
<1>13. KeysOf(w, p, o)'
  <2> SUFFICES ASSUME NEW t \in 1 .. Deep
               PROVE  sks'[o][p][t] = SotKey(w.seed, o, Pre(p), p, t) /\ gks'[o][p][t] = SotKey(w.seed, o, Suc(p), p, t)
    BY DEF KeysOf
  <2>1. Deep \in 0 .. Deep /\ t <= Deep
    BY <1>9
  <2>2. /\ FromSuc(p, Deep)[t] = Nth(w, g, Suc(p), p, TakenFromSuc(p) + t)
        /\ FromPre(p, Deep)[t] = Nth(w, g, Pre(p), p, TakenFromPre(p) + t)
    BY <1>1, <1>9, <2>1, Came DEF Walked
  <2>3. ASSUME NEW q \in Player
        PROVE  /\ Nth(w, g, q, p, Deal(q) + t) = SotKey(w.seed, "x", q, p, t)
               /\ Nth(w, g, q, p, Deal(q) + Deep + t) = SotKey(w.seed, "n", q, p, t)
    BY NthX, NthN
  <2>4. CASE o = "x"
    BY <1>6, <1>7, <1>10, <1>11, <2>2, <2>3, <2>4
  <2>5. CASE o = "n"
    BY <1>6, <1>7, <1>10, <1>11, <2>2, <2>3, <2>5
  <2> QED BY <2>4, <2>5 DEF Objs
<1>14. Holds(w, g, p, c + 1, l)'
  <2>1. pc'[p] # << "choose" >> /\ (c = 2 \/ c = 4)
    BY <1>2, <1>3
  <2>2. Progress(p, c + 1, l)'
    BY <1>4, <1>5, <2>1 DEF Progress
  <2>3. Position(w, g, p, c + 1, l)'
    BY <1>1, <1>4, <2>1 DEF Holds, Position
  <2>4. Keyed(w, p, c + 1)'
    <3>1. CASE o = "x"
      BY <1>2, <1>13, <3>1 DEF Keyed
    <3>2. CASE o = "n"
      <4>1. KeysOf(w, p, "x")' <=> KeysOf(w, p, "x")
        BY <1>6, <1>7, <3>2 DEF KeysOf, Objs
      <4> QED BY <1>2, <1>4, <1>13, <3>2, <4>1 DEF Keyed, Holds
    <3> QED BY <3>1, <3>2 DEF Objs
  <2>5. Picking(w, g, p, c + 1, l)' /\ Choosing(w, g, p, c + 1, l)'
    BY <2>1 DEF Picking, Choosing
  <2> QED BY <2>2, <2>3, <2>4, <2>5 DEF Holds
<1> QED BY <1>1, <1>3, <1>8, <1>12, <1>14, WalkedStep

LEMMA TakeIcWalks ==
  ASSUME PaceInv, NEW w, NEW g, Walked(w, g), NEW p \in Player, TakeIc(p)
  PROVE  Walked(w, g)'
<1>a. PICK l : l = level[p]
  OBVIOUS
<1>1. /\ Place(pc[p]) = 6 /\ Arrived(p, IcCount, IcCount) /\ Receive(p, IcCount, IcCount)
      /\ Goto(p, << "ask" >>) /\ level' = level
      /\ seed' = seed /\ tree' = tree /\ data' = data
      /\ shares' = shares /\ sks' = sks /\ gks' = gks /\ sotDeltas' = sotDeltas
      /\ csotDeltas' = csotDeltas /\ blocks' = blocks /\ ki' = ki /\ idi' = idi /\ y' = y
      /\ x_pick' = x_pick /\ n_pick' = n_pick
  <2>1. Place(pc[p]) = 6
    <3>1. pc[p] = << "take ic" >>
      BY Zenon DEF TakeIc, At
    <3> QED BY <3>1, Places, Zenon
  <2>2. TakeIc(p) => /\ Arrived(p, IcCount, IcCount) /\ Receive(p, IcCount, IcCount)
      /\ Goto(p, << "ask" >>) /\ level' = level
      /\ seed' = seed /\ tree' = tree /\ data' = data
      /\ shares' = shares /\ sks' = sks /\ gks' = gks /\ sotDeltas' = sotDeltas
      /\ csotDeltas' = csotDeltas /\ blocks' = blocks /\ ki' = ki /\ idi' = idi /\ y' = y
      /\ x_pick' = x_pick /\ n_pick' = n_pick
    BY DEF TakeIc, IcCount
  <2> QED BY <2>1, <2>2
<1>s. ics' = [ics EXCEPT ![p] = [suc |-> FromSuc(p, IcCount), pre |-> FromPre(p, IcCount)]]
  BY DEF TakeIc, IcCount
<1>3. Place(pc[p]) = 6 /\ pc'[p] = << "ask" >> /\ Place(pc'[p]) = 7 /\ level'[p] = l
  <2>1. pc'[p] = << "ask" >> /\ level'[p] = level[p]
    BY <1>1, Stayed DEF PaceInv
  <2>2. Place(<< "ask" >>) = 7
    BY Places
  <2> QED BY <1>a, <1>1, <2>1, <2>2
<1>4. Holds(w, g, p, 6, l) /\ l \in 1 .. Deep
  BY <1>3, <1>a, Now
<1>5. l = 1
  BY <1>4 DEF Holds, Progress
<1>6. /\ DOMAIN ics' = Player /\ \A q \in Player : q # p => ics'[q] = ics[q]
      /\ ics'[p]["suc"] = FromSuc(p, IcCount) /\ ics'[p]["pre"] = FromPre(p, IcCount)
  BY <1>s DEF Walked, Shapes
<1>8. Shapes' /\ \A q \in Player \ {p} : Unmoved(q)
  <2>1. Shapes /\ Table(sks') /\ Table(gks')
    BY <1>1 DEF Walked, Shapes
  <2> QED BY <1>1, <1>6, <2>1, StepTables
<1>9. Deep \in Nat /\ IcCount \in Nat /\ IcCount' = IcCount
  BY SizesAssumption DEF IcCount
<1>10. Suc(p) \in Player /\ Pre(p) \in Player
  BY Ring
<1>11. /\ TakenFromSuc(p) = Deal(Suc(p)) + 2 * Deep /\ TakenFromPre(p) = Deal(Pre(p)) + 2 * Deep
       /\ TakenFromSuc(p)' = TakenFromSuc(p) + IcCount /\ TakenFromPre(p)' = TakenFromPre(p) + IcCount
  <2>1. level[p] = 1 /\ level'[p] = 1
    BY <1>3, <1>5, <1>a
  <2>2. TakenFromSuc(p) = Deal(Suc(p)) + 2 * Deep
    BY <1>3, <1>9, <2>1 DEF TakenFromSuc, Once, Deal
  <2>3. TakenFromPre(p) = Deal(Pre(p)) + 2 * Deep
    BY <1>3, <1>9, <2>1 DEF TakenFromPre, Once, Deal
  <2>4. TakenFromSuc(p)' = TakenFromSuc(p) + IcCount
    BY <1>3, <1>9, <2>1 DEF TakenFromSuc, Once, Deal
  <2>5. TakenFromPre(p)' = TakenFromPre(p) + IcCount
    BY <1>3, <1>9, <2>1 DEF TakenFromPre, Once, Deal
  <2> QED BY <2>2, <2>3, <2>4, <2>5
<1>12. Streams(w, g)'
  BY <1>1, <1>9, <1>11, StreamsReceive DEF Walked
<1>13. IcsOf(w, p)'
  <2> SUFFICES ASSUME NEW t \in 1 .. IcCount
               PROVE  /\ ics'[p]["suc"][t] = IcKeyOf(w.seed, Suc(p), p, t)
                      /\ ics'[p]["pre"][t] = IcKeyOf(w.seed, Pre(p), p, t)
    BY <1>9 DEF IcsOf
  <2>1. IcCount \in 0 .. IcCount /\ t <= IcCount
    BY <1>9
  <2>2. /\ FromSuc(p, IcCount)[t] = Nth(w, g, Suc(p), p, TakenFromSuc(p) + t)
        /\ FromPre(p, IcCount)[t] = Nth(w, g, Pre(p), p, TakenFromPre(p) + t)
    BY <1>1, <1>9, <2>1, Came DEF Walked
  <2>3. ASSUME NEW q \in Player
        PROVE  Nth(w, g, q, p, Deal(q) + 2 * Deep + t) = IcKeyOf(w.seed, q, p, t)
    BY NthIc
  <2> QED BY <1>6, <1>10, <1>11, <2>2, <2>3
<1>14. Holds(w, g, p, 7, l)'
  <2>1. pc'[p] # << "choose" >>
    <3>1. << "ask" >> # << "choose" >>
      OBVIOUS
    <3> QED BY <1>3, <3>1
  <2>2. Progress(p, 7, l)'
    BY <1>4, <2>1 DEF Progress
  <2>3. Position(w, g, p, 7, l)'
    BY <1>1, <1>4 DEF Holds, Position
  <2>4. Keyed(w, p, 7)'
    <3>1. (KeysOf(w, p, "x")' <=> KeysOf(w, p, "x")) /\ (KeysOf(w, p, "n")' <=> KeysOf(w, p, "n"))
      BY <1>1 DEF KeysOf
    <3> QED BY <1>4, <1>13, <3>1 DEF Keyed, Holds
  <2>5. Picking(w, g, p, 7, l)' /\ Choosing(w, g, p, 7, l)'
    BY <1>5 DEF Picking, Choosing
  <2> QED BY <2>2, <2>3, <2>4, <2>5 DEF Holds
<1> QED BY <1>1, <1>3, <1>8, <1>12, <1>14, WalkedStep

-------------------------------------------------------------------------------
(* The words of a level *)

LEMMA SucWords ==
  ASSUME NEW w, NEW g, NEW p \in Player, NEW q, q = Suc(p), NEW l
  PROVE  LET v == LevelWords(w, g, p, q, l)
             r == Pre(p)
         IN  /\ v[1] = Away(w, g, l, "x")[p][p] /\ v[2] = Away(w, g, l, "x")[r][p]
             /\ v[3] = Away(w, g, l, "n")[p][p] /\ v[4] = Away(w, g, l, "n")[r][p]
             /\ v[5] = Apart(w, g, l, "x")[p][p] /\ v[6] = Apart(w, g, l, "x")[r][p]
             /\ v[7] = Apart(w, g, l, "n")[p][p] /\ v[8] = Apart(w, g, l, "n")[r][p]
<1>1. Third(p, q) = Pre(p)
  BY DEF Third
<1> QED BY <1>1 DEF LevelWords

LEMMA PreWords ==
  ASSUME NEW w, NEW g, NEW p \in Player, NEW q, q = Pre(p), NEW l
  PROVE  LET v == LevelWords(w, g, p, q, l)
             r == Suc(p)
         IN  /\ v[1] = Away(w, g, l, "x")[p][p] /\ v[2] = Away(w, g, l, "x")[r][p]
             /\ v[3] = Away(w, g, l, "n")[p][p] /\ v[4] = Away(w, g, l, "n")[r][p]
             /\ v[5] = Apart(w, g, l, "x")[p][p] /\ v[6] = Apart(w, g, l, "x")[r][p]
             /\ v[7] = Blocks(w, g, l, "x", p)
             /\ v[8] = Apart(w, g, l, "n")[p][p] /\ v[9] = Apart(w, g, l, "n")[r][p]
             /\ v[10] = Blocks(w, g, l, "n", p)
<1>1. q # Suc(p)
  BY Ring
<1>2. Third(p, q) = Suc(p)
  BY <1>1 DEF Third
<1> QED BY <1>1, <1>2 DEF LevelWords

LEMMA AheadIs ==
  ASSUME NEW p
  PROVE  Ahead(p) \in Nat /\ Ahead(p) = Deal(p) + 2 * Deep + IcCount
         /\ Deal(p) \in Nat /\ IcCount \in Nat /\ Deep \in Nat
BY SizesAssumption DEF Ahead, Deal, IcCount

(* m words from the next player and n from the one before are there, a      *)
(* words of level l have been taken, and the k-th of the level is the j-th   *)
(* of the i that are taken next.                                            *)
There(p, m, n) == m \in Nat /\ n \in Nat /\ Arrived(p, m, n)
TookOfSuc(p, l, a) == l \in Nat \ {0} /\ a \in 0 .. 10 /\ TakenFromSuc(p) = Ahead(Suc(p)) + 10 * (l - 1) + a
TookOfPre(p, l, a) == l \in Nat \ {0} /\ a \in 0 .. 10 /\ TakenFromPre(p) = Ahead(Pre(p)) + 8 * (l - 1) + a
NextWord(i, j, n, a, k, last) == i \in 0 .. n /\ j \in 1 .. n /\ j <= i /\ k = a + j /\ k <= last

LEMMA CameFromSuc ==
  ASSUME PaceInv, NEW w, NEW g, Streams(w, g), NEW p \in Player, NEW m, NEW n, There(p, m, n), NEW l, NEW a,
         TookOfSuc(p, l, a), NEW i, NEW j, NEW k, NextWord(i, j, m, a, k, 10)
  PROVE  FromSuc(p, i)[j] = LevelWords(w, g, Suc(p), p, l)[k]
<1>a. i \in 0 .. m /\ j \in 1 .. m /\ j <= i /\ k = a + j /\ k <= 10
  BY DEF NextWord
<1>b. m \in Nat /\ n \in Nat /\ Arrived(p, m, n) /\ l \in Nat \ {0} /\ a \in 0 .. 10
  BY DEF There, TookOfSuc
<1>1. FromSuc(p, i)[j] = Nth(w, g, Suc(p), p, TakenFromSuc(p) + j)
  BY <1>a, <1>b, Came
<1> DEFINE s == Suc(p)
<1>2. s \in Player /\ Words(s, p) = 10
  BY Ring DEF Words
<1> HIDE DEF s
<1>3. a + j \in 1 .. Words(s, p)
  BY <1>a, <1>b, <1>2
<1>4. Nth(w, g, s, p, Ahead(s) + Words(s, p) * (l - 1) + (a + j)) = LevelWords(w, g, s, p, l)[a + j]
  BY <1>a, <1>b, <1>2, <1>3, NthLevel
<1>5. Ahead(s) + 10 * (l - 1) + (a + j) = (Ahead(s) + 10 * (l - 1) + a) + j
  <2>1. Ahead(s) \in Int
    BY AheadIs
  <2> QED BY <1>a, <1>b, <2>1
<1> QED BY <1>a, <1>b, <1>1, <1>2, <1>4, <1>5 DEF s, TookOfSuc

LEMMA CameFromPre ==
  ASSUME PaceInv, NEW w, NEW g, Streams(w, g), NEW p \in Player, NEW m, NEW n, There(p, m, n), NEW l, NEW a,
         TookOfPre(p, l, a), NEW i, NEW j, NEW k, NextWord(i, j, n, a, k, 8)
  PROVE  FromPre(p, i)[j] = LevelWords(w, g, Pre(p), p, l)[k]
<1>a. i \in 0 .. n /\ j \in 1 .. n /\ j <= i /\ k = a + j /\ k <= 8
  BY DEF NextWord
<1>b. m \in Nat /\ n \in Nat /\ Arrived(p, m, n) /\ l \in Nat \ {0} /\ a \in 0 .. 10
  BY DEF There, TookOfPre
<1>1. FromPre(p, i)[j] = Nth(w, g, Pre(p), p, TakenFromPre(p) + j)
  BY <1>a, <1>b, Came
<1> DEFINE s == Pre(p)
<1>2. s \in Player /\ Words(s, p) = 8
  BY Ring DEF Words
<1> HIDE DEF s
<1>3. a + j \in 1 .. Words(s, p)
  BY <1>a, <1>b, <1>2
<1>4. Nth(w, g, s, p, Ahead(s) + Words(s, p) * (l - 1) + (a + j)) = LevelWords(w, g, s, p, l)[a + j]
  BY <1>a, <1>b, <1>2, <1>3, NthLevel
<1>5. Ahead(s) + 8 * (l - 1) + (a + j) = (Ahead(s) + 8 * (l - 1) + a) + j
  <2>1. Ahead(s) \in Int
    BY AheadIs
  <2> QED BY <1>a, <1>b, <2>1
<1> QED BY <1>a, <1>b, <1>1, <1>2, <1>4, <1>5 DEF s, TookOfPre

(* What p sends next on level l *)
LEMMA NextToSuc ==
  ASSUME NEW w, NEW g, NEW p \in Player, NEW l \in Nat \ {0}, NEW a \in 0 .. 10,
         SentToSuc(p) = Ahead(p) + 8 * (l - 1) + a, NEW j \in 1 .. 8, a + j <= 8
  PROVE  Nth(w, g, p, Suc(p), SentToSuc(p) + j) = LevelWords(w, g, p, Suc(p), l)[a + j]
<1> DEFINE s == Suc(p)
<1>1. s \in Player /\ Words(p, s) = 8
  BY Ring DEF Words
<1> HIDE DEF s
<1>2. a + j \in 1 .. Words(p, s)
  BY <1>1
<1>3. Nth(w, g, p, s, Ahead(p) + Words(p, s) * (l - 1) + (a + j)) = LevelWords(w, g, p, s, l)[a + j]
  BY <1>1, <1>2, NthLevel
<1>4. Ahead(p) + 8 * (l - 1) + (a + j) = (Ahead(p) + 8 * (l - 1) + a) + j
  <2>1. Ahead(p) \in Int
    BY AheadIs
  <2> QED BY <2>1
<1> QED BY <1>1, <1>3, <1>4 DEF s

LEMMA NextToPre ==
  ASSUME NEW w, NEW g, NEW p \in Player, NEW l \in Nat \ {0}, NEW a \in 0 .. 10,
         SentToPre(p) = Ahead(p) + 10 * (l - 1) + a, NEW j \in 1 .. 10, a + j <= 10
  PROVE  Nth(w, g, p, Pre(p), SentToPre(p) + j) = LevelWords(w, g, p, Pre(p), l)[a + j]
<1> DEFINE s == Pre(p)
<1>1. s \in Player /\ Words(p, s) = 10
  BY Ring DEF Words
<1> HIDE DEF s
<1>2. a + j \in 1 .. Words(p, s)
  BY <1>1
<1>3. Nth(w, g, p, s, Ahead(p) + Words(p, s) * (l - 1) + (a + j)) = LevelWords(w, g, p, s, l)[a + j]
  BY <1>1, <1>2, NthLevel
<1>4. Ahead(p) + 10 * (l - 1) + (a + j) = (Ahead(p) + 10 * (l - 1) + a) + j
  <2>1. Ahead(p) \in Int
    BY AheadIs
  <2> QED BY <2>1
<1> QED BY <1>1, <1>3, <1>4 DEF s

LEMMA JoinedFirst ==
  ASSUME NEW A, NEW x \in Seq(A), NEW z \in Seq(A), NEW i \in 1 .. Len(x)
  PROVE  (x \o z)[i] = x[i]
OBVIOUS

LEMMA JoinedSecond ==
  ASSUME NEW A, NEW x \in Seq(A), NEW z \in Seq(A), NEW i \in 1 .. Len(z)
  PROVE  (x \o z)[Len(x) + i] = z[i]
<1> DEFINE k == Len(x) + i
<1>1. k \in 1 .. (Len(x) + Len(z)) /\ k > Len(x) /\ k - Len(x) = i
  OBVIOUS
<1> HIDE DEF k
<1>2. (x \o z)[k] = z[k - Len(x)]
  BY <1>1
<1> QED BY <1>1, <1>2 DEF k

LEMMA FourWords ==
  ASSUME NEW A, NEW a \in A, NEW b \in A, NEW c \in A, NEW d \in A
  PROVE  \A v : v = << a, b >> \o << c, d >> =>
           v \in Seq(A) /\ Len(v) = 4 /\ v[1] = a /\ v[2] = b /\ v[3] = c /\ v[4] = d
<1> DEFINE x == << a, b >>
           z == << c, d >>
<1>1. x \in Seq(A) /\ z \in Seq(A) /\ Len(x) = 2 /\ Len(z) = 2
  BY Two
<1>2. x[1] = a /\ x[2] = b /\ z[1] = c /\ z[2] = d
  OBVIOUS
<1> SUFFICES ASSUME NEW v, v = x \o z
             PROVE  v \in Seq(A) /\ Len(v) = 4 /\ v[1] = a /\ v[2] = b /\ v[3] = c /\ v[4] = d
  OBVIOUS
<1> HIDE DEF x, z
<1>3. v \in Seq(A) /\ Len(v) = 2 + 2
  BY <1>1, Pairs, ZenonT(60)
<1>4. 1 \in 1 .. Len(x) /\ 2 \in 1 .. Len(x) /\ 1 \in 1 .. Len(z) /\ 2 \in 1 .. Len(z)
  BY <1>1
<1>5. v[1] = x[1] /\ v[2] = x[2]
  BY <1>1, <1>4, JoinedFirst
<1>6. v[Len(x) + 1] = z[1] /\ v[Len(x) + 2] = z[2]
  <2>1. ASSUME NEW i \in 1 .. Len(z)
        PROVE  (x \o z)[Len(x) + i] = z[i]
    <3>1. x \in Seq(A) /\ z \in Seq(A)
      BY <1>1
    <3> QED BY <3>1, JoinedSecond
  <2> QED BY <1>4, <2>1
<1>7. Len(x) + 1 = 3 /\ Len(x) + 2 = 4
  BY <1>1
<1> QED BY <1>2, <1>3, <1>5, <1>6, <1>7

(* What the four words p receives complete *)
Arrives(d, p, fs, fp, D) ==
  /\ Square(d) /\ \A i \in Player : d[i][p] = D[i][p]
  /\ fs[1] = D[Suc(p)][Suc(p)] /\ fs[2] = D[Pre(p)][Suc(p)]
  /\ fp[1] = D[Pre(p)][Pre(p)] /\ fp[2] = D[Suc(p)][Pre(p)]

LEMMA Completed ==
  ASSUME NEW d, NEW p \in Player, NEW fs, NEW fp, NEW D, Arrives(d, p, fs, fp, D),
         NEW e, e = WithReceived(d, p, fs, fp), NEW len
  PROVE  /\ Square(e) /\ Delta(e, Suc(p), len) = Delta(D, Suc(p), len)
         /\ Delta(e, Pre(p), len) = Delta(D, Pre(p), len)
<1> DEFINE s == Suc(p)
           t == Pre(p)
<1>1. s \in Player /\ t \in Player /\ s # p /\ t # p /\ s # t /\ \A q \in Player : q = p \/ q = s \/ q = t
  BY Ring
<1>2. e = [d EXCEPT ![s][s] = fs[1], ![t][s] = fs[2], ![t][t] = fp[1], ![s][t] = fp[2]]
  BY DEF WithReceived
<1>3. /\ Square(d) /\ \A i \in Player : d[i][p] = D[i][p]
      /\ fs[1] = D[s][s] /\ fs[2] = D[t][s] /\ fp[1] = D[t][t] /\ fp[2] = D[s][t]
  BY DEF Arrives
<1>4. Delta(e, s, len) = (e[s][0] + e[s][1] + e[s][2]) % len /\ Delta(D, s, len) = (D[s][0] + D[s][1] + D[s][2]) % len
      /\ Delta(e, t, len) = (e[t][0] + e[t][1] + e[t][2]) % len /\ Delta(D, t, len) = (D[t][0] + D[t][1] + D[t][2]) % len
  BY DEF Delta
<1> HIDE DEF s, t
<1>5. Square(e)
  BY <1>1, <1>2, <1>3 DEF Square
<1>6. \A q \in Player : e[s][q] = D[s][q]
  <2>1. e[s][s] = fs[1] /\ e[s][t] = fp[2] /\ e[s][p] = d[s][p]
    BY <1>1, <1>2, <1>3 DEF Square
  <2> QED BY <1>1, <1>3, <2>1
<1>7. \A q \in Player : e[t][q] = D[t][q]
  <2>1. e[t][s] = fs[2] /\ e[t][t] = fp[1] /\ e[t][p] = d[t][p]
    BY <1>1, <1>2, <1>3 DEF Square
  <2> QED BY <1>1, <1>3, <2>1
<1>8. 0 \in Player /\ 1 \in Player /\ 2 \in Player
  BY DEF Player
<1> QED BY <1>4, <1>5, <1>6, <1>7, <1>8 DEF s, t

(* What stays if only p's part of the objects and results changes *)
OnlyAt(f, e, p) == Table(e) /\ \A o \in Objs, q \in Player : q # p => e[o][q] = f[o][q]
OnlyOf(f, e, p) == DOMAIN e = Player /\ \A q \in Player : q # p => e[q] = f[q]
SquaresOf(p) ==
  \A o \in Objs : Square(sotDeltas[o][p]) /\ Square(csotDeltas[o][p]) /\ DOMAIN blocks[o][p] = Player

LEMMA StepObjects ==
  ASSUME PaceInv, NEW p \in Player, NEW step, Goto(p, step), \A q \in Player \ {p} : level'[q] = level[q],
         shares' = shares, sks' = sks, gks' = gks, ics' = ics, Shapes,
         OnlyAt(sotDeltas, sotDeltas', p), OnlyAt(csotDeltas, csotDeltas', p), OnlyAt(blocks, blocks', p),
         SquaresOf(p)', OnlyOf(ki, ki', p), OnlyOf(idi, idi', p), OnlyOf(y, y', p),
         OnlyOf(x_pick, x_pick', p), OnlyOf(n_pick, n_pick', p)
  PROVE  Shapes' /\ \A q \in Player \ {p} : Unmoved(q)
<1>1. \A q \in Player \ {p} : pc'[q] = pc[q]
  BY DEF Goto, PaceInv, PaceOK
<1>2. \A q \in Player \ {p} : Unmoved(q)
  BY <1>1 DEF OnlyAt, OnlyOf, Unmoved
<1>3. ASSUME NEW o \in Objs, NEW q \in Player
      PROVE  Square(sotDeltas'[o][q]) /\ Square(csotDeltas'[o][q]) /\ DOMAIN blocks'[o][q] = Player
  <2>1. CASE q = p
    BY <2>1 DEF SquaresOf
  <2>2. CASE q # p
    BY <2>2 DEF OnlyAt, Shapes
  <2> QED BY <2>1, <2>2
<1>4. Shapes'
  <2>1. Table(sks') /\ Table(gks') /\ DOMAIN shares' = Player /\ DOMAIN ics' = Player
    BY DEF Shapes
  <2> QED BY <1>3, <2>1 DEF Shapes, OnlyAt, OnlyOf
<1> QED BY <1>2, <1>4

LEMMA Same2 ==
  ASSUME Shapes, NEW p \in Player
  PROVE  /\ OnlyAt(sotDeltas, sotDeltas, p) /\ OnlyAt(csotDeltas, csotDeltas, p) /\ OnlyAt(blocks, blocks, p)
         /\ OnlyOf(ki, ki, p) /\ OnlyOf(idi, idi, p) /\ OnlyOf(y, y, p)
         /\ OnlyOf(x_pick, x_pick, p) /\ OnlyOf(n_pick, n_pick, p) /\ SquaresOf(p)
BY DEF Shapes, OnlyAt, OnlyOf, SquaresOf

-------------------------------------------------------------------------------
(* Ask *)

LEMMA AskedWords ==
  ASSUME NEW w, NEW g, NEW p \in Player, NEW l, NEW o \in Objs, NEW d, Square(d), NEW idx,
         idx = (IF o = "x" THEN g[l].ki[p] ELSE g[l].idi[p]),
         NEW e, e = MyDeltas(d, w.seed, SotName(o), p, idx, l, LenOf(o))
  PROVE  Square(e) /\ \A i \in Player : e[i][p] = Away(w, g, l, o)[i][p]
<1>1. \A i \in Player : e[i] = [d[i] EXCEPT ![p] = MyDelta(w.seed, SotName(o), p, i, idx, l, LenOf(o))]
  BY DEF MyDeltas
<1>2. DOMAIN e = Player
  BY DEF MyDeltas
<1>3. Square(e) /\ \A i \in Player : e[i][p] = MyDelta(w.seed, SotName(o), p, i, idx, l, LenOf(o))
  <2> DEFINE m(i) == MyDelta(w.seed, SotName(o), p, i, idx, l, LenOf(o))
  <2>1. \A i \in Player : e[i] = [d[i] EXCEPT ![p] = m(i)]
    BY <1>1
  <2> HIDE DEF m
  <2>2. Square(e) /\ \A i \in Player : e[i][p] = m(i)
    BY <1>2, <2>1, ZenonT(60) DEF Square
  <2> QED BY <2>2 DEF m
<1>4. \A i \in Player : Away(w, g, l, o)[i][p] = MyDelta(w.seed, SotName(o), p, i, idx, l, LenOf(o))
  <2>1. CASE o = "x"
    BY <2>1 DEF Away, SotDeltas, SotDelta
  <2>2. CASE o # "x"
    BY <2>2 DEF Away, SotDeltas, SotDelta
  <2> QED BY <2>1, <2>2
<1> QED BY <1>3, <1>4

LEMMA AskWalks ==
  ASSUME PaceInv, NEW w, NEW g, Walked(w, g), NEW p \in Player, Ask(p)
  PROVE  Walked(w, g)'
<1> DEFINE idx(o) == IF o = "x" THEN ki[p] ELSE idi[p]
           v == [o \in {"x", "n"} |->
                   MyDeltas(sotDeltas[o][p], seed, SotName(o), p, idx(o), level[p], LenOf(o))]
           x == WordsForSuc(v["x"], p) \o WordsForSuc(v["n"], p)
           z == WordsForPre(v["x"], p) \o WordsForPre(v["n"], p)
<1>1. /\ pc[p] = << "ask" >> /\ Send(p, x, z) /\ Goto(p, << "pick", "x" >>) /\ level' = level
      /\ seed' = seed /\ tree' = tree /\ data' = data
      /\ shares' = shares /\ sks' = sks /\ gks' = gks /\ ics' = ics
      /\ csotDeltas' = csotDeltas /\ blocks' = blocks /\ ki' = ki /\ idi' = idi /\ y' = y
      /\ x_pick' = x_pick /\ n_pick' = n_pick
  BY DEF Ask, At
<1>s. sotDeltas' = [o \in Objs |-> [sotDeltas[o] EXCEPT ![p] = v[o]]]
  BY DEF Ask, Objs
<1>m. \A o \in Objs : v[o] = MyDeltas(sotDeltas[o][p], seed, SotName(o), p, idx(o), level[p], LenOf(o))
  BY DEF Objs
<1>x. /\ x = << v["x"][p][p], v["x"][Pre(p)][p] >> \o << v["n"][p][p], v["n"][Pre(p)][p] >>
      /\ z = << v["x"][p][p], v["x"][Suc(p)][p] >> \o << v["n"][p][p], v["n"][Suc(p)][p] >>
  BY DEF WordsForSuc, WordsForPre
<1> HIDE DEF v, x, z
<1>a. PICK l : l = level[p]
  OBVIOUS
<1>3. Place(pc[p]) = 7 /\ pc'[p] = << "pick", "x" >> /\ Place(pc'[p]) = 8 /\ level'[p] = l
  BY <1>1, <1>a, Stayed, Places DEF PaceInv
<1>4. Holds(w, g, p, 7, l) /\ l \in 1 .. Deep
  BY <1>3, <1>a, Now
<1>5. w.seed = seed /\ Shapes /\ Streams(w, g)
  BY DEF Walked, World
<1>6. ASSUME NEW o \in Objs
      PROVE  Square(v[o]) /\ \A i \in Player : v[o][i][p] = Away(w, g, l, o)[i][p]
  <2>1. ki[p] = g[l].ki[p] /\ idi[p] = g[l].idi[p]
    BY <1>4 DEF Holds, Position
  <2>2. idx(o) = (IF o = "x" THEN g[l].ki[p] ELSE g[l].idi[p])
    BY <2>1
  <2>3. Square(sotDeltas[o][p])
    BY <1>5 DEF Shapes
  <2>4. v[o] = MyDeltas(sotDeltas[o][p], w.seed, SotName(o), p, idx(o), l, LenOf(o))
    BY <1>5, <1>a, <1>m
  <2> DEFINE k == idx(o)
             d == sotDeltas[o][p]
             e == v[o]
  <2> HIDE DEF k, d, e, idx
  <2>5. /\ Square(d) /\ k = (IF o = "x" THEN g[l].ki[p] ELSE g[l].idi[p])
        /\ e = MyDeltas(d, w.seed, SotName(o), p, k, l, LenOf(o))
    BY <2>2, <2>3, <2>4 DEF k, d, e
  <2>6. Square(e) /\ \A i \in Player : e[i][p] = Away(w, g, l, o)[i][p]
    BY <2>5, AskedWords
  <2> QED BY <2>6 DEF e
<1>7. /\ OnlyAt(sotDeltas, sotDeltas', p) /\ \A o \in Objs : sotDeltas'[o][p] = v[o]
  <2> DEFINE f == sotDeltas
             e == sotDeltas'
  <2>1. Table(f) /\ e = [o \in Objs |-> [f[o] EXCEPT ![p] = v[o]]]
    BY <1>5, <1>s DEF Shapes
  <2> HIDE DEF f, e
  <2>2. /\ Table(e) /\ \A o \in Objs : e[o][p] = v[o]
        /\ \A o \in Objs, q \in Player : q # p => e[o][q] = f[o][q]
    BY <2>1 DEF Table
  <2> QED BY <2>2 DEF OnlyAt, e, f
<1>8. Shapes' /\ \A q \in Player \ {p} : Unmoved(q)
  <2>1. SquaresOf(p)'
    BY <1>1, <1>5, <1>6, <1>7 DEF SquaresOf, Shapes
  <2> QED BY <1>1, <1>5, <1>7, <2>1, Same2, StepObjects
<1>9. "x" \in Objs /\ "n" \in Objs
  BY DEF Objs
<1>10. Streams(w, g)'
  <2> DEFINE s == Suc(p)
             t == Pre(p)
  <2>1. s \in Player /\ t \in Player
    BY Ring
  <2>2. Deep \in Nat /\ IcCount \in Nat /\ IcCount' = IcCount /\ l \in Nat \ {0} /\ level[p] = l
        /\ Ahead(p) = Deal(p) + 2 * Deep + IcCount /\ Deal(p) \in Nat
    BY <1>4, <1>a, AheadIs DEF IcCount
  <2>3. SentToSuc(p) = Ahead(p) + 8 * (l - 1) + 0
    BY <1>3, <2>2 DEF SentToSuc, Once, Deal
  <2>4. SentToPre(p) = Ahead(p) + 10 * (l - 1) + 0
    BY <1>3, <2>2 DEF SentToPre, Once, Deal
  <2>5. TakenFromSuc(p)' = TakenFromSuc(p)
    BY <1>3, <2>2 DEF TakenFromSuc, Once, Deal
  <2>6. TakenFromPre(p)' = TakenFromPre(p)
    BY <1>3, <2>2 DEF TakenFromPre, Once, Deal
  <2> DEFINE A == {v["x"][p][p], v["x"][t][p], v["n"][p][p], v["n"][t][p], v["x"][s][p], v["n"][s][p]}
  <2>7. /\ v["x"][p][p] \in A /\ v["x"][t][p] \in A /\ v["n"][p][p] \in A /\ v["n"][t][p] \in A
        /\ v["x"][s][p] \in A /\ v["n"][s][p] \in A
    OBVIOUS
  <2> HIDE DEF A
  <2>8. /\ x \in Seq(A) /\ Len(x) = 4 /\ x[1] = v["x"][p][p] /\ x[2] = v["x"][t][p]
        /\ x[3] = v["n"][p][p] /\ x[4] = v["n"][t][p]
    BY <1>x, <2>7, FourWords
  <2>9. /\ z \in Seq(A) /\ Len(z) = 4 /\ z[1] = v["x"][p][p] /\ z[2] = v["x"][s][p]
        /\ z[3] = v["n"][p][p] /\ z[4] = v["n"][s][p]
    BY <1>x, <2>7, FourWords
  <2>10. ASSUME NEW j \in 1 .. 4
         PROVE  x[j] = Nth(w, g, p, s, SentToSuc(p) + j)
    <3>1. 0 \in 0 .. 10 /\ j \in 1 .. 8 /\ 0 + j <= 8 /\ 0 + j = j
      OBVIOUS
    <3>2. Nth(w, g, p, s, SentToSuc(p) + j) = LevelWords(w, g, p, s, l)[0 + j]
      BY <2>2, <2>3, <3>1, NextToSuc
    <3>3. /\ LevelWords(w, g, p, s, l)[1] = Away(w, g, l, "x")[p][p]
          /\ LevelWords(w, g, p, s, l)[2] = Away(w, g, l, "x")[t][p]
          /\ LevelWords(w, g, p, s, l)[3] = Away(w, g, l, "n")[p][p]
          /\ LevelWords(w, g, p, s, l)[4] = Away(w, g, l, "n")[t][p]
      BY SucWords
    <3>4. j = 1 \/ j = 2 \/ j = 3 \/ j = 4
      OBVIOUS
    <3> HIDE DEF s, t
    <3> QED BY <1>6, <1>9, <2>1, <2>8, <3>1, <3>2, <3>3, <3>4
  <2>11. ASSUME NEW j \in 1 .. 4
         PROVE  z[j] = Nth(w, g, p, t, SentToPre(p) + j)
    <3>1. 0 \in 0 .. 10 /\ j \in 1 .. 10 /\ 0 + j <= 10 /\ 0 + j = j
      OBVIOUS
    <3>2. Nth(w, g, p, t, SentToPre(p) + j) = LevelWords(w, g, p, t, l)[0 + j]
      BY <2>2, <2>4, <3>1, NextToPre
    <3>3. /\ LevelWords(w, g, p, t, l)[1] = Away(w, g, l, "x")[p][p]
          /\ LevelWords(w, g, p, t, l)[2] = Away(w, g, l, "x")[s][p]
          /\ LevelWords(w, g, p, t, l)[3] = Away(w, g, l, "n")[p][p]
          /\ LevelWords(w, g, p, t, l)[4] = Away(w, g, l, "n")[s][p]
      BY PreWords
    <3>4. j = 1 \/ j = 2 \/ j = 3 \/ j = 4
      OBVIOUS
    <3> HIDE DEF s, t
    <3> QED BY <1>6, <1>9, <2>1, <2>9, <3>1, <3>2, <3>3, <3>4
  <2>12. /\ x \in Seq(A) /\ z \in Seq(A)
         /\ \A j \in 1 .. Len(x) : x[j] = Nth(w, g, p, Suc(p), SentToSuc(p) + j)
         /\ \A j \in 1 .. Len(z) : z[j] = Nth(w, g, p, Pre(p), SentToPre(p) + j)
    BY <2>8, <2>9, <2>10, <2>11
  <2>13. Send(p, x, z) /\ Goto(p, << "pick", "x" >>) /\ level' = level
    BY <1>1
  <2> HIDE DEF s, t
  <2> QED BY <1>5, <2>5, <2>6, <2>12, <2>13, StreamsSend
<1>11. Holds(w, g, p, 8, l)'
  <2>a. IcCount' = IcCount
    BY DEF IcCount
  <2>1. pc'[p] # << "choose" >>
    BY <1>3
  <2>2. Progress(p, 8, l)'
    BY <1>4, <2>1 DEF Progress
  <2>3. Position(w, g, p, 8, l)'
    BY <1>1, <1>4 DEF Holds, Position
  <2>4. Keyed(w, p, 8)'
    <3>1. (KeysOf(w, p, "x")' <=> KeysOf(w, p, "x")) /\ (KeysOf(w, p, "n")' <=> KeysOf(w, p, "n"))
      BY <1>1 DEF KeysOf
    <3>2. IcsOf(w, p)' <=> IcsOf(w, p)
      BY <1>1, <2>a DEF IcsOf
    <3> QED BY <1>4, <3>1, <3>2 DEF Holds, Keyed
  <2>5. Picking(w, g, p, 8, l)'
    <3>1. ASSUME NEW o \in Objs
          PROVE  Asked(w, g, p, l, o)'
      BY <1>6, <1>7 DEF Asked
    <3> QED BY <1>9, <3>1 DEF Picking
  <2>6. Choosing(w, g, p, 8, l)'
    BY DEF Choosing
  <2> QED BY <2>2, <2>3, <2>4, <2>5, <2>6 DEF Holds
<1> QED BY <1>1, <1>3, <1>5, <1>8, <1>10, <1>11, WalkedStep

-------------------------------------------------------------------------------
(* Pick *)

LEMMA KeysAre ==
  ASSUME NEW w, NEW p \in Player, NEW o \in Objs, NEW l \in 1 .. Deep, KeysOf(w, p, o)
  PROVE  /\ gks[o][p][l] = PointKey(FALSE, FilisOf(w.seed, o, l)[Suc(p)], PointPads(w.seed, o, l)[Suc(p)])
         /\ sks[o][p][l] = PointKey(TRUE, FilisOf(w.seed, o, l)[Pre(p)], PointPads(w.seed, o, l)[Pre(p)])
<1>1. Suc(p) \in Player /\ Pre(p) \in Player /\ (p = Suc(Suc(p))) = FALSE /\ (p = Suc(Pre(p))) = TRUE
  BY Ring
<1>2. /\ gks[o][p][l] = SotKey(w.seed, o, Suc(p), p, l)
      /\ sks[o][p][l] = SotKey(w.seed, o, Pre(p), p, l)
  BY DEF KeysOf
<1> QED BY <1>1, <1>2 DEF SotKey, FilisOf, PointPads

LEMMA SelectedX ==
  ASSUME NEW w, w = World, NEW g, NEW p \in Player, NEW l \in 1 .. Deep, level[p] = l, KeysOf(w, p, "x"),
         NEW e, Delta(e, Suc(p), Feats) = Delta(Away(w, g, l, "x"), Suc(p), Feats),
         Delta(e, Pre(p), Feats) = Delta(Away(w, g, l, "x"), Pre(p), Feats)
  PROVE  Selected(p, "x", e) = PickedX(w, g[l], l)[p]
<1> DEFINE gk == PointKey(FALSE, FilisOf(w.seed, "x", l)[Suc(p)], PointPads(w.seed, "x", l)[Suc(p)])
           sk == PointKey(TRUE, FilisOf(w.seed, "x", l)[Pre(p)], PointPads(w.seed, "x", l)[Pre(p)])
           D == Away(w, g, l, "x")
<1>1. gks["x"][p][l] = gk /\ sks["x"][p][l] = sk
  BY KeysAre, ZenonT(60) DEF Objs
<1>2. w.x[Suc(p)] = FeatureShare(Pre(p)) /\ w.x[Pre(p)] = FeatureShare(p)
  <2>1. Suc(p) \in Player /\ Pre(p) \in Player /\ Suc(Suc(p)) = Pre(p) /\ Suc(Pre(p)) = p
    BY Ring
  <2> QED BY <2>1 DEF World
<1>3. PickedX(w, g[l], l)[p] = Answer(p, w.x[Suc(p)], w.x[Pre(p)], gk, sk, D, Feats, FeatMod)
  BY DEF PickedX, AnswersOf, Away
<1>4. Selected(p, "x", e) = Answer(p, FeatureShare(Pre(p)), FeatureShare(p), gk, sk, e, Feats, FeatMod)
  BY <1>1 DEF Selected
<1>5. Delta(e, Suc(p), Feats) = Delta(D, Suc(p), Feats) /\ Delta(e, Pre(p), Feats) = Delta(D, Pre(p), Feats)
  OBVIOUS
<1> HIDE DEF gk, sk, D
<1>6. Answer(p, FeatureShare(Pre(p)), FeatureShare(p), gk, sk, e, Feats, FeatMod)
        = Answer(p, FeatureShare(Pre(p)), FeatureShare(p), gk, sk, D, Feats, FeatMod)
  BY <1>5, Zenon DEF Answer
<1> QED BY <1>2, <1>3, <1>4, <1>6

LEMMA SelectedN ==
  ASSUME NEW w, w = World, NEW g, NEW p \in Player, NEW l \in 1 .. Deep, level[p] = l, KeysOf(w, p, "n"),
         shares[p] = << w.n[Suc(p)], w.n[Pre(p)] >>,
         NEW e, Delta(e, Suc(p), Nodes) = Delta(Away(w, g, l, "n"), Suc(p), Nodes),
         Delta(e, Pre(p), Nodes) = Delta(Away(w, g, l, "n"), Pre(p), Nodes)
  PROVE  Selected(p, "n", e) = PickedN(w, g[l], l)[p]
<1> DEFINE gk == PointKey(FALSE, FilisOf(w.seed, "n", l)[Suc(p)], PointPads(w.seed, "n", l)[Suc(p)])
           sk == PointKey(TRUE, FilisOf(w.seed, "n", l)[Pre(p)], PointPads(w.seed, "n", l)[Pre(p)])
           D == Away(w, g, l, "n")
<1>1. gks["n"][p][l] = gk /\ sks["n"][p][l] = sk
  BY KeysAre DEF Objs
<1>2. shares[p][1] = w.n[Suc(p)] /\ shares[p][2] = w.n[Pre(p)]
  OBVIOUS
<1>3. PickedN(w, g[l], l)[p] = Answer(p, w.n[Suc(p)], w.n[Pre(p)], gk, sk, D, Nodes, NodeMod)
  BY DEF PickedN, AnswersOf, Away
<1>4. Selected(p, "n", e) = Answer(p, w.n[Suc(p)], w.n[Pre(p)], gk, sk, e, Nodes, NodeMod)
  BY <1>1, <1>2 DEF Selected
<1>5. Delta(e, Suc(p), Nodes) = Delta(D, Suc(p), Nodes) /\ Delta(e, Pre(p), Nodes) = Delta(D, Pre(p), Nodes)
  OBVIOUS
<1> HIDE DEF gk, sk, D
<1>6. Answer(p, w.n[Suc(p)], w.n[Pre(p)], gk, sk, e, Nodes, NodeMod)
        = Answer(p, w.n[Suc(p)], w.n[Pre(p)], gk, sk, D, Nodes, NodeMod)
  BY <1>5, Zenon DEF Answer
<1> QED BY <1>3, <1>4, <1>6

(* The words of one SOT have come in *)
LEMMA AwayArrives ==
  ASSUME PaceInv, NEW w, NEW g, Walked(w, g), NEW p \in Player, NEW l \in 1 .. Deep, level[p] = l,
         NEW o \in Objs, Place(pc[p]) = (IF o = "x" THEN 8 ELSE 9), Arrived(p, 2, 2)
  PROVE  Arrives(sotDeltas[o][p], p, FromSuc(p, 2), FromPre(p, 2), Away(w, g, l, o))
<1> DEFINE s == Suc(p)
           t == Pre(p)
           D == Away(w, g, l, o)
<1>a. PICK a : a = IF o = "x" THEN 0 ELSE 2
  OBVIOUS
<1>b. (o = "x" /\ a = 0) \/ (o = "n" /\ a = 2)
  BY <1>a DEF Objs
<1>1. s \in Player /\ t \in Player /\ p = Pre(s) /\ p = Suc(t) /\ Suc(s) = t /\ Pre(t) = s
  BY Ring
<1>2. TookOfSuc(p, l, a)
  BY <1>b, AheadIs DEF TookOfSuc, TakenFromSuc, Once, Deal
<1>3. TookOfPre(p, l, a)
  BY <1>b, AheadIs DEF TookOfPre, TakenFromPre, Once, Deal
<1>4. Streams(w, g) /\ There(p, 2, 2)
  BY DEF Walked, There
<1>5. ASSUME NEW j \in 1 .. 2
      PROVE  FromSuc(p, 2)[j] = LevelWords(w, g, s, p, l)[a + j]
  <2> DEFINE k == a + j
  <2>1. NextWord(2, j, 2, a, k, 10) /\ k = a + j
    BY <1>b DEF NextWord
  <2> HIDE DEF k
  <2>2. FromSuc(p, 2)[j] = LevelWords(w, g, Suc(p), p, l)[k]
    BY <1>2, <1>4, <2>1, CameFromSuc
  <2> QED BY <2>1, <2>2
<1>6. ASSUME NEW j \in 1 .. 2
      PROVE  FromPre(p, 2)[j] = LevelWords(w, g, t, p, l)[a + j]
  <2> DEFINE k == a + j
  <2>1. NextWord(2, j, 2, a, k, 8) /\ k = a + j
    BY <1>b DEF NextWord
  <2> HIDE DEF k
  <2>2. FromPre(p, 2)[j] = LevelWords(w, g, Pre(p), p, l)[k]
    BY <1>3, <1>4, <2>1, CameFromPre
  <2> QED BY <2>1, <2>2
<1>7. /\ FromSuc(p, 2)[1] = LevelWords(w, g, s, p, l)[a + 1] /\ FromSuc(p, 2)[2] = LevelWords(w, g, s, p, l)[a + 2]
      /\ FromPre(p, 2)[1] = LevelWords(w, g, t, p, l)[a + 1] /\ FromPre(p, 2)[2] = LevelWords(w, g, t, p, l)[a + 2]
  BY <1>5, <1>6
<1>8. LevelWords(w, g, s, p, l)[a + 1] = D[s][s] /\ LevelWords(w, g, s, p, l)[a + 2] = D[t][s]
  <2> DEFINE v == LevelWords(w, g, s, p, l)
  <2>1. /\ v[1] = Away(w, g, l, "x")[s][s] /\ v[2] = Away(w, g, l, "x")[Suc(s)][s]
        /\ v[3] = Away(w, g, l, "n")[s][s] /\ v[4] = Away(w, g, l, "n")[Suc(s)][s]
    BY <1>1, PreWords
  <2> HIDE DEF v, s, t
  <2>2. v[a + 1] = D[s][s] /\ v[a + 2] = D[t][s]
    BY <1>1, <1>b, <2>1
  <2> QED BY <2>2 DEF v
<1>9. LevelWords(w, g, t, p, l)[a + 1] = D[t][t] /\ LevelWords(w, g, t, p, l)[a + 2] = D[s][t]
  <2> DEFINE v == LevelWords(w, g, t, p, l)
  <2>1. /\ v[1] = Away(w, g, l, "x")[t][t] /\ v[2] = Away(w, g, l, "x")[Pre(t)][t]
        /\ v[3] = Away(w, g, l, "n")[t][t] /\ v[4] = Away(w, g, l, "n")[Pre(t)][t]
    BY <1>1, SucWords
  <2> HIDE DEF v, s, t
  <2>2. v[a + 1] = D[t][t] /\ v[a + 2] = D[s][t]
    BY <1>1, <1>b, <2>1
  <2> QED BY <2>2 DEF v
<1>10. Square(sotDeltas[o][p])
  BY DEF Walked, Shapes
<1>11. \A i \in Player : sotDeltas[o][p][i][p] = D[i][p]
  <2>1. \E n : n = Place(pc[p]) /\ Holds(w, g, p, n, l)
    BY Now
  <2>2. Asked(w, g, p, l, o)
    BY <1>b, <2>1 DEF Holds, Picking
  <2> QED BY <2>2 DEF Asked
<1> QED BY <1>7, <1>8, <1>9, <1>10, <1>11 DEF Arrives

LEMMA PickXWalks ==
  ASSUME PaceInv, NEW w, NEW g, Walked(w, g), NEW p \in Player, PickX(p)
  PROVE  Walked(w, g)'
<1> DEFINE e == WithReceived(sotDeltas["x"][p], p, FromSuc(p, 2), FromPre(p, 2))
           r == Selected(p, "x", e).x
<1>a. PICK l : l = level[p]
  OBVIOUS
<1>1. /\ pc[p] = << "pick", "x" >> /\ Arrived(p, 2, 2) /\ Receive(p, 2, 2)
      /\ Goto(p, << "pick", "n" >>) /\ level' = level
      /\ seed' = seed /\ tree' = tree /\ data' = data
      /\ shares' = shares /\ sks' = sks /\ gks' = gks /\ ics' = ics
      /\ csotDeltas' = csotDeltas /\ blocks' = blocks /\ ki' = ki /\ idi' = idi /\ y' = y
      /\ n_pick' = n_pick
  BY DEF PickX, At
<1>s. sotDeltas' = [sotDeltas EXCEPT !["x"][p] = e] /\ x_pick' = [x_pick EXCEPT ![p] = r]
  BY DEF PickX
<1>e. e = WithReceived(sotDeltas["x"][p], p, FromSuc(p, 2), FromPre(p, 2))
  OBVIOUS
<1>r. r = Selected(p, "x", e).x
  OBVIOUS
<1> HIDE DEF e, r
<1>3. Place(pc[p]) = 8 /\ pc'[p] = << "pick", "n" >> /\ Place(pc'[p]) = 9 /\ level'[p] = l
  BY <1>1, <1>a, Stayed, Places DEF PaceInv
<1>4. Holds(w, g, p, 8, l) /\ l \in 1 .. Deep
  BY <1>3, <1>a, Now
<1>5. w = World /\ Shapes /\ Streams(w, g) /\ Table(sotDeltas) /\ DOMAIN x_pick = Player
  BY DEF Walked, Shapes
<1>o. "x" \in Objs /\ "n" \in Objs
  BY DEF Objs
<1>6. /\ Square(e) /\ Delta(e, Suc(p), Feats) = Delta(Away(w, g, l, "x"), Suc(p), Feats)
      /\ Delta(e, Pre(p), Feats) = Delta(Away(w, g, l, "x"), Pre(p), Feats)
  <2> DEFINE d == sotDeltas["x"][p]
             fs == FromSuc(p, 2)
             fp == FromPre(p, 2)
             D == Away(w, g, l, "x")
  <2>1. Arrives(d, p, fs, fp, D)
    <3>1. Place(pc[p]) = (IF "x" = "x" THEN 8 ELSE 9)
      BY <1>3
    <3> QED BY <1>1, <1>4, <1>a, <1>o, <3>1, AwayArrives
  <2>2. e = WithReceived(d, p, fs, fp)
    BY <1>e
  <2> HIDE DEF d, fs, fp, D
  <2>3. Square(e) /\ \A len : Delta(e, Suc(p), len) = Delta(D, Suc(p), len) /\ Delta(e, Pre(p), len) = Delta(D, Pre(p), len)
    BY <2>1, <2>2, Completed
  <2> QED BY <2>3 DEF D
<1>7. r = PickedX(w, g[l], l)[p].x
  <2>1. level[p] = l /\ KeysOf(w, p, "x")
    BY <1>4, <1>a DEF Holds, Keyed
  <2>2. Selected(p, "x", e) = PickedX(w, g[l], l)[p]
    BY <1>4, <1>5, <1>6, <2>1, SelectedX
  <2> QED BY <1>r, <2>2
<1>8. /\ OnlyAt(sotDeltas, sotDeltas', p) /\ sotDeltas'["x"][p] = e
      /\ sotDeltas'["n"][p] = sotDeltas["n"][p]
  <2> DEFINE f == sotDeltas
             h == sotDeltas'
  <2>1. Table(f) /\ h = [f EXCEPT !["x"][p] = e]
    BY <1>5, <1>s
  <2> HIDE DEF f, h
  <2>2. OnlyAt(f, h, p) /\ h["x"][p] = e /\ h["n"][p] = f["n"][p]
    BY <1>o, <2>1 DEF Table, OnlyAt
  <2> QED BY <2>2 DEF f, h
<1>9. OnlyOf(x_pick, x_pick', p) /\ x_pick'[p] = r
  BY <1>5, <1>s DEF OnlyOf
<1>10. Shapes' /\ \A q \in Player \ {p} : Unmoved(q)
  <2>1. SquaresOf(p)'
    BY <1>1, <1>5, <1>6, <1>8 DEF SquaresOf, Shapes, Objs
  <2> QED BY <1>1, <1>5, <1>8, <1>9, <2>1, Same2, StepObjects
<1>11. Streams(w, g)'
  <2>1. level[p] \in Nat /\ level'[p] = level[p] /\ Deep \in Nat /\ IcCount \in Nat /\ IcCount' = IcCount
    BY <1>3, <1>4, <1>a, AheadIs DEF IcCount
  <2>2. TakenFromSuc(p)' = TakenFromSuc(p) + 2
    BY <1>3, <2>1 DEF TakenFromSuc, Once, Deal
  <2>3. TakenFromPre(p)' = TakenFromPre(p) + 2
    BY <1>3, <2>1 DEF TakenFromPre, Once, Deal
  <2>4. 2 \in Nat /\ \A q \in Player \ {p} : level'[q] = level[q]
    BY <1>1
  <2> QED BY <1>1, <1>5, <2>2, <2>3, <2>4, StreamsReceive
<1>12. Holds(w, g, p, 9, l)'
  <2>a. IcCount' = IcCount
    BY DEF IcCount
  <2>1. pc'[p] # << "choose" >>
    BY <1>3
  <2>2. Progress(p, 9, l)'
    BY <1>4, <2>1 DEF Progress
  <2>3. Position(w, g, p, 9, l)'
    BY <1>1, <1>4 DEF Holds, Position
  <2>4. Keyed(w, p, 9)'
    <3>1. (KeysOf(w, p, "x")' <=> KeysOf(w, p, "x")) /\ (KeysOf(w, p, "n")' <=> KeysOf(w, p, "n"))
      BY <1>1 DEF KeysOf
    <3>2. IcsOf(w, p)' <=> IcsOf(w, p)
      BY <1>1, <2>a DEF IcsOf
    <3> QED BY <1>4, <3>1, <3>2 DEF Holds, Keyed
  <2>5. Picking(w, g, p, 9, l)'
    <3>1. Asked(w, g, p, l, "n")
      BY <1>4 DEF Holds, Picking
    <3>2. Asked(w, g, p, l, "n")'
      BY <1>8, <3>1 DEF Asked
    <3>3. x_pick'[p] = PickedX(w, g[l], l)[p].x
      BY <1>7, <1>9
    <3> QED BY <3>2, <3>3 DEF Picking
  <2>6. Choosing(w, g, p, 9, l)'
    BY DEF Choosing
  <2> QED BY <2>2, <2>3, <2>4, <2>5, <2>6 DEF Holds
<1> QED BY <1>1, <1>3, <1>10, <1>11, <1>12, WalkedStep

LEMMA PickNWalks ==
  ASSUME PaceInv, NEW w, NEW g, Walked(w, g), NEW p \in Player, PickN(p)
  PROVE  Walked(w, g)'
<1> DEFINE e == WithReceived(sotDeltas["n"][p], p, FromSuc(p, 2), FromPre(p, 2))
           r == Selected(p, "n", e)
<1>a. PICK l, to : l = level[p] /\ to = IF level[p] = Deep THEN << "done" >> ELSE << "choose" >>
  OBVIOUS
<1>1. /\ pc[p] = << "pick", "n" >> /\ Arrived(p, 2, 2) /\ Receive(p, 2, 2)
      /\ Goto(p, to) /\ level' = level
      /\ seed' = seed /\ tree' = tree /\ data' = data
      /\ shares' = shares /\ sks' = sks /\ gks' = gks /\ ics' = ics
      /\ csotDeltas' = csotDeltas /\ blocks' = blocks /\ ki' = ki /\ idi' = idi
      /\ x_pick' = x_pick
  BY <1>a DEF PickN, At
<1>s. sotDeltas' = [sotDeltas EXCEPT !["n"][p] = e] /\ n_pick' = [n_pick EXCEPT ![p] = r]
  BY DEF PickN
<1>y. y' = [y EXCEPT ![p] = (@ + r.v) % W]
  BY DEF PickN
<1>e. e = WithReceived(sotDeltas["n"][p], p, FromSuc(p, 2), FromPre(p, 2))
  OBVIOUS
<1>r. r = Selected(p, "n", e)
  OBVIOUS
<1> HIDE DEF e, r
<1>3. Place(pc[p]) = 9 /\ pc'[p] = to /\ Place(pc'[p]) = 10 /\ level'[p] = l /\ (to = << "choose" >> => l # Deep)
  <2>1. << "choose" >> # << "done" >>
    OBVIOUS
  <2> QED BY <1>1, <1>a, <2>1, Stayed, Places DEF PaceInv
<1>4. Holds(w, g, p, 9, l) /\ l \in 1 .. Deep
  BY <1>3, <1>a, Now
<1>5. w = World /\ Shapes /\ Streams(w, g) /\ Table(sotDeltas) /\ DOMAIN n_pick = Player /\ DOMAIN y = Player
  BY DEF Walked, Shapes
<1>o. "x" \in Objs /\ "n" \in Objs
  BY DEF Objs
<1>6. /\ Square(e) /\ Delta(e, Suc(p), Nodes) = Delta(Away(w, g, l, "n"), Suc(p), Nodes)
      /\ Delta(e, Pre(p), Nodes) = Delta(Away(w, g, l, "n"), Pre(p), Nodes)
  <2> DEFINE d == sotDeltas["n"][p]
             fs == FromSuc(p, 2)
             fp == FromPre(p, 2)
             D == Away(w, g, l, "n")
  <2>1. Arrives(d, p, fs, fp, D)
    <3>1. Place(pc[p]) = (IF "n" = "x" THEN 8 ELSE 9)
      BY <1>3
    <3> QED BY <1>1, <1>4, <1>a, <1>o, <3>1, AwayArrives
  <2>2. e = WithReceived(d, p, fs, fp)
    BY <1>e
  <2> HIDE DEF d, fs, fp, D
  <2>3. Square(e) /\ \A len : Delta(e, Suc(p), len) = Delta(D, Suc(p), len) /\ Delta(e, Pre(p), len) = Delta(D, Pre(p), len)
    BY <2>1, <2>2, Completed
  <2> QED BY <2>3 DEF D
<1>7. r = PickedN(w, g[l], l)[p]
  <2>1. level[p] = l /\ KeysOf(w, p, "n") /\ shares[p] = << w.n[Suc(p)], w.n[Pre(p)] >>
    BY <1>4, <1>a DEF Holds, Keyed, Position
  <2>2. Selected(p, "n", e) = PickedN(w, g[l], l)[p]
    BY <1>4, <1>5, <1>6, <2>1, SelectedN
  <2> QED BY <1>r, <2>2
<1>8. /\ OnlyAt(sotDeltas, sotDeltas', p) /\ sotDeltas'["n"][p] = e
      /\ sotDeltas'["x"][p] = sotDeltas["x"][p]
  <2> DEFINE f == sotDeltas
             h == sotDeltas'
  <2>1. Table(f) /\ h = [f EXCEPT !["n"][p] = e]
    BY <1>5, <1>s
  <2> HIDE DEF f, h
  <2>2. OnlyAt(f, h, p) /\ h["n"][p] = e /\ h["x"][p] = f["x"][p]
    BY <1>o, <2>1 DEF Table, OnlyAt
  <2> QED BY <2>2 DEF f, h
<1>9. OnlyOf(n_pick, n_pick', p) /\ n_pick'[p] = r
  BY <1>5, <1>s DEF OnlyOf
<1>z. OnlyOf(y, y', p) /\ y'[p] = (y[p] + r.v) % W
  BY <1>5, <1>y DEF OnlyOf
<1>10. Shapes' /\ \A q \in Player \ {p} : Unmoved(q)
  <2>1. SquaresOf(p)'
    BY <1>1, <1>5, <1>6, <1>8 DEF SquaresOf, Shapes, Objs
  <2> QED BY <1>1, <1>5, <1>8, <1>9, <1>z, <2>1, Same2, StepObjects
<1>11. Streams(w, g)'
  <2>1. level[p] \in Nat /\ level'[p] = level[p] /\ Deep \in Nat /\ IcCount \in Nat /\ IcCount' = IcCount
    BY <1>3, <1>4, <1>a, AheadIs DEF IcCount
  <2>2. TakenFromSuc(p)' = TakenFromSuc(p) + 2
    BY <1>3, <2>1 DEF TakenFromSuc, Once, Deal
  <2>3. TakenFromPre(p)' = TakenFromPre(p) + 2
    BY <1>3, <2>1 DEF TakenFromPre, Once, Deal
  <2>4. 2 \in Nat /\ \A q \in Player \ {p} : level'[q] = level[q]
    BY <1>1
  <2> QED BY <1>1, <1>5, <2>2, <2>3, <2>4, StreamsReceive
<1>12. Holds(w, g, p, 10, l)'
  <2>a. IcCount' = IcCount
    BY DEF IcCount
  <2>1. l # Deep => l < Deep
    BY <1>4, SizesAssumption
  <2>2. Progress(p, 10, l)'
    BY <1>3, <1>4, <2>1 DEF Progress
  <2>3. Position(w, g, p, 10, l)'
    <3>1. g[l + 1] = Onward(w, g[l], l)
      BY <1>4 DEF Walked, IsWalk
    <3>2. g[l + 1].y[p] = (g[l].y[p] + Field(w, g[l], l, "v")[p]) % W
      BY <3>1 DEF Onward
    <3>3. Field(w, g[l], l, "v")[p] = r.v
      BY <1>7 DEF Field
    <3>4. y[p] = g[l].y[p]
      BY <1>4 DEF Holds, Position
    <3>5. y'[p] = g[l + 1].y[p]
      BY <1>z, <3>2, <3>3, <3>4
    <3> QED BY <1>1, <1>4, <3>5 DEF Holds, Position
  <2>4. Keyed(w, p, 10)'
    <3>1. (KeysOf(w, p, "x")' <=> KeysOf(w, p, "x")) /\ (KeysOf(w, p, "n")' <=> KeysOf(w, p, "n"))
      BY <1>1 DEF KeysOf
    <3>2. IcsOf(w, p)' <=> IcsOf(w, p)
      BY <1>1, <2>a DEF IcsOf
    <3> QED BY <1>4, <3>1, <3>2 DEF Holds, Keyed
  <2>5. Picking(w, g, p, 10, l)'
    <3>1. x_pick[p] = PickedX(w, g[l], l)[p].x
      BY <1>4 DEF Holds, Picking
    <3>2. x_pick'[p] = PickedX(w, g[l], l)[p].x
      BY <1>1, <3>1
    <3>3. n_pick'[p] = PickedN(w, g[l], l)[p]
      BY <1>7, <1>9
    <3> QED BY <3>2, <3>3 DEF Picking
  <2>6. Choosing(w, g, p, 10, l)'
    BY DEF Choosing
  <2> QED BY <2>2, <2>3, <2>4, <2>5, <2>6 DEF Holds
<1> QED BY <1>1, <1>3, <1>10, <1>11, <1>12, WalkedStep

-------------------------------------------------------------------------------
(* Choose *)

LEMMA SixWords ==
  ASSUME NEW A, NEW a \in A, NEW b \in A, NEW c \in A, NEW d \in A, NEW e \in A, NEW f \in A
  PROVE  \A v : v = << a, b >> \o << c >> \o << d, e >> \o << f >> =>
           /\ v \in Seq(A) /\ Len(v) = 6
           /\ v[1] = a /\ v[2] = b /\ v[3] = c /\ v[4] = d /\ v[5] = e /\ v[6] = f
<1> DEFINE x == << a, b >>
           k == << c >>
           z == << d, e >>
           n == << f >>
           q == x \o k
           r == q \o z
<1>1. /\ x \in Seq(A) /\ Len(x) = 2 /\ k \in Seq(A) /\ Len(k) = 1
      /\ z \in Seq(A) /\ Len(z) = 2 /\ n \in Seq(A) /\ Len(n) = 1
  BY Two
<1>2. x[1] = a /\ x[2] = b /\ k[1] = c /\ z[1] = d /\ z[2] = e /\ n[1] = f
  OBVIOUS
<1> SUFFICES ASSUME NEW v, v = r \o n
             PROVE  /\ v \in Seq(A) /\ Len(v) = 6
                    /\ v[1] = a /\ v[2] = b /\ v[3] = c /\ v[4] = d /\ v[5] = e /\ v[6] = f
  OBVIOUS
<1>3. q = x \o k /\ r = q \o z
  OBVIOUS
<1> HIDE DEF x, z, k, n, q, r
<1>4. ASSUME NEW u \in Seq(A), NEW t \in Seq(A), NEW i \in 1 .. Len(t)
      PROVE  (u \o t)[Len(u) + i] = t[i]
  BY JoinedSecond
<1>5. ASSUME NEW u \in Seq(A), NEW t \in Seq(A), NEW i \in 1 .. Len(u)
      PROVE  (u \o t)[i] = u[i]
  BY JoinedFirst
<1>6. q \in Seq(A) /\ Len(q) = 3
  <2>1. x \in Seq(A) /\ k \in Seq(A) /\ Len(x) = 2 /\ Len(k) = 1
    BY <1>1
  <2>2. x \o k \in Seq(A) /\ Len(x \o k) = 2 + 1
    BY <2>1, Pairs
  <2>3. 2 + 1 = 3
    OBVIOUS
  <2> QED BY <1>3, <2>2, <2>3
<1>7. r \in Seq(A) /\ Len(r) = 5
  <2>1. q \in Seq(A) /\ z \in Seq(A) /\ Len(q) = 3 /\ Len(z) = 2
    BY <1>1, <1>6
  <2>2. q \o z \in Seq(A) /\ Len(q \o z) = 3 + 2
    BY <2>1, Pairs
  <2>3. 3 + 2 = 5
    OBVIOUS
  <2> QED BY <1>3, <2>2, <2>3
<1>8. v \in Seq(A) /\ Len(v) = 6
  <2>1. r \in Seq(A) /\ n \in Seq(A) /\ Len(r) = 5 /\ Len(n) = 1
    BY <1>1, <1>7
  <2>2. r \o n \in Seq(A) /\ Len(r \o n) = 5 + 1
    BY <2>1, Pairs
  <2>3. 5 + 1 = 6
    OBVIOUS
  <2> QED BY <1>3, <2>2, <2>3
<1>9. q[1] = a /\ q[2] = b /\ q[3] = c
  <2>1. x \in Seq(A) /\ k \in Seq(A) /\ Len(x) = 2 /\ Len(k) = 1
    BY <1>1
  <2>2. 1 \in 1 .. Len(x) /\ 2 \in 1 .. Len(x)
    BY <2>1
  <2>3. 1 \in 1 .. Len(k)
    BY <2>1
  <2>4. (x \o k)[1] = x[1] /\ (x \o k)[2] = x[2]
    BY <2>1, <2>2, <1>5
  <2>5. (x \o k)[Len(x) + 1] = k[1]
    BY <2>1, <2>3, <1>4
  <2>6. Len(x) + 1 = 3
    BY <2>1
  <2> QED BY <1>2, <1>3, <2>4, <2>5, <2>6
<1>10. r[1] = a /\ r[2] = b /\ r[3] = c /\ r[4] = d /\ r[5] = e
  <2>1. q \in Seq(A) /\ z \in Seq(A) /\ Len(q) = 3 /\ Len(z) = 2
    BY <1>1, <1>6
  <2>2. 1 \in 1 .. Len(q) /\ 2 \in 1 .. Len(q) /\ 3 \in 1 .. Len(q)
    BY <2>1
  <2>3. 1 \in 1 .. Len(z) /\ 2 \in 1 .. Len(z)
    BY <2>1
  <2>4. (q \o z)[1] = q[1] /\ (q \o z)[2] = q[2] /\ (q \o z)[3] = q[3]
    BY <2>1, <2>2, <1>5
  <2>5. (q \o z)[Len(q) + 1] = z[1] /\ (q \o z)[Len(q) + 2] = z[2]
    BY <2>1, <2>3, <1>4
  <2>6. Len(q) + 1 = 4 /\ Len(q) + 2 = 5
    BY <2>1
  <2> QED BY <1>2, <1>3, <1>9, <2>4, <2>5, <2>6
<1>11. v[1] = a /\ v[2] = b /\ v[3] = c /\ v[4] = d /\ v[5] = e /\ v[6] = f
  <2>1. r \in Seq(A) /\ n \in Seq(A) /\ Len(r) = 5 /\ Len(n) = 1
    BY <1>1, <1>7
  <2>2. 1 \in 1 .. Len(r) /\ 2 \in 1 .. Len(r) /\ 3 \in 1 .. Len(r) /\ 4 \in 1 .. Len(r) /\ 5 \in 1 .. Len(r)
    BY <2>1
  <2>3. 1 \in 1 .. Len(n)
    BY <2>1
  <2>4. (r \o n)[1] = r[1] /\ (r \o n)[2] = r[2] /\ (r \o n)[3] = r[3] /\ (r \o n)[4] = r[4] /\ (r \o n)[5] = r[5]
    BY <2>1, <2>2, <1>5
  <2>5. (r \o n)[Len(r) + 1] = n[1]
    BY <2>1, <2>3, <1>4
  <2>6. Len(r) + 1 = 6
    BY <2>1
  <2> QED BY <1>2, <1>3, <1>10, <2>4, <2>5, <2>6
<1> QED BY <1>8, <1>11

LEMMA ComparedWords ==
  ASSUME NEW w, NEW g, NEW p \in Player, NEW l, NEW o \in Objs, NEW a, NEW b,
         a = PickedX(w, g[l], l)[p].x, b = PickedN(w, g[l], l)[p].t,
         NEW e, e = Differences(Zeros, w.seed, CsotName(o, l), p, << a, b >>)
  PROVE  Square(e) /\ \A i \in Player : e[i][p] = Apart(w, g, l, o)[i][p]
<1> DEFINE m(i) == CsotDelta(w.seed, o, l, a, b, i, p)
<1>1. \A i \in Player : e[i] = [Zeros[i] EXCEPT ![p] = m(i)]
  BY DEF Differences, CsotDelta
<1>2. DOMAIN e = Player
  BY DEF Differences
<1>3. Square(Zeros)
  BY DEF Square, Zeros
<1>4. \A i \in Player : Apart(w, g, l, o)[i][p] = m(i)
  <2>1. Feature(w, g[l], l)[p] = a /\ Field(w, g[l], l, "t")[p] = b
    BY DEF Feature, Field
  <2> QED BY <2>1 DEF Apart, CsotDeltas
<1> HIDE DEF m
<1>5. Square(e) /\ \A i \in Player : e[i][p] = m(i)
  BY <1>1, <1>2, <1>3, ZenonT(60) DEF Square
<1> QED BY <1>4, <1>5

LEMMA BlocksAre ==
  ASSUME NEW w, NEW g, NEW p \in Player, NEW l, NEW o \in Objs, NEW r, r = PickedN(w, g[l], l)[p],
         NEW b, b = (IF o = "x" THEN << r.xl, r.xr >> ELSE << r.nl, r.nr >>)
  PROVE  MaskedBlocks(w.seed, CsotName(o, l), p, b, LenOf(o)) = Blocks(w, g, l, o, p)
<1>1. b = << Field(w, g[l], l, First(o))[p], Field(w, g[l], l, Second(o))[p] >>
  <2>1. CASE o = "x"
    BY <2>1 DEF First, Second, Field
  <2>2. CASE o = "n"
    BY <2>2 DEF First, Second, Field
  <2> QED BY <2>1, <2>2 DEF Objs
<1> QED BY <1>1 DEF Blocks, Masked

LEMMA ChooseWalks ==
  ASSUME PaceInv, NEW w, NEW g, Walked(w, g), NEW p \in Player, Choose(p)
  PROVE  Walked(w, g)'
<1> DEFINE m == << x_pick[p], n_pick[p].t >>
           b(o) == IF o = "x" THEN << n_pick[p].xl, n_pick[p].xr >> ELSE << n_pick[p].nl, n_pick[p].nr >>
           v == [o \in {"x", "n"} |-> Differences(Zeros, seed, CsotName(o, level[p]), p, m)]
           u == [o \in {"x", "n"} |-> MaskedBlocks(seed, CsotName(o, level[p]), p, b(o), LenOf(o))]
           x == ChoiceForSuc(v, u, p)
           z == ChoiceForPre(v, u, p)
<1>1. /\ pc[p] = << "choose" >> /\ Send(p, x, z) /\ Goto(p, << "chosen", "x" >>) /\ level' = level
      /\ seed' = seed /\ tree' = tree /\ data' = data
      /\ shares' = shares /\ sks' = sks /\ gks' = gks /\ ics' = ics
      /\ sotDeltas' = sotDeltas /\ ki' = ki /\ idi' = idi /\ y' = y
      /\ x_pick' = x_pick /\ n_pick' = n_pick
  BY DEF Choose, At
<1>s. /\ csotDeltas' = [o \in Objs |-> [csotDeltas[o] EXCEPT ![p] = v[o]]]
      /\ blocks' = [o \in Objs |-> [blocks[o] EXCEPT ![p] = [@ EXCEPT ![p] = u[o]]]]
  BY DEF Choose, Objs
<1>m. \A o \in Objs : /\ v[o] = Differences(Zeros, seed, CsotName(o, level[p]), p, m)
                      /\ u[o] = MaskedBlocks(seed, CsotName(o, level[p]), p, b(o), LenOf(o))
  BY DEF Objs
<1> HIDE DEF v, u
<1>x. /\ x = << v["x"][p][p], v["x"][Pre(p)][p] >> \o << v["n"][p][p], v["n"][Pre(p)][p] >>
      /\ z = << v["x"][p][p], v["x"][Suc(p)][p] >> \o << u["x"] >> \o << v["n"][p][p], v["n"][Suc(p)][p] >> \o << u["n"] >>
  BY DEF WordsForSuc, WordsForPre, ChoiceForSuc, ChoiceForPre
<1> HIDE DEF x, z
<1>a. PICK l : l = level[p]
  OBVIOUS
<1>3. Place(pc[p]) = 10 /\ pc'[p] = << "chosen", "x" >> /\ Place(pc'[p]) = 11 /\ level'[p] = l
  BY <1>1, <1>a, Stayed, Places DEF PaceInv
<1>4. Holds(w, g, p, 10, l) /\ l \in 1 .. Deep
  BY <1>3, <1>a, Now
<1>5. w.seed = seed /\ Shapes /\ Streams(w, g)
  BY DEF Walked, World
<1>p. x_pick[p] = PickedX(w, g[l], l)[p].x /\ n_pick[p] = PickedN(w, g[l], l)[p]
  BY <1>4 DEF Holds, Picking
<1>6. ASSUME NEW o \in Objs
      PROVE  Square(v[o]) /\ \A i \in Player : v[o][i][p] = Apart(w, g, l, o)[i][p]
  <2> DEFINE a == x_pick[p]
             t == n_pick[p].t
             e == v[o]
  <2>1. e = Differences(Zeros, w.seed, CsotName(o, l), p, << a, t >>)
    BY <1>5, <1>a, <1>m
  <2>2. a = PickedX(w, g[l], l)[p].x /\ t = PickedN(w, g[l], l)[p].t
    BY <1>p
  <2> HIDE DEF a, t, e
  <2>3. Square(e) /\ \A i \in Player : e[i][p] = Apart(w, g, l, o)[i][p]
    BY <2>1, <2>2, ComparedWords
  <2> QED BY <2>3 DEF e
<1>7. ASSUME NEW o \in Objs
      PROVE  u[o] = Blocks(w, g, l, o, p)
  <2> DEFINE r == n_pick[p]
             c == b(o)
  <2>1. u[o] = MaskedBlocks(w.seed, CsotName(o, l), p, c, LenOf(o))
    BY <1>5, <1>a, <1>m
  <2>2. r = PickedN(w, g[l], l)[p] /\ c = (IF o = "x" THEN << r.xl, r.xr >> ELSE << r.nl, r.nr >>)
    BY <1>p
  <2> HIDE DEF r, c
  <2>3. MaskedBlocks(w.seed, CsotName(o, l), p, c, LenOf(o)) = Blocks(w, g, l, o, p)
    BY <2>2, BlocksAre
  <2> QED BY <2>1, <2>3
<1> HIDE DEF m, b
<1>8. /\ OnlyAt(csotDeltas, csotDeltas', p) /\ \A o \in Objs : csotDeltas'[o][p] = v[o]
  <2> DEFINE f == csotDeltas
             e == csotDeltas'
  <2>1. Table(f) /\ e = [o \in Objs |-> [f[o] EXCEPT ![p] = v[o]]]
    BY <1>5, <1>s DEF Shapes
  <2> HIDE DEF f, e
  <2>2. OnlyAt(f, e, p) /\ \A o \in Objs : e[o][p] = v[o]
    BY <2>1 DEF Table, OnlyAt
  <2> QED BY <2>2 DEF e, f
<1>9. /\ OnlyAt(blocks, blocks', p)
      /\ \A o \in Objs : DOMAIN blocks'[o][p] = Player /\ blocks'[o][p][p] = u[o]
  <2> DEFINE f == blocks
             e == blocks'
  <2>1. /\ Table(f) /\ e = [o \in Objs |-> [f[o] EXCEPT ![p] = [@ EXCEPT ![p] = u[o]]]]
        /\ \A o \in Objs : DOMAIN f[o][p] = Player
    BY <1>5, <1>s DEF Shapes
  <2> HIDE DEF f, e
  <2>2. /\ OnlyAt(f, e, p)
        /\ \A o \in Objs : DOMAIN e[o][p] = Player /\ e[o][p][p] = u[o]
    BY <2>1 DEF Table, OnlyAt
  <2> QED BY <2>2 DEF e, f
<1>10. Shapes' /\ \A q \in Player \ {p} : Unmoved(q)
  <2>1. SquaresOf(p)'
    BY <1>1, <1>5, <1>6, <1>8, <1>9 DEF SquaresOf, Shapes
  <2> QED BY <1>1, <1>5, <1>8, <1>9, <2>1, Same2, StepObjects
<1>o. "x" \in Objs /\ "n" \in Objs
  BY DEF Objs
<1>11. Streams(w, g)'
  <2> DEFINE s == Suc(p)
             t == Pre(p)
  <2>1. s \in Player /\ t \in Player
    BY Ring
  <2>2. Deep \in Nat /\ IcCount \in Nat /\ IcCount' = IcCount /\ l \in Nat \ {0} /\ level[p] = l
        /\ Ahead(p) = Deal(p) + 2 * Deep + IcCount /\ Deal(p) \in Nat
    BY <1>4, <1>a, AheadIs DEF IcCount
  <2>3. SentToSuc(p) = Ahead(p) + 8 * (l - 1) + 4
    BY <1>3, <2>2 DEF SentToSuc, Once, Deal
  <2>4. SentToPre(p) = Ahead(p) + 10 * (l - 1) + 4
    BY <1>3, <2>2 DEF SentToPre, Once, Deal
  <2>5. TakenFromSuc(p)' = TakenFromSuc(p)
    BY <1>3, <2>2 DEF TakenFromSuc, Once, Deal
  <2>6. TakenFromPre(p)' = TakenFromPre(p)
    BY <1>3, <2>2 DEF TakenFromPre, Once, Deal
  <2> DEFINE A == {v["x"][p][p], v["x"][t][p], v["n"][p][p], v["n"][t][p], v["x"][s][p], v["n"][s][p],
                   u["x"], u["n"]}
  <2>7. /\ v["x"][p][p] \in A /\ v["x"][t][p] \in A /\ v["n"][p][p] \in A /\ v["n"][t][p] \in A
        /\ v["x"][s][p] \in A /\ v["n"][s][p] \in A /\ u["x"] \in A /\ u["n"] \in A
    OBVIOUS
  <2> HIDE DEF A
  <2>8. /\ x \in Seq(A) /\ Len(x) = 4 /\ x[1] = v["x"][p][p] /\ x[2] = v["x"][t][p]
        /\ x[3] = v["n"][p][p] /\ x[4] = v["n"][t][p]
    BY <1>x, <2>7, FourWords
  <2>9. /\ z \in Seq(A) /\ Len(z) = 6 /\ z[1] = v["x"][p][p] /\ z[2] = v["x"][s][p] /\ z[3] = u["x"]
        /\ z[4] = v["n"][p][p] /\ z[5] = v["n"][s][p] /\ z[6] = u["n"]
    BY <1>x, <2>7, SixWords
  <2>10. ASSUME NEW j \in 1 .. 4
         PROVE  x[j] = Nth(w, g, p, s, SentToSuc(p) + j)
    <3>1. 4 \in 0 .. 10 /\ j \in 1 .. 8 /\ 4 + j <= 8
      OBVIOUS
    <3>2. Nth(w, g, p, s, SentToSuc(p) + j) = LevelWords(w, g, p, s, l)[4 + j]
      BY <2>2, <2>3, <3>1, NextToSuc
    <3>3. /\ LevelWords(w, g, p, s, l)[5] = Apart(w, g, l, "x")[p][p]
          /\ LevelWords(w, g, p, s, l)[6] = Apart(w, g, l, "x")[t][p]
          /\ LevelWords(w, g, p, s, l)[7] = Apart(w, g, l, "n")[p][p]
          /\ LevelWords(w, g, p, s, l)[8] = Apart(w, g, l, "n")[t][p]
      BY SucWords
    <3>4. (j = 1 /\ 4 + j = 5) \/ (j = 2 /\ 4 + j = 6) \/ (j = 3 /\ 4 + j = 7) \/ (j = 4 /\ 4 + j = 8)
      OBVIOUS
    <3> HIDE DEF s, t
    <3> QED BY <1>6, <1>o, <2>1, <2>8, <3>2, <3>3, <3>4
  <2>11. ASSUME NEW j \in 1 .. 6
         PROVE  z[j] = Nth(w, g, p, t, SentToPre(p) + j)
    <3>1. 4 \in 0 .. 10 /\ j \in 1 .. 10 /\ 4 + j <= 10
      OBVIOUS
    <3>2. Nth(w, g, p, t, SentToPre(p) + j) = LevelWords(w, g, p, t, l)[4 + j]
      BY <2>2, <2>4, <3>1, NextToPre
    <3>3. /\ LevelWords(w, g, p, t, l)[5] = Apart(w, g, l, "x")[p][p]
          /\ LevelWords(w, g, p, t, l)[6] = Apart(w, g, l, "x")[s][p]
          /\ LevelWords(w, g, p, t, l)[7] = Blocks(w, g, l, "x", p)
          /\ LevelWords(w, g, p, t, l)[8] = Apart(w, g, l, "n")[p][p]
          /\ LevelWords(w, g, p, t, l)[9] = Apart(w, g, l, "n")[s][p]
          /\ LevelWords(w, g, p, t, l)[10] = Blocks(w, g, l, "n", p)
      BY PreWords
    <3>4. \/ (j = 1 /\ 4 + j = 5) \/ (j = 2 /\ 4 + j = 6) \/ (j = 3 /\ 4 + j = 7)
          \/ (j = 4 /\ 4 + j = 8) \/ (j = 5 /\ 4 + j = 9) \/ (j = 6 /\ 4 + j = 10)
      OBVIOUS
    <3> HIDE DEF s, t
    <3> QED BY <1>6, <1>7, <1>o, <2>1, <2>9, <3>2, <3>3, <3>4
  <2>12. /\ x \in Seq(A) /\ z \in Seq(A)
         /\ \A j \in 1 .. Len(x) : x[j] = Nth(w, g, p, Suc(p), SentToSuc(p) + j)
         /\ \A j \in 1 .. Len(z) : z[j] = Nth(w, g, p, Pre(p), SentToPre(p) + j)
    BY <2>8, <2>9, <2>10, <2>11
  <2>13. Send(p, x, z) /\ Goto(p, << "chosen", "x" >>) /\ level' = level
    BY <1>1
  <2> HIDE DEF s, t
  <2> QED BY <1>5, <2>5, <2>6, <2>12, <2>13, StreamsSend
<1>12. Holds(w, g, p, 11, l)'
  <2>a. IcCount' = IcCount
    BY DEF IcCount
  <2>2. Progress(p, 11, l)'
    BY <1>1, <1>4 DEF Progress, Holds
  <2>3. Position(w, g, p, 11, l)'
    BY <1>1, <1>4 DEF Holds, Position
  <2>4. Keyed(w, p, 11)'
    <3>1. (KeysOf(w, p, "x")' <=> KeysOf(w, p, "x")) /\ (KeysOf(w, p, "n")' <=> KeysOf(w, p, "n"))
      BY <1>1 DEF KeysOf
    <3>2. IcsOf(w, p)' <=> IcsOf(w, p)
      BY <1>1, <2>a DEF IcsOf
    <3> QED BY <1>4, <3>1, <3>2 DEF Holds, Keyed
  <2>5. Picking(w, g, p, 11, l)'
    BY <1>1, <1>p DEF Picking
  <2>6. Choosing(w, g, p, 11, l)'
    <3>1. ASSUME NEW o \in Objs
          PROVE  Compared(w, g, p, l, o)'
      BY <1>6, <1>7, <1>8, <1>9 DEF Compared
    <3> QED BY <1>o, <3>1 DEF Choosing
  <2> QED BY <2>2, <2>3, <2>4, <2>5, <2>6 DEF Holds
<1> QED BY <1>1, <1>3, <1>5, <1>10, <1>11, <1>12, WalkedStep

-------------------------------------------------------------------------------
(* Chosen *)

(* The words of one CSOT have come in *)
LEMMA ApartArrives ==
  ASSUME PaceInv, NEW w, NEW g, Walked(w, g), NEW p \in Player, NEW l \in 1 .. Deep, level[p] = l,
         NEW o \in Objs, Place(pc[p]) = (IF o = "x" THEN 11 ELSE 12), Arrived(p, 3, 2)
  PROVE  /\ Arrives(csotDeltas[o][p], p, FromSuc(p, 2), FromPre(p, 2), Apart(w, g, l, o))
         /\ FromSuc(p, 3)[3] = Blocks(w, g, l, o, Suc(p))
         /\ blocks[o][p][p] = Blocks(w, g, l, o, p)
<1> DEFINE s == Suc(p)
           t == Pre(p)
           D == Apart(w, g, l, o)
<1>a. PICK a, b : a = (IF o = "x" THEN 4 ELSE 7) /\ b = (IF o = "x" THEN 4 ELSE 6)
  OBVIOUS
<1>b. (o = "x" /\ a = 4 /\ b = 4) \/ (o = "n" /\ a = 7 /\ b = 6)
  BY <1>a DEF Objs
<1>1. s \in Player /\ t \in Player /\ p = Pre(s) /\ p = Suc(t) /\ Suc(s) = t /\ Pre(t) = s
  BY Ring
<1>2. TookOfSuc(p, l, a)
  BY <1>b, AheadIs DEF TookOfSuc, TakenFromSuc, Once, Deal
<1>3. TookOfPre(p, l, b)
  BY <1>b, AheadIs DEF TookOfPre, TakenFromPre, Once, Deal
<1>4. Streams(w, g) /\ There(p, 3, 2)
  BY DEF Walked, There
<1>5. ASSUME NEW j \in 1 .. 2
      PROVE  FromSuc(p, 2)[j] = LevelWords(w, g, s, p, l)[a + j]
  <2> DEFINE k == a + j
  <2>1. NextWord(2, j, 3, a, k, 10) /\ k = a + j
    BY <1>b DEF NextWord
  <2> HIDE DEF k
  <2>2. FromSuc(p, 2)[j] = LevelWords(w, g, Suc(p), p, l)[k]
    BY <1>2, <1>4, <2>1, CameFromSuc
  <2> QED BY <2>1, <2>2
<1>6. FromSuc(p, 3)[3] = LevelWords(w, g, s, p, l)[a + 3]
  <2> DEFINE k == a + 3
  <2>1. NextWord(3, 3, 3, a, k, 10) /\ k = a + 3
    BY <1>b DEF NextWord
  <2> HIDE DEF k
  <2>2. FromSuc(p, 3)[3] = LevelWords(w, g, Suc(p), p, l)[k]
    BY <1>2, <1>4, <2>1, CameFromSuc
  <2> QED BY <2>1, <2>2
<1>7. ASSUME NEW j \in 1 .. 2
      PROVE  FromPre(p, 2)[j] = LevelWords(w, g, t, p, l)[b + j]
  <2> DEFINE k == b + j
  <2>1. NextWord(2, j, 2, b, k, 8) /\ k = b + j
    BY <1>b DEF NextWord
  <2> HIDE DEF k
  <2>2. FromPre(p, 2)[j] = LevelWords(w, g, Pre(p), p, l)[k]
    BY <1>3, <1>4, <2>1, CameFromPre
  <2> QED BY <2>1, <2>2
<1>8. /\ FromSuc(p, 2)[1] = LevelWords(w, g, s, p, l)[a + 1] /\ FromSuc(p, 2)[2] = LevelWords(w, g, s, p, l)[a + 2]
      /\ FromPre(p, 2)[1] = LevelWords(w, g, t, p, l)[b + 1] /\ FromPre(p, 2)[2] = LevelWords(w, g, t, p, l)[b + 2]
  BY <1>5, <1>7
<1>9. /\ LevelWords(w, g, s, p, l)[a + 1] = D[s][s] /\ LevelWords(w, g, s, p, l)[a + 2] = D[t][s]
      /\ LevelWords(w, g, s, p, l)[a + 3] = Blocks(w, g, l, o, s)
  <2> DEFINE v == LevelWords(w, g, s, p, l)
  <2>1. /\ v[5] = Apart(w, g, l, "x")[s][s] /\ v[6] = Apart(w, g, l, "x")[Suc(s)][s]
        /\ v[7] = Blocks(w, g, l, "x", s)
        /\ v[8] = Apart(w, g, l, "n")[s][s] /\ v[9] = Apart(w, g, l, "n")[Suc(s)][s]
        /\ v[10] = Blocks(w, g, l, "n", s)
    BY <1>1, PreWords
  <2> HIDE DEF v, s, t
  <2>2. v[a + 1] = D[s][s] /\ v[a + 2] = D[t][s] /\ v[a + 3] = Blocks(w, g, l, o, s)
    BY <1>1, <1>b, <2>1
  <2> QED BY <2>2 DEF v
<1>10. LevelWords(w, g, t, p, l)[b + 1] = D[t][t] /\ LevelWords(w, g, t, p, l)[b + 2] = D[s][t]
  <2> DEFINE v == LevelWords(w, g, t, p, l)
  <2>1. /\ v[5] = Apart(w, g, l, "x")[t][t] /\ v[6] = Apart(w, g, l, "x")[Pre(t)][t]
        /\ v[7] = Apart(w, g, l, "n")[t][t] /\ v[8] = Apart(w, g, l, "n")[Pre(t)][t]
    BY <1>1, SucWords
  <2> HIDE DEF v, s, t
  <2>2. v[b + 1] = D[t][t] /\ v[b + 2] = D[s][t]
    BY <1>1, <1>b, <2>1
  <2> QED BY <2>2 DEF v
<1>11. Square(csotDeltas[o][p])
  BY DEF Walked, Shapes
<1>12. (\A i \in Player : csotDeltas[o][p][i][p] = D[i][p]) /\ blocks[o][p][p] = Blocks(w, g, l, o, p)
  <2>1. \E n : n = Place(pc[p]) /\ Holds(w, g, p, n, l)
    BY Now
  <2>2. Compared(w, g, p, l, o)
    BY <1>b, <2>1 DEF Holds, Choosing
  <2> QED BY <2>2 DEF Compared
<1> QED BY <1>6, <1>8, <1>9, <1>10, <1>11, <1>12 DEF Arrives

LEMMA IcOfLevel ==
  ASSUME NEW s, NEW p, NEW q, NEW l \in Nat \ {0}, NEW o \in Objs
  PROVE  IcKeyOf(s, p, q, 2 * (l - 1) + (IF o = "x" THEN 1 ELSE 2))
           = DealtIc(s, CsotName(o, l), p, IF q = Suc(p) THEN "suc" ELSE "pre")
<1>1. CASE o = "x"
  <2> DEFINE k == 2 * (l - 1) + 1
  <2>1. k % 2 = 1 /\ (k + 1) \div 2 = l
    OBVIOUS
  <2> HIDE DEF k
  <2>2. IcKeyOf(s, p, q, k) = DealtIc(s, CsotName("x", l), p, IF q = Suc(p) THEN "suc" ELSE "pre")
    BY <2>1 DEF IcKeyOf
  <2> QED BY <1>1, <2>2 DEF k
<1>2. CASE o = "n"
  <2> DEFINE k == 2 * (l - 1) + 2
  <2>1. k % 2 # 1 /\ (k + 1) \div 2 = l
    OBVIOUS
  <2> HIDE DEF k
  <2>2. IcKeyOf(s, p, q, k) = DealtIc(s, CsotName("n", l), p, IF q = Suc(p) THEN "suc" ELSE "pre")
    BY <2>1 DEF IcKeyOf
  <2> QED BY <1>2, <2>2 DEF k
<1> QED BY <1>1, <1>2 DEF Objs

LEMMA IcsAre ==
  ASSUME NEW w, NEW p \in Player, NEW o \in Objs, NEW l \in 1 .. Deep, l < Deep, IcsOf(w, p),
         NEW k, k = 2 * (l - 1) + (IF o = "x" THEN 1 ELSE 2)
  PROVE  /\ ics[p]["suc"][k] = DealtIc(w.seed, CsotName(o, l), Suc(p), "pre")
         /\ ics[p]["pre"][k] = DealtIc(w.seed, CsotName(o, l), Pre(p), "suc")
<1>1. l \in Nat \ {0} /\ Deep \in Nat
  BY SizesAssumption
<1>2. k \in 1 .. IcCount
  BY <1>1 DEF IcCount
<1>3. /\ ics[p]["suc"][k] = IcKeyOf(w.seed, Suc(p), p, k)
      /\ ics[p]["pre"][k] = IcKeyOf(w.seed, Pre(p), p, k)
  BY <1>2 DEF IcsOf
<1>4. ASSUME NEW q
      PROVE  IcKeyOf(w.seed, q, p, k) = DealtIc(w.seed, CsotName(o, l), q, IF p = Suc(q) THEN "suc" ELSE "pre")
  BY <1>1, IcOfLevel, ZenonT(60)
<1>5. p # Suc(Suc(p)) /\ p = Suc(Pre(p))
  BY Ring
<1> QED BY <1>3, <1>4, <1>5

LEMMA ChosenShare ==
  ASSUME PaceInv, NEW w, NEW g, Walked(w, g), NEW p \in Player, NEW o \in Objs, Chosen(p, o),
         NEW l, l = level[p]
  PROVE  \E e, next :
           /\ l \in 1 .. Deep /\ l < Deep /\ Square(e)
           /\ csotDeltas' = [csotDeltas EXCEPT ![o][p] = e]
           /\ blocks' = [blocks EXCEPT ![o][p][Suc(p)] = next]
           /\ IF o = "x" THEN ki' = [ki EXCEPT ![p] = g[l + 1].ki[p]] /\ idi' = idi
                         ELSE idi' = [idi EXCEPT ![p] = g[l + 1].idi[p]] /\ ki' = ki
<1> DEFINE d == csotDeltas[o][p]
           fs == FromSuc(p, 2)
           fp == FromPre(p, 2)
           e == WithReceived(d, p, fs, fp)
           next == FromSuc(p, 3)[3]
           k == 2 * (l - 1) + (IF o = "x" THEN 1 ELSE 2)
           betaSuc == IcShare(ics[p]["suc"][k], 0, Tao, Delta(e, Suc(p), W))
           betaPre == IcShare(ics[p]["pre"][k], 0, Tao, Delta(e, Pre(p), W))
           share == Choice(blocks[o][p][p], next, betaSuc, betaPre, LenOf(o))
           D == Apart(w, g, l, o)
<1>1. /\ pc[p] = << "chosen", o >> /\ Arrived(p, 3, 2)
      /\ csotDeltas' = [csotDeltas EXCEPT ![o][p] = e]
      /\ blocks' = [blocks EXCEPT ![o][p][Suc(p)] = next]
      /\ IF o = "x" THEN ki' = [ki EXCEPT ![p] = share] /\ idi' = idi
                    ELSE idi' = [idi EXCEPT ![p] = share] /\ ki' = ki
  BY DEF Chosen, At
<1>2. Place(pc[p]) = (IF o = "x" THEN 11 ELSE 12)
  BY <1>1, KeyPlaces
<1>3. \E n : n = (IF o = "x" THEN 11 ELSE 12) /\ Holds(w, g, p, n, l) /\ l \in 1 .. Deep
  BY <1>2, Now
<1>4. l \in 1 .. Deep /\ l < Deep /\ IcsOf(w, p)
  BY <1>3 DEF Holds, Progress, Keyed
<1>5. Arrives(d, p, fs, fp, D) /\ next = Blocks(w, g, l, o, Suc(p)) /\ blocks[o][p][p] = Blocks(w, g, l, o, p)
  BY <1>1, <1>2, <1>4, ApartArrives
<1>6. e = WithReceived(d, p, fs, fp)
  OBVIOUS
<1>7. Square(e) /\ Delta(e, Suc(p), W) = Delta(D, Suc(p), W) /\ Delta(e, Pre(p), W) = Delta(D, Pre(p), W)
  <2> HIDE DEF d, fs, fp, e, D
  <2>1. Square(e) /\ \A len : Delta(e, Suc(p), len) = Delta(D, Suc(p), len) /\ Delta(e, Pre(p), len) = Delta(D, Pre(p), len)
    BY <1>5, <1>6, Completed
  <2> QED BY <2>1
<1>8. /\ ics[p]["suc"][k] = DealtIc(w.seed, CsotName(o, l), Suc(p), "pre")
      /\ ics[p]["pre"][k] = DealtIc(w.seed, CsotName(o, l), Pre(p), "suc")
  BY <1>4, IcsAre
<1> DEFINE a == Feature(w, g[l], l)
           b == Field(w, g[l], l, "t")
<1>9. /\ betaSuc = IcPart(w.seed, o, l, a, b, "pre", Suc(p))
      /\ betaPre = IcPart(w.seed, o, l, a, b, "suc", Pre(p))
  <2>1. D = CsotDeltas(w.seed, o, l, a, b)
    BY DEF Apart
  <2> HIDE DEF e, k, a, b, D
  <2> QED BY <1>7, <1>8, <2>1 DEF IcPart
<1>10. share = Next2(w, g[l], l, o)[p]
  <2> HIDE DEF betaSuc, betaPre, next
  <2> QED BY <1>5, <1>9 DEF Next2, ChosenOf, Blocks
<1>11. share = (IF o = "x" THEN g[l + 1].ki[p] ELSE g[l + 1].idi[p])
  <2>1. g[l + 1] = Onward(w, g[l], l)
    BY <1>4 DEF Walked, IsWalk
  <2>2. g[l + 1].ki = Next2(w, g[l], l, "x") /\ g[l + 1].idi = Next2(w, g[l], l, "n")
    BY <2>1 DEF Onward
  <2> HIDE DEF share
  <2> QED BY <1>10, <2>2 DEF Objs
<1> HIDE DEF share, e, next, d, fs, fp
<1>12. IF o = "x" THEN ki' = [ki EXCEPT ![p] = g[l + 1].ki[p]] /\ idi' = idi
                  ELSE idi' = [idi EXCEPT ![p] = g[l + 1].idi[p]] /\ ki' = ki
  BY <1>1, <1>11
<1> QED BY <1>1, <1>4, <1>7, <1>12 DEF d

(* What of the tables stays when p has chosen *)
LEMMA ChosenTables ==
  ASSUME Shapes, NEW p \in Player, NEW o \in Objs, NEW e, Square(e), NEW next,
         csotDeltas' = [csotDeltas EXCEPT ![o][p] = e], blocks' = [blocks EXCEPT ![o][p][Suc(p)] = next],
         sotDeltas' = sotDeltas
  PROVE  /\ OnlyAt(csotDeltas, csotDeltas', p) /\ OnlyAt(blocks, blocks', p) /\ SquaresOf(p)'
         /\ \A u \in Objs : /\ u # o => csotDeltas'[u][p] = csotDeltas[u][p]
                            /\ blocks'[u][p][p] = blocks[u][p][p]
<1>1. OnlyAt(csotDeltas, csotDeltas', p) /\ \A u \in Objs : csotDeltas'[u][p] = IF u = o THEN e ELSE csotDeltas[u][p]
  <2> DEFINE f == csotDeltas
             h == csotDeltas'
  <2>1. Table(f) /\ h = [f EXCEPT ![o][p] = e]
    BY DEF Shapes
  <2> HIDE DEF f, h
  <2>2. OnlyAt(f, h, p) /\ \A u \in Objs : h[u][p] = IF u = o THEN e ELSE f[u][p]
    BY <2>1 DEF Table, OnlyAt
  <2> QED BY <2>2 DEF f, h
<1>2. /\ OnlyAt(blocks, blocks', p)
      /\ \A u \in Objs : DOMAIN blocks'[u][p] = Player /\ blocks'[u][p][p] = blocks[u][p][p]
  <2> DEFINE f == blocks
             h == blocks'
             s == Suc(p)
  <2>1. Table(f) /\ h = [f EXCEPT ![o][p][s] = next] /\ (\A u \in Objs : DOMAIN f[u][p] = Player) /\ s # p
    BY Ring DEF Shapes
  <2> HIDE DEF f, h, s
  <2>2. /\ OnlyAt(f, h, p)
        /\ \A u \in Objs : DOMAIN h[u][p] = Player /\ h[u][p][p] = f[u][p][p]
    BY <2>1 DEF Table, OnlyAt
  <2> QED BY <2>2 DEF f, h
<1>3. SquaresOf(p)'
  BY <1>1, <1>2 DEF SquaresOf, Shapes
<1> QED BY <1>1, <1>2, <1>3

LEMMA ChosenXWalks ==
  ASSUME PaceInv, NEW w, NEW g, Walked(w, g), NEW p \in Player, Chosen(p, "x")
  PROVE  Walked(w, g)'
<1>a. PICK l : l = level[p]
  OBVIOUS
<1>1. /\ pc[p] = << "chosen", "x" >> /\ Arrived(p, 3, 2) /\ Receive(p, 3, 2)
      /\ Goto(p, << "chosen", "n" >>) /\ level' = level
      /\ seed' = seed /\ tree' = tree /\ data' = data
      /\ shares' = shares /\ sks' = sks /\ gks' = gks /\ ics' = ics
      /\ sotDeltas' = sotDeltas /\ y' = y /\ x_pick' = x_pick /\ n_pick' = n_pick
  BY DEF Chosen, At
<1>o. "x" \in Objs /\ "n" \in Objs
  BY DEF Objs
<1>2. PICK e, next :
        /\ l \in 1 .. Deep /\ l < Deep /\ Square(e)
        /\ csotDeltas' = [csotDeltas EXCEPT !["x"][p] = e]
        /\ blocks' = [blocks EXCEPT !["x"][p][Suc(p)] = next]
        /\ ki' = [ki EXCEPT ![p] = g[l + 1].ki[p]] /\ idi' = idi
  <2>1. \E e, next :
          /\ l \in 1 .. Deep /\ l < Deep /\ Square(e)
          /\ csotDeltas' = [csotDeltas EXCEPT !["x"][p] = e]
          /\ blocks' = [blocks EXCEPT !["x"][p][Suc(p)] = next]
          /\ IF "x" = "x" THEN ki' = [ki EXCEPT ![p] = g[l + 1].ki[p]] /\ idi' = idi
                          ELSE idi' = [idi EXCEPT ![p] = g[l + 1].idi[p]] /\ ki' = ki
    BY <1>a, <1>o, ChosenShare
  <2> QED BY <2>1
<1>3. Place(pc[p]) = 11 /\ pc'[p] = << "chosen", "n" >> /\ Place(pc'[p]) = 12 /\ level'[p] = l
  BY <1>1, <1>a, Stayed, Places DEF PaceInv
<1>4. Holds(w, g, p, 11, l)
  BY <1>3, <1>a, Now
<1>5. Shapes /\ Streams(w, g) /\ DOMAIN ki = Player
  BY DEF Walked, Shapes
<1>6. /\ OnlyAt(csotDeltas, csotDeltas', p) /\ OnlyAt(blocks, blocks', p) /\ SquaresOf(p)'
      /\ csotDeltas'["n"][p] = csotDeltas["n"][p] /\ blocks'["n"][p][p] = blocks["n"][p][p]
      /\ blocks'["x"][p][p] = blocks["x"][p][p]
  BY <1>1, <1>2, <1>5, <1>o, ChosenTables
<1>7. OnlyOf(ki, ki', p) /\ ki'[p] = g[l + 1].ki[p]
  BY <1>2, <1>5 DEF OnlyOf
<1>8. Shapes' /\ \A q \in Player \ {p} : Unmoved(q)
  BY <1>1, <1>2, <1>5, <1>6, <1>7, Same2, StepObjects
<1>9. Streams(w, g)'
  <2>1. level[p] \in Nat /\ level'[p] = level[p] /\ Deep \in Nat /\ IcCount \in Nat /\ IcCount' = IcCount
    BY <1>2, <1>3, <1>a, AheadIs DEF IcCount
  <2>2. TakenFromSuc(p)' = TakenFromSuc(p) + 3
    BY <1>3, <2>1 DEF TakenFromSuc, Once, Deal
  <2>3. TakenFromPre(p)' = TakenFromPre(p) + 2
    BY <1>3, <2>1 DEF TakenFromPre, Once, Deal
  <2>4. 2 \in Nat /\ 3 \in Nat /\ \A q \in Player \ {p} : level'[q] = level[q]
    BY <1>1
  <2> QED BY <1>1, <1>5, <2>2, <2>3, <2>4, StreamsReceive
<1>10. Holds(w, g, p, 12, l)'
  <2>a. IcCount' = IcCount
    BY DEF IcCount
  <2>2. Progress(p, 12, l)'
    BY <1>2 DEF Progress
  <2>3. Position(w, g, p, 12, l)'
    BY <1>1, <1>2, <1>4, <1>7 DEF Holds, Position
  <2>4. Keyed(w, p, 12)'
    <3>1. (KeysOf(w, p, "x")' <=> KeysOf(w, p, "x")) /\ (KeysOf(w, p, "n")' <=> KeysOf(w, p, "n"))
      BY <1>1 DEF KeysOf
    <3>2. IcsOf(w, p)' <=> IcsOf(w, p)
      BY <1>1, <2>a DEF IcsOf
    <3> QED BY <1>4, <3>1, <3>2 DEF Holds, Keyed
  <2>5. Picking(w, g, p, 12, l)'
    <3>1. x_pick[p] = PickedX(w, g[l], l)[p].x /\ n_pick[p] = PickedN(w, g[l], l)[p]
      BY <1>4 DEF Holds, Picking
    <3> QED BY <1>1, <3>1 DEF Picking
  <2>6. Choosing(w, g, p, 12, l)'
    <3>1. Compared(w, g, p, l, "n")
      BY <1>4 DEF Holds, Choosing
    <3>2. Compared(w, g, p, l, "n")'
      BY <1>6, <3>1 DEF Compared
    <3>3. blocks["x"][p][p] = Blocks(w, g, l, "x", p)
      BY <1>4 DEF Holds, Choosing, Compared
    <3> QED BY <1>6, <3>2, <3>3 DEF Choosing
  <2> QED BY <2>2, <2>3, <2>4, <2>5, <2>6 DEF Holds
<1> QED BY <1>1, <1>3, <1>8, <1>9, <1>10, WalkedStep

LEMMA ChosenNWalks ==
  ASSUME PaceInv, NEW w, NEW g, Walked(w, g), NEW p \in Player, Chosen(p, "n")
  PROVE  Walked(w, g)'
<1>a. PICK l : l = level[p]
  OBVIOUS
<1>1. /\ pc[p] = << "chosen", "n" >> /\ Arrived(p, 3, 2) /\ Receive(p, 3, 2)
      /\ Goto(p, << "ask" >>) /\ level' = [level EXCEPT ![p] = level[p] + 1]
      /\ seed' = seed /\ tree' = tree /\ data' = data
      /\ shares' = shares /\ sks' = sks /\ gks' = gks /\ ics' = ics
      /\ sotDeltas' = sotDeltas /\ y' = y /\ x_pick' = x_pick /\ n_pick' = n_pick
  BY DEF Chosen, At
<1>o. "x" \in Objs /\ "n" \in Objs
  BY DEF Objs
<1>2. PICK e, next :
        /\ l \in 1 .. Deep /\ l < Deep /\ Square(e)
        /\ csotDeltas' = [csotDeltas EXCEPT !["n"][p] = e]
        /\ blocks' = [blocks EXCEPT !["n"][p][Suc(p)] = next]
        /\ idi' = [idi EXCEPT ![p] = g[l + 1].idi[p]] /\ ki' = ki
  <2>1. \E e, next :
          /\ l \in 1 .. Deep /\ l < Deep /\ Square(e)
          /\ csotDeltas' = [csotDeltas EXCEPT !["n"][p] = e]
          /\ blocks' = [blocks EXCEPT !["n"][p][Suc(p)] = next]
          /\ IF "n" = "x" THEN ki' = [ki EXCEPT ![p] = g[l + 1].ki[p]] /\ idi' = idi
                          ELSE idi' = [idi EXCEPT ![p] = g[l + 1].idi[p]] /\ ki' = ki
    BY <1>a, <1>o, ChosenShare
  <2> QED BY <2>1
<1>3. Place(pc[p]) = 12 /\ pc'[p] = << "ask" >> /\ Place(pc'[p]) = 7 /\ level'[p] = l + 1
  BY <1>1, <1>a, Moved, Places DEF PaceInv
<1>4. Holds(w, g, p, 12, l)
  BY <1>3, <1>a, Now
<1>5. Shapes /\ Streams(w, g) /\ DOMAIN idi = Player
  BY DEF Walked, Shapes
<1>6. /\ OnlyAt(csotDeltas, csotDeltas', p) /\ OnlyAt(blocks, blocks', p) /\ SquaresOf(p)'
      /\ \A o \in Objs : blocks'[o][p][p] = blocks[o][p][p]
  BY <1>1, <1>2, <1>5, <1>o, ChosenTables
<1>7. OnlyOf(idi, idi', p) /\ idi'[p] = g[l + 1].idi[p]
  BY <1>2, <1>5 DEF OnlyOf
<1>b. \A q \in Player \ {p} : level'[q] = level[q]
  BY <1>1 DEF PaceInv, PaceOK
<1>8. Shapes' /\ \A q \in Player \ {p} : Unmoved(q)
  BY <1>1, <1>2, <1>5, <1>6, <1>7, <1>b, Same2, StepObjects
<1>9. Streams(w, g)'
  <2>1. /\ l \in Nat /\ level[p] = l /\ Deep \in Nat /\ IcCount \in Nat /\ IcCount' = IcCount
        /\ 8 * (level'[p] - 1) = 8 * (l - 1) + 8 /\ 10 * (level'[p] - 1) = 10 * (l - 1) + 10
    BY <1>2, <1>3, <1>a, AheadIs DEF IcCount
  <2>2. TakenFromSuc(p)' = TakenFromSuc(p) + 3
    BY <1>3, <2>1 DEF TakenFromSuc, Once, Deal
  <2>3. TakenFromPre(p)' = TakenFromPre(p) + 2
    BY <1>3, <2>1 DEF TakenFromPre, Once, Deal
  <2>4. 2 \in Nat /\ 3 \in Nat
    OBVIOUS
  <2> QED BY <1>1, <1>5, <1>b, <2>2, <2>3, <2>4, StreamsReceive
<1>10. Holds(w, g, p, 7, l + 1)'
  <2>a. IcCount' = IcCount /\ l + 1 \in 1 .. Deep
    BY <1>2, SizesAssumption DEF IcCount
  <2>1. pc'[p] # << "choose" >>
    <3>1. << "ask" >> # << "choose" >>
      OBVIOUS
    <3> QED BY <1>3, <3>1
  <2>2. Progress(p, 7, l + 1)'
    BY <2>a, <2>1 DEF Progress
  <2>3. Position(w, g, p, 7, l + 1)'
    BY <1>1, <1>2, <1>4, <1>7 DEF Holds, Position
  <2>4. Keyed(w, p, 7)'
    <3>1. (KeysOf(w, p, "x")' <=> KeysOf(w, p, "x")) /\ (KeysOf(w, p, "n")' <=> KeysOf(w, p, "n"))
      BY <1>1 DEF KeysOf
    <3>2. IcsOf(w, p)' <=> IcsOf(w, p)
      BY <1>1, <2>a DEF IcsOf
    <3> QED BY <1>4, <3>1, <3>2 DEF Holds, Keyed
  <2>5. Picking(w, g, p, 7, l + 1)'
    BY DEF Picking
  <2>6. Choosing(w, g, p, 7, l + 1)'
    <3>1. (l + 1) - 1 = l
      BY <1>2
    <3>2. x_pick[p] = PickedX(w, g[l], l)[p].x /\ n_pick[p] = PickedN(w, g[l], l)[p]
      BY <1>4 DEF Holds, Picking
    <3>3. blocks["x"][p][p] = Blocks(w, g, l, "x", p) /\ blocks["n"][p][p] = Blocks(w, g, l, "n", p)
      BY <1>4 DEF Holds, Choosing, Compared
    <3>4. Settled(w, g, p, l)'
      BY <1>1, <1>6, <3>2, <3>3 DEF Settled, Objs
    <3> QED BY <3>1, <3>4 DEF Choosing
  <2> QED BY <2>2, <2>3, <2>4, <2>5, <2>6 DEF Holds
<1> QED BY <1>1, <1>3, <1>5, <1>8, <1>9, <1>10, WalkedStep

-------------------------------------------------------------------------------
(* The deposit *)

LEMMA StepDeposit ==
  ASSUME PaceInv, NEW p \in Player, NEW step, Goto(p, step), level' = level, Shapes,
         sks' = sks, gks' = gks, ics' = ics, sotDeltas' = sotDeltas,
         csotDeltas' = csotDeltas, blocks' = blocks, y' = y, x_pick' = x_pick, n_pick' = n_pick,
         OnlyOf(shares, shares', p), OnlyOf(ki, ki', p), OnlyOf(idi, idi', p)
  PROVE  Shapes' /\ \A q \in Player \ {p} : Unmoved(q)
<1>1. \A q \in Player \ {p} : pc'[q] = pc[q]
  BY DEF Goto, PaceInv, PaceOK
<1>2. Shapes'
  BY DEF Shapes, Table, Square, OnlyOf
<1> QED BY <1>1, <1>2 DEF Unmoved, OnlyOf

(* What p is to hold of the deposit *)
Kept(w, p) ==
  /\ shares'[p] = << w.n[Suc(p)], w.n[Pre(p)] >>
  /\ ki'[p] = w.start.ki[p] /\ idi'[p] = w.start.idi[p]

LEMMA WorldHas ==
  ASSUME NEW w, w = World, NEW p \in Player
  PROVE  /\ w.n[p] = NodeList(p)
         /\ w.start.ki[p] = StartShare(Feats, tree.start, p) /\ w.start.idi[p] = StartShare(Nodes, 0, p)
         /\ w.start.y[p] = 0
         /\ w.toSuc = << PadOf(0), PadOf(1), StartPad(0, Nodes), StartPad(0, Feats) >>
         /\ w.toPre = << PadOf(1), Rest, StartPad(1, Nodes), StartPad(1, Feats) >>
BY DEF World

LEMMA OwnerKeeps ==
  ASSUME NEW w, w = World, NEW p \in Player, p = Owner
  PROVE  /\ << Rest, PadOf(0) >> = << w.n[Suc(p)], w.n[Pre(p)] >>
         /\ StartOf(Nodes, 0) = w.start.idi[p] /\ StartOf(Feats, tree.start) = w.start.ki[p]
<1>1. Suc(p) \in Player /\ Pre(p) \in Player /\ Pre(p) # Suc(p) /\ Pre(p) # p
  BY Ring
<1>2. w.n[Suc(p)] = Rest /\ w.n[Pre(p)] = PadOf(0)
  BY <1>1, WorldHas DEF NodeList
<1> QED BY <1>2, WorldHas DEF StartShare

LEMMA OthersKeep ==
  ASSUME NEW w, w = World, NEW p \in Player, p # Owner, NEW m, m = Deposited(w, p, Owner)
  PROVE  m[1] = w.n[Suc(p)] /\ m[2] = w.n[Pre(p)] /\ m[3] = w.start.idi[p] /\ m[4] = w.start.ki[p]
<1>1. /\ Suc(p) \in Player /\ Pre(p) \in Player
      /\ w.n[Suc(p)] = NodeList(Suc(p)) /\ w.n[Pre(p)] = NodeList(Pre(p))
  BY Ring, WorldHas
<1>2. CASE p = Suc(Owner)
  <2>1. Pre(p) = Owner /\ Suc(p) # Suc(Owner) /\ Suc(p) # Owner /\ Owner # Suc(Owner)
    BY <1>2, OwnerAssumption, Ring
  <2>2. NodeList(Suc(p)) = PadOf(0) /\ NodeList(Pre(p)) = PadOf(1)
    BY <2>1 DEF NodeList
  <2>3. m = << PadOf(0), PadOf(1), StartPad(0, Nodes), StartPad(0, Feats) >>
    BY <1>2, WorldHas DEF Deposited
  <2>4. w.start.ki[p] = StartPad(0, Feats) /\ w.start.idi[p] = StartPad(0, Nodes)
    BY <1>2, WorldHas DEF StartShare
  <2> QED BY <1>1, <2>2, <2>3, <2>4
<1>3. CASE p # Suc(Owner)
  <2>1. Suc(p) = Owner /\ Pre(p) = Suc(Owner) /\ Owner # Suc(Owner)
    BY <1>3, OwnerAssumption, Ring
  <2>2. NodeList(Suc(p)) = PadOf(1) /\ NodeList(Pre(p)) = Rest
    BY <2>1 DEF NodeList
  <2>3. m = << PadOf(1), Rest, StartPad(1, Nodes), StartPad(1, Feats) >>
    BY <1>3, WorldHas DEF Deposited
  <2>4. w.start.ki[p] = StartPad(1, Feats) /\ w.start.idi[p] = StartPad(1, Nodes)
    BY <1>3, WorldHas DEF StartShare
  <2> QED BY <1>1, <2>2, <2>3, <2>4
<1> QED BY <1>2, <1>3

(* When p has what it is to hold *)
LEMMA KeptHolds ==
  ASSUME PaceInv, NEW w, NEW g, Walked(w, g), NEW p \in Player, Kept(w, p),
         pc[p] = << "deposit" >>, Goto(p, << "keys", "x" >>), level' = level, y' = y
  PROVE  /\ pc'[p] = << "keys", "x" >> /\ Place(pc[p]) = 0 /\ Place(pc'[p]) = 1
         /\ level[p] = 1 /\ level'[p] = 1 /\ Holds(w, g, p, 1, 1)'
<1>1. pc'[p] = << "keys", "x" >> /\ level'[p] = level[p]
  BY Stayed DEF PaceInv
<1>2. Place(pc[p]) = 0 /\ Place(pc'[p]) = 1
  BY <1>1, Places
<1>3. Holds(w, g, p, 0, level[p])
  BY <1>2, Now
<1>4. level[p] = 1 /\ 1 \in 1 .. Deep
  BY <1>3 DEF Holds, Progress
<1>5. Progress(p, 1, 1)'
  <2>1. << "keys", "x" >> # << "choose" >>
    OBVIOUS
  <2> QED BY <1>1, <1>4, <2>1 DEF Progress
<1>6. Position(w, g, p, 1, 1)'
  <2>1. g[1] = w.start
    BY DEF Walked, IsWalk
  <2>2. y[p] = g[1].y[p]
    BY <1>3, <1>4 DEF Holds, Position
  <2> QED BY <2>1, <2>2 DEF Position, Kept
<1>7. Keyed(w, p, 1)' /\ Picking(w, g, p, 1, 1)' /\ Choosing(w, g, p, 1, 1)'
  BY DEF Keyed, Picking, Choosing
<1> QED BY <1>1, <1>2, <1>4, <1>5, <1>6, <1>7 DEF Holds

LEMMA DespoitWalks ==
  ASSUME PaceInv, NEW w, NEW g, Walked(w, g), NEW p \in Player, Despoit(p)
  PROVE  Walked(w, g)'
<1> DEFINE x == << PadOf(0), PadOf(1), StartPad(0, Nodes), StartPad(0, Feats) >>
           z == << PadOf(1), Rest, StartPad(1, Nodes), StartPad(1, Feats) >>
<1>1. /\ pc[p] = << "deposit" >> /\ p = Owner /\ Send(p, x, z)
      /\ Goto(p, << "keys", "x" >>) /\ level' = level
      /\ seed' = seed /\ tree' = tree /\ data' = data
      /\ sks' = sks /\ gks' = gks /\ ics' = ics /\ sotDeltas' = sotDeltas
      /\ csotDeltas' = csotDeltas /\ blocks' = blocks /\ y' = y
      /\ x_pick' = x_pick /\ n_pick' = n_pick
  BY DEF Despoit, At
<1>2. /\ shares' = [shares EXCEPT ![p] = << Rest, PadOf(0) >>]
      /\ idi' = [idi EXCEPT ![p] = StartOf(Nodes, 0)]
      /\ ki' = [ki EXCEPT ![p] = StartOf(Feats, tree.start)]
  BY DEF Despoit
<1>3. DOMAIN shares = Player /\ DOMAIN idi = Player /\ DOMAIN ki = Player
  BY DEF Walked, Shapes
<1>4. OnlyOf(shares, shares', p) /\ OnlyOf(ki, ki', p) /\ OnlyOf(idi, idi', p)
  BY <1>2, <1>3 DEF OnlyOf
<1>5. Kept(w, p)
  <2>1. shares'[p] = << Rest, PadOf(0) >> /\ idi'[p] = StartOf(Nodes, 0) /\ ki'[p] = StartOf(Feats, tree.start)
    BY <1>2, <1>3
  <2> QED BY <1>1, <2>1, OwnerKeeps DEF Kept, Walked
<1>6. w.toSuc = x /\ w.toPre = z
  BY WorldHas DEF Walked
<1>7. \E A : x \in Seq(A) /\ z \in Seq(A)
  <2> DEFINE A == {x[1], x[2], x[3], x[4], z[1], z[2], z[3], z[4]}
  <2>1. x \in Seq(A) /\ z \in Seq(A)
    OBVIOUS
  <2> QED BY <2>1
<1>8. Len(x) = 4 /\ Len(z) = 4
  OBVIOUS
<1> HIDE DEF x, z
<1>9. /\ pc'[p] = << "keys", "x" >> /\ Place(pc[p]) = 0 /\ Place(pc'[p]) = 1
      /\ level[p] = 1 /\ level'[p] = 1 /\ Holds(w, g, p, 1, 1)'
  BY <1>1, <1>5, KeptHolds
<1>10. Shapes' /\ \A q \in Player \ {p} : Unmoved(q)
  BY <1>1, <1>4, StepDeposit DEF Walked
<1>11. /\ SentToSuc(p) = 0 /\ SentToPre(p) = 0
       /\ TakenFromSuc(p)' = TakenFromSuc(p) /\ TakenFromPre(p)' = TakenFromPre(p)
  <2>1. Deep \in Int /\ IcCount \in Int /\ IcCount' = IcCount
    BY SizesAssumption DEF IcCount
  <2>2. Pre(p) # Owner /\ Suc(p) # Owner
    BY <1>1, Ring
  <2> QED BY <1>9, <2>1, <2>2 DEF SentToSuc, SentToPre, TakenFromSuc, TakenFromPre, Once, Deal
<1>12. ASSUME NEW j \in 1 .. 4
       PROVE  /\ x[j] = Nth(w, g, p, Suc(p), SentToSuc(p) + j)
              /\ z[j] = Nth(w, g, p, Pre(p), SentToPre(p) + j)
  <2>1. Suc(p) \in Player /\ Pre(p) \in Player /\ Pre(p) # Suc(p)
    BY Ring
  <2>2. Nth(w, g, Owner, Suc(p), j) = w.toSuc[j] /\ Nth(w, g, Owner, Pre(p), j) = w.toPre[j]
    BY <1>1, <2>1, NthDeal DEF Deposited
  <2>3. SentToSuc(p) + j = j /\ SentToPre(p) + j = j
    BY <1>11
  <2> QED BY <1>1, <1>6, <2>2, <2>3
<1>13. Streams(w, g)'
  <2>1. PICK A : x \in Seq(A) /\ z \in Seq(A)
    BY <1>7
  <2>2. Streams(w, g)
    BY DEF Walked
  <2>3. /\ Send(p, x, z) /\ Goto(p, << "keys", "x" >>) /\ level' = level
        /\ TakenFromSuc(p)' = TakenFromSuc(p) /\ TakenFromPre(p)' = TakenFromPre(p)
    BY <1>1, <1>11
  <2>4. /\ \A j \in 1 .. Len(x) : x[j] = Nth(w, g, p, Suc(p), SentToSuc(p) + j)
        /\ \A j \in 1 .. Len(z) : z[j] = Nth(w, g, p, Pre(p), SentToPre(p) + j)
    BY <1>8, <1>12
  <2> QED BY <2>1, <2>2, <2>3, <2>4, StreamsSend
<1> QED BY <1>1, <1>9, <1>10, <1>13, WalkedStep

LEMMA TakeDespoitWalks ==
  ASSUME PaceInv, NEW w, NEW g, Walked(w, g), NEW p \in Player, TakeDespoit(p)
  PROVE  Walked(w, g)'
<1> DEFINE c == chan[Owner][p]
<1>1. /\ pc[p] = << "deposit" >> /\ p # Owner /\ Len(c) >= 4
      /\ Goto(p, << "keys", "x" >>) /\ level' = level
      /\ seed' = seed /\ tree' = tree /\ data' = data
      /\ sks' = sks /\ gks' = gks /\ ics' = ics /\ sotDeltas' = sotDeltas
      /\ csotDeltas' = csotDeltas /\ blocks' = blocks /\ y' = y
      /\ x_pick' = x_pick /\ n_pick' = n_pick
  BY DEF TakeDespoit, At
<1>2. /\ shares' = [shares EXCEPT ![p] = << c[1], c[2] >>]
      /\ idi' = [idi EXCEPT ![p] = c[3]]
      /\ ki' = [ki EXCEPT ![p] = c[4]]
  BY DEF TakeDespoit
<1>3. DOMAIN shares = Player /\ DOMAIN idi = Player /\ DOMAIN ki = Player
  BY DEF Walked, Shapes
<1>4. OnlyOf(shares, shares', p) /\ OnlyOf(ki, ki', p) /\ OnlyOf(idi, idi', p)
  BY <1>2, <1>3 DEF OnlyOf
<1>5. PICK m, n : m = Deal(Suc(p)) /\ n = Deal(Pre(p))
  OBVIOUS
<1>6. m \in Nat /\ n \in Nat /\ Arrived(p, m, n) /\ Receive(p, m, n)
  BY <1>5, DepositCame
<1>7. /\ Place(pc[p]) = 0 /\ level[p] = 1
  <2>1. Place(pc[p]) = 0
    BY <1>1, Places
  <2> QED BY <2>1, Now DEF Holds, Progress
<1>8. Deep \in Int /\ IcCount \in Int /\ IcCount' = IcCount
  BY SizesAssumption DEF IcCount
<1>9. TakenFromSuc(p) = 0 /\ TakenFromPre(p) = 0
  BY <1>7, <1>8 DEF TakenFromSuc, TakenFromPre, Once, Deal
<1>10. ASSUME NEW j \in 1 .. 4
       PROVE  c[j] = Deposited(w, p, Owner)[j]
  <2>1. Taken(Owner, p) = 0
    BY <1>9 DEF Taken
  <2>2. j \in 1 .. Waiting(Owner, p)
    <3>1. Waiting(Owner, p) \in Nat
      BY <1>1, OwnerAssumption, Waits
    <3>2. Waiting(Owner, p) >= 4
      BY <1>1 DEF Waiting
    <3> QED BY <3>1, <3>2
  <2>3. c[j] = Nth(w, g, Owner, p, Taken(Owner, p) + j)
    BY <1>1, <2>2, OwnerAssumption DEF Walked, Streams
  <2>4. Taken(Owner, p) + j = j
    BY <2>1
  <2> QED BY <2>3, <2>4, NthDeal
<1>11. Kept(w, p)
  <2> HIDE DEF c
  <2>1. shares'[p] = << c[1], c[2] >> /\ idi'[p] = c[3] /\ ki'[p] = c[4]
    BY <1>2, <1>3
  <2>2. PICK v : v = Deposited(w, p, Owner)
    OBVIOUS
  <2>3. v[1] = w.n[Suc(p)] /\ v[2] = w.n[Pre(p)] /\ v[3] = w.start.idi[p] /\ v[4] = w.start.ki[p]
    BY <1>1, <2>2, OthersKeep DEF Walked
  <2>4. c[1] = v[1] /\ c[2] = v[2] /\ c[3] = v[3] /\ c[4] = v[4]
    BY <1>10, <2>2
  <2> QED BY <2>1, <2>3, <2>4 DEF Kept
<1> HIDE DEF c
<1>12. /\ pc'[p] = << "keys", "x" >> /\ Place(pc'[p]) = 1
       /\ level'[p] = 1 /\ Holds(w, g, p, 1, 1)'
  BY <1>1, <1>11, KeptHolds
<1>13. Shapes' /\ \A q \in Player \ {p} : Unmoved(q)
  BY <1>1, <1>4, StepDeposit DEF Walked
<1>14. TakenFromSuc(p)' = m /\ TakenFromPre(p)' = n
  <2>1. m = (IF Suc(p) = Owner THEN 4 ELSE 0) /\ n = (IF Pre(p) = Owner THEN 4 ELSE 0)
    BY <1>5 DEF Deal
  <2> QED BY <1>8, <1>12, <2>1 DEF TakenFromSuc, TakenFromPre, Once, Deal
<1>15. Streams(w, g)'
  <2>1. TakenFromSuc(p)' = TakenFromSuc(p) + m /\ TakenFromPre(p)' = TakenFromPre(p) + n
    BY <1>6, <1>9, <1>14
  <2>2. Streams(w, g)
    BY DEF Walked
  <2> QED BY <1>1, <1>6, <2>1, <2>2, StreamsReceive
<1> QED BY <1>1, <1>12, <1>13, <1>15, WalkedStep

-------------------------------------------------------------------------------
(* The walk *)

LEMMA WalkSame ==
  ASSUME NEW w, NEW g, Walked(w, g), UNCHANGED vars
  PROVE  Walked(w, g)'
<1>1. /\ seed' = seed /\ tree' = tree /\ data' = data /\ pc' = pc /\ level' = level /\ chan' = chan
      /\ shares' = shares /\ sks' = sks /\ gks' = gks /\ ics' = ics
      /\ sotDeltas' = sotDeltas /\ csotDeltas' = csotDeltas /\ blocks' = blocks
      /\ ki' = ki /\ idi' = idi /\ y' = y /\ x_pick' = x_pick /\ n_pick' = n_pick
  BY DEF vars
<1>2. w = World' /\ IsWalk(w, g)
  BY <1>1, WorldSame DEF Walked
<1>3. Shapes'
  BY <1>1 DEF Walked, Shapes, Table, Square
<1>4. Streams(w, g)'
  <2>1. \A p, q \in Player : Waiting(p, q)' = Waiting(p, q) /\ Taken(p, q)' = Taken(p, q)
    BY <1>1 DEF Waiting, Taken, TakenFromSuc, TakenFromPre, Once, Deal
  <2> QED BY <1>1, <2>1 DEF Walked, Streams
<1>5. ASSUME NEW p \in Player
      PROVE  HoldsNow(w, g, p)'
  <2>1. PICK n, l : n = Place(pc[p]) /\ l = level[p] /\ Holds(w, g, p, n, l)
    BY DEF Walked, HoldsNow
  <2>2. Unmoved(p)
    BY <1>1 DEF Unmoved
  <2>3. Holds(w, g, p, n, l)'
    BY <2>1, <2>2, UnmovedHolds
  <2>4. n = Place(pc'[p]) /\ l = level'[p]
    BY <1>1, <2>1
  <2> QED BY <2>3, <2>4 DEF HoldsNow
<1> QED BY <1>2, <1>3, <1>4, <1>5 DEF Walked

LEMMA WalkNext ==
  ASSUME PaceInv, NEW w, NEW g, Walked(w, g), NEW p \in Player, Evaluate(p)
  PROVE  Walked(w, g)'
<1>1. CASE Despoit(p)
  BY <1>1, DespoitWalks
<1>2. CASE TakeDespoit(p)
  BY <1>2, TakeDespoitWalks
<1>3. ASSUME NEW o \in {"x", "n"}, SendKeys(p, o)
      PROVE  Walked(w, g)'
  BY <1>3, SendKeysWalks DEF Objs
<1>4. ASSUME NEW o \in {"x", "n"}, TakeKeys(p, o)
      PROVE  Walked(w, g)'
  BY <1>4, TakeKeysWalks DEF Objs
<1>5. ASSUME NEW o \in {"x", "n"}, Chosen(p, o)
      PROVE  Walked(w, g)'
  <2>1. CASE o = "x"
    BY <1>5, <2>1, ChosenXWalks
  <2>2. CASE o = "n"
    BY <1>5, <2>2, ChosenNWalks
  <2> QED BY <2>1, <2>2
<1>6. CASE SendIc(p)
  BY <1>6, SendIcWalks
<1>7. CASE TakeIc(p)
  BY <1>7, TakeIcWalks
<1>8. CASE Ask(p)
  BY <1>8, AskWalks
<1>9. CASE PickX(p)
  BY <1>9, PickXWalks
<1>10. CASE PickN(p)
  BY <1>10, PickNWalks
<1>11. CASE Choose(p)
  BY <1>11, ChooseWalks
<1> QED BY <1>1, <1>2, <1>3, <1>4, <1>5, <1>6, <1>7, <1>8, <1>9, <1>10, <1>11 DEF Evaluate

(* Whoever is fast and whoever slow: what every player holds at every place *)
(* of its program, and every word under way, is what the walk that all      *)
(* three make together determines from what was drawn.  No key, word or     *)
(* block is ever taken for another, though none carries a name.             *)
THEOREM WalkInductive == Spec => []WalkInv
<1>1. Init => WalkInv
  BY WalkInit
<1>2. WalkInv /\ PaceInv' /\ [Next]_vars => WalkInv'
  <2> SUFFICES ASSUME WalkInv, PaceInv', [Next]_vars
               PROVE  WalkInv'
    OBVIOUS
  <2>1. PICK w, g : Walked(w, g)
    BY DEF WalkInv
  <2>2. PaceInv /\ Given
    BY DEF WalkInv
  <2>3. ASSUME NEW p \in Player, Evaluate(p)
        PROVE  Walked(w, g)'
    BY <2>1, <2>2, <2>3, WalkNext
  <2>4. ASSUME UNCHANGED vars
        PROVE  Walked(w, g)'
    BY <2>1, <2>4, WalkSame
  <2>5. Walked(w, g)'
    BY <2>3, <2>4 DEF Next, Returned
  <2>6. Given'
    <3>1. ASSUME NEW p \in Player, Evaluate(p)
          PROVE  seed' = seed /\ tree' = tree /\ data' = data
      <4>1. \A o \in {"x", "n"} : SendKeys(p, o) \/ TakeKeys(p, o) \/ Chosen(p, o)
              => seed' = seed /\ tree' = tree /\ data' = data
        BY DEF SendKeys, TakeKeys, Chosen
      <4>2. SendIc(p) \/ TakeIc(p) \/ Despoit(p) \/ TakeDespoit(p)
              => seed' = seed /\ tree' = tree /\ data' = data
        BY DEF SendIc, TakeIc, Despoit, TakeDespoit
      <4>3. Ask(p) \/ PickX(p) \/ PickN(p) \/ Choose(p) => seed' = seed /\ tree' = tree /\ data' = data
        BY DEF Ask, PickX, PickN, Choose
      <4> QED BY <3>1, <4>1, <4>2, <4>3 DEF Evaluate
    <3>2. ASSUME UNCHANGED vars
          PROVE  seed' = seed /\ tree' = tree /\ data' = data
      BY <3>2 DEF vars
    <3>3. seed' = seed /\ tree' = tree /\ data' = data
      BY <3>1, <3>2 DEF Next, Returned
    <3> QED BY <2>2, <3>3 DEF Given
  <2> QED BY <2>5, <2>6 DEF WalkInv
<1> QED BY <1>1, <1>2, PaceInductive, PTL DEF Spec

(* Three shares that are the same add up to the same *)
LEMMA SharesSame ==
  ASSUME NEW a, NEW b, \A p \in Player : a[p] = b[p]
  PROVE  Sum(a) = Sum(b)
BY DEF Sum, Player

-------------------------------------------------------------------------------
(* What the players have selected and chosen *)

(* What the keys that are held gain is what the pair that was dealt gains *)
LEMMA GainedIs ==
  ASSUME NEW w, NEW d \in Player, NEW o \in Objs, NEW l \in 1 .. Deep,
         KeysOf(w, Suc(d), o), KeysOf(w, Pre(d), o), NEW v, NEW M
  PROVE  Gained(v, d, o, l, M) = Gain(v, FiliOf(w.seed, o, l, d), PointPad(w.seed, o, l, d), M)
<1> DEFINE at == FiliOf(w.seed, o, l, d)
           pad == PointPad(w.seed, o, l, d)
<1>1. Pre(Suc(d)) = d /\ Suc(Pre(d)) = d /\ Pre(d) # Suc(d)
  BY Ring
<1>2. sks[o][Suc(d)][l] = SotKey(w.seed, o, d, Suc(d), l)
  BY <1>1 DEF KeysOf
<1>3. gks[o][Pre(d)][l] = SotKey(w.seed, o, d, Pre(d), l)
  BY <1>1 DEF KeysOf
<1>4. sks[o][Suc(d)][l] = PointKey(TRUE, at, pad)
  BY <1>2 DEF SotKey
<1>5. gks[o][Pre(d)][l] = PointKey(FALSE, at, pad)
  <2>1. (Pre(d) = Suc(d)) = FALSE
    BY <1>1
  <2> QED BY <1>3, <2>1 DEF SotKey
<1>6. sks[o][Suc(d)][l].at = at
  BY <1>4 DEF PointKey
<1> HIDE DEF at, pad
<1>7. Gained(v, d, o, l, M) = Gain(v, at, pad, M)
  BY <1>4, <1>5, <1>6 DEF Gained, Gain
<1> QED BY <1>7 DEF at, pad

(* What the players hold when the SOTs of a level are done *)
LEMMA AtChoose ==
  ASSUME NEW w, NEW g, Walked(w, g), NEW l \in 1 .. Deep,
         Together(<< "choose" >>, l) \/ Together(<< "done" >>, l), NEW p \in Player
  PROVE  /\ ki[p] = g[l].ki[p] /\ idi[p] = g[l].idi[p]
         /\ shares[p] = << w.n[Suc(p)], w.n[Pre(p)] >>
         /\ KeysOf(w, p, "x") /\ KeysOf(w, p, "n")
         /\ x_pick[p] = Feature(w, g[l], l)[p]
         /\ \A f \in Fields : n_pick[p][f] = Field(w, g[l], l, f)[p]
<1>1. Place(pc[p]) = 10 /\ level[p] = l
  BY Places DEF Together
<1>2. Holds(w, g, p, 10, l)
  BY <1>1, Now
<1>3. x_pick[p] = PickedX(w, g[l], l)[p].x /\ n_pick[p] = PickedN(w, g[l], l)[p]
  BY <1>2 DEF Holds, Picking
<1>4. KeysOf(w, p, "x") /\ KeysOf(w, p, "n")
  BY <1>2 DEF Holds, Keyed
<1>5. ki[p] = g[l].ki[p] /\ idi[p] = g[l].idi[p] /\ shares[p] = << w.n[Suc(p)], w.n[Pre(p)] >>
  BY <1>2 DEF Holds, Position
<1> QED BY <1>3, <1>4, <1>5 DEF Feature, Field

LEMMA WalkedSelects ==
  ASSUME WalkInv
  PROVE  SelectsOne
<1>1. PICK w, g : Walked(w, g)
  BY DEF WalkInv
<1>2. w = World /\ IsWalk(World, g) /\ seed \in Seeds /\ tree \in Trees /\ data \in Datas
  BY <1>1 DEF Walked, WalkInv, Given
<1>3. Adds(w, tree, data) /\ \A l \in 1 .. Deep : Held(g[l])
  BY <1>2, WorldAdds, WalkInts
<1>4. \A d \in Player : w.x[d] = FeatureShare(Suc(d))
  BY <1>2 DEF World
<1>5. ASSUME NEW l \in 1 .. Deep, Together(<< "choose" >>, l) \/ Together(<< "done" >>, l)
      PROVE  LET i == Sum(idi) % Nodes
                 k == Sum(ki) % Feats
                 gains(v, o, modulus) == Sum([d \in Player |-> Gained(v[d], d, o, l, modulus)])
             IN  /\ \A f \in DOMAIN NodeMod :
                      /\ Sum(NodeShares(i, f)) % NodeMod[f] = tree.nodes[i][f] % NodeMod[f]
                      /\ Sum([p \in Player |-> n_pick[p][f]]) % NodeMod[f]
                           = gains(NodeShares(i, f), "n", NodeMod[f]) % NodeMod[f]
                 /\ Sum(FeatureShares(k)) % W = data[k]
                 /\ Sum(x_pick) % W = gains(FeatureShares(k), "x", W) % W
  <2> DEFINE h == g[l]
             i == Sum(h.idi) % Nodes
             k == Sum(h.ki) % Feats
  <2>1. l \in 0 .. Deep /\ Held(h)
    BY <1>3, SizesAssumption
  <2>2. ASSUME NEW p \in Player
        PROVE  /\ ki[p] = h.ki[p] /\ idi[p] = h.idi[p]
               /\ shares[p] = << w.n[Suc(p)], w.n[Pre(p)] >>
               /\ KeysOf(w, p, "x") /\ KeysOf(w, p, "n")
               /\ x_pick[p] = Feature(w, h, l)[p]
               /\ \A f \in Fields : n_pick[p][f] = Field(w, h, l, f)[p]
    BY <1>1, <1>5, AtChoose
  <2> HIDE DEF h
  <2>3. Sum(ki) = Sum(h.ki) /\ Sum(idi) = Sum(h.idi) /\ Sum(x_pick) = Sum(Feature(w, h, l))
    BY <2>2, SharesSame
  <2>4. Sum(h.ki) \in Int /\ Sum(h.idi) \in Int /\ 0 \in Player
    BY <2>1, Round DEF Held, Player
  <2>5. i \in NodeIds /\ k \in FeatIds
    BY <2>4, Small3, Division DEF NodeIds, FeatIds
  <2>6. ASSUME NEW f \in Fields
        PROVE  /\ Sum(NodeShares(i, f)) % NodeMod[f] = tree.nodes[i][f] % NodeMod[f]
               /\ Sum([p \in Player |-> n_pick[p][f]]) % NodeMod[f]
                    = Sum([d \in Player |-> Gained(NodeShares(i, f)[d], d, "n", l, NodeMod[f])]) % NodeMod[f]
    <3> DEFINE M == NodeMod[f]
               a == [d \in Player |-> w.n[d][i][f]]
               b == [p \in Player |-> n_pick[p][f]]
               c == [d \in Player |-> Gained(NodeShares(i, f)[d], d, "n", l, M)]
    <3>1. \A d \in Player : NodeShares(i, f)[d] = a[d]
      <4> SUFFICES ASSUME NEW d \in Player PROVE NodeShares(i, f)[d] = w.n[d][i][f]
        OBVIOUS
      <4>1. Pre(d) \in Player /\ Suc(Pre(d)) = d
        BY Ring
      <4>2. shares[Pre(d)][1] = w.n[d]
        BY <2>2, <4>1
      <4>3. NodeShares(i, f)[d] = shares[Pre(d)][1][i][f]
        BY DEF NodeShares
      <4> QED BY <4>2, <4>3
    <3>2. Same(M, Sum(a), tree.nodes[i][f])
      BY <1>3, <2>5 DEF Adds
    <3>3. Sum(NodeShares(i, f)) = Sum(a)
      <4> HIDE DEF a
      <4> QED BY <3>1, SharesSame
    <3>4. Same(M, Sum(Field(w, h, l, f)), Sum(NGains(w, h, l, f)))
      BY <1>3, <2>1, FieldPicked DEF Held
    <3>5. Sum(b) = Sum(Field(w, h, l, f))
      <4>1. \A p \in Player : b[p] = Field(w, h, l, f)[p]
        BY <2>2
      <4> HIDE DEF b
      <4> QED BY <4>1, SharesSame
    <3>6. Sum(c) = Sum(NGains(w, h, l, f))
      <4>1. ASSUME NEW d \in Player
            PROVE  c[d] = NGains(w, h, l, f)[d]
        <5>1. Suc(d) \in Player /\ Pre(d) \in Player /\ "n" \in Objs
          BY Ring DEF Objs
        <5>2. KeysOf(w, Suc(d), "n") /\ KeysOf(w, Pre(d), "n")
          BY <2>2, <5>1
        <5>3. c[d] = Gained(a[d], d, "n", l, M)
          <6> HIDE DEF a
          <6> QED BY <3>1
        <5>4. c[d] = Gain(a[d], FiliOf(w.seed, "n", l, d), PointPad(w.seed, "n", l, d), M)
          <6> HIDE DEF a, c, M
          <6> QED BY <5>1, <5>2, <5>3, GainedIs
        <5>5. a[d] = w.n[d][i][f]
          OBVIOUS
        <5> HIDE DEF a, c
        <5> QED BY <5>4, <5>5 DEF NGains
      <4> HIDE DEF c
      <4> QED BY <4>1, SharesSame
    <3> HIDE DEF a, b, c
    <3> QED BY <3>2, <3>3, <3>4, <3>5, <3>6 DEF Same, b, c
  <2>7. Sum(FeatureShares(k)) % W = data[k]
    <3> DEFINE a == [d \in Player |-> w.x[d][k].x]
    <3>1. Same(W, Sum(a), data[k])
      BY <1>3, <2>5 DEF Adds
    <3>2. \A d \in Player : FeatureShares(k)[d] = a[d] /\ a[d] \in Int
      BY <1>3, <1>4, <2>5 DEF FeatureShares, Adds
    <3> HIDE DEF a
    <3>3. Sum(FeatureShares(k)) = Sum(a)
      BY <3>2, SharesSame
    <3>4. Sum(a) \in Int /\ data[k] \in 0 .. (W - 1)
      BY <1>2, <2>4, <2>5, <3>2, Round, DataIs DEF Word
    <3> QED BY <3>1, <3>3, <3>4, Width, ResidueIs
  <2>8. Sum(x_pick) % W = Sum([d \in Player |-> Gained(FeatureShares(k)[d], d, "x", l, W)]) % W
    <3> DEFINE c == [d \in Player |-> Gained(FeatureShares(k)[d], d, "x", l, W)]
    <3>1. Same(W, Sum(Feature(w, h, l)), Sum(XGains(w, h, l)))
      BY <1>3, <2>1, FeaturePicked DEF Held
    <3>2. ASSUME NEW d \in Player
          PROVE  c[d] = XGains(w, h, l)[d]
      <4>1. Suc(d) \in Player /\ Pre(d) \in Player /\ "x" \in Objs
        BY Ring DEF Objs
      <4>2. KeysOf(w, Suc(d), "x") /\ KeysOf(w, Pre(d), "x")
        BY <2>2, <4>1
      <4>3. FeatureShares(k)[d] = w.x[d][k].x
        BY <1>4 DEF FeatureShares
      <4>4. c[d] = Gained(w.x[d][k].x, d, "x", l, W)
        BY <4>3
      <4> HIDE DEF c
      <4>5. c[d] = Gain(w.x[d][k].x, FiliOf(w.seed, "x", l, d), PointPad(w.seed, "x", l, d), W)
        BY <4>1, <4>2, <4>4, GainedIs
      <4> QED BY <4>5 DEF XGains
    <3> HIDE DEF c
    <3>3. Sum(c) = Sum(XGains(w, h, l))
      BY <3>2, SharesSame
    <3> QED BY <2>3, <3>1, <3>3 DEF Same, c
  <2>9. Sum(idi) % Nodes = i /\ Sum(ki) % Feats = k /\ DOMAIN NodeMod = Fields
    BY <2>3, FieldMods
  <2> HIDE DEF i, k
  <2> QED BY <2>6, <2>7, <2>8, <2>9
<1> QED BY <1>5 DEF SelectsOne

(* What the players hold when they have come to the next level *)
LEMMA AtAsk ==
  ASSUME NEW w, NEW g, Walked(w, g), NEW l \in 1 .. (Deep - 1), Together(<< "ask" >>, l + 1),
         NEW p \in Player
  PROVE  /\ ki[p] = Next2(w, g[l], l, "x")[p] /\ idi[p] = Next2(w, g[l], l, "n")[p]
         /\ x_pick[p] = Feature(w, g[l], l)[p]
         /\ \A f \in Fields : n_pick[p][f] = Field(w, g[l], l, f)[p]
         /\ \A o \in Objs : blocks[o][p][p] = Blocks(w, g, l, o, p)
<1>1. Place(pc[p]) = 7 /\ level[p] = l + 1
  BY Places DEF Together
<1>2. Holds(w, g, p, 7, l + 1)
  BY <1>1, Now
<1>3. (l + 1) - 1 = l /\ l + 1 > 1 /\ l \in 1 .. Deep
  BY SizesAssumption
<1>4. Settled(w, g, p, l)
  BY <1>2, <1>3 DEF Holds, Choosing
<1>5. ki[p] = g[l + 1].ki[p] /\ idi[p] = g[l + 1].idi[p]
  BY <1>2 DEF Holds, Position
<1>6. g[l + 1] = Onward(w, g[l], l)
  BY <1>3 DEF Walked, IsWalk
<1>7. ki[p] = Next2(w, g[l], l, "x")[p] /\ idi[p] = Next2(w, g[l], l, "n")[p]
  BY <1>5, <1>6 DEF Onward
<1> QED BY <1>4, <1>7 DEF Settled, Feature, Field

LEMMA WalkedChooses ==
  ASSUME WalkInv
  PROVE  ChoosesOne
<1>1. PICK w, g : Walked(w, g)
  BY DEF WalkInv
<1>2. w = World /\ IsWalk(World, g) /\ seed \in Seeds /\ tree \in Trees /\ data \in Datas
  BY <1>1 DEF Walked, WalkInv, Given
<1>3. Adds(w, tree, data) /\ w.seed \in Seeds /\ \A l \in 1 .. Deep : Held(g[l])
  BY <1>2, WorldAdds, WalkInts DEF Adds
<1>4. ASSUME NEW l \in 1 .. (Deep - 1), NEW o \in {"x", "n"}, Together(<< "ask" >>, l + 1)
      PROVE  LET half(a, b) == IF o = "x" THEN Sum([p \in Player |-> n_pick[p][a]])
                                          ELSE Sum([p \in Player |-> n_pick[p][b]])
                 reaches == (Sum([p \in Player |-> n_pick[p].t]) - Sum(x_pick)) % W \in 0 .. Tao
                 apart(p) == blocks[o][p][p][1] - blocks[o][p][p][2]
             IN  \E slip \in [Player -> {0, 1}] :
                   Sum(IF o = "x" THEN ki ELSE idi) % LenOf(o)
                     = ((IF reaches THEN half("xl", "nl") ELSE half("xr", "nr"))
                          + W * Sum([p \in Player |-> slip[p] * apart(p)])) % LenOf(o)
  <2> DEFINE h == g[l]
             a == Feature(w, h, l)
             b == Field(w, h, l, "t")
             fst == Field(w, h, l, First(o))
             snd == Field(w, h, l, Second(o))
             C == ChosenOf(w.seed, o, l, a, b, fst, snd)
             m(p) == Masked(w.seed, o, l, fst, snd, p)
             picked(f) == [p \in Player |-> n_pick[p][f]]
             mine == IF o = "x" THEN ki ELSE idi
  <2>1. l \in 0 .. Deep /\ Held(h) /\ l \in 1 .. Deep
    BY <1>3, SizesAssumption
  <2>2. ASSUME NEW p \in Player
        PROVE  /\ ki[p] = Next2(w, h, l, "x")[p] /\ idi[p] = Next2(w, h, l, "n")[p]
               /\ x_pick[p] = a[p]
               /\ \A f \in Fields : n_pick[p][f] = Field(w, h, l, f)[p]
               /\ blocks[o][p][p] = m(p)
    BY <1>1, <1>4, AtAsk DEF Objs, Blocks
  <2>3. "t" \in Fields /\ First(o) \in Fields /\ Second(o) \in Fields
    BY DEF First, Second, Fields
  <2>4. Next2(w, h, l, o) = C
    BY DEF Next2
  <2> HIDE DEF h
  <2>5. /\ \A p \in Player : a[p] \in Int
        /\ \A p \in Player : b[p] \in Int
        /\ \A p \in Player : fst[p] \in Int
        /\ \A p \in Player : snd[p] \in Int
    BY <1>3, <2>1, <2>3, PickedInts
  <2>6. ASSUME NEW f \in Fields
        PROVE  Sum(picked(f)) = Sum(Field(w, h, l, f))
    <3>1. \A p \in Player : picked(f)[p] = Field(w, h, l, f)[p]
      BY <2>2
    <3> HIDE DEF picked
    <3> QED BY <3>1, SharesSame
  <2>7. Sum(x_pick) = Sum(a) /\ Sum(picked("t")) = Sum(b)
        /\ Sum(picked(First(o))) = Sum(fst) /\ Sum(picked(Second(o))) = Sum(snd)
    <3>1. Sum(x_pick) = Sum(a)
      <4> HIDE DEF a
      <4> QED BY <2>2, SharesSame
    <3> HIDE DEF picked, a
    <3> QED BY <2>3, <2>6, <3>1
  <2>8. Sum(mine) = Sum(C)
    <3>1. \A p \in Player : mine[p] = C[p]
      BY <2>2, <2>4
    <3> HIDE DEF mine, C
    <3> QED BY <3>1, SharesSame
  <2>9. PICK slip \in [Player -> {0, 1}] :
          Same(LenOf(o), Sum(C), (IF (Sum(b) - Sum(a)) % W \in 0 .. Tao THEN Sum(fst) ELSE Sum(snd))
                                   + W * Sum([p \in Player |-> slip[p] * (m(p)[1] - m(p)[2])]))
    <3>1. w.seed \in Seeds /\ o \in {"x", "n"} /\ l \in 0 .. Deep
      BY <1>3, <2>1
    <3> HIDE DEF a, b, fst, snd
    <3>2. ChosenUpTo(w.seed, o, l, a, b, fst, snd)
      BY ONLY <2>5, <3>1, ChosenSlips
    <3> QED BY <3>2 DEF ChosenUpTo
  <2> DEFINE x == [p \in Player |-> slip[p] * (m(p)[1] - m(p)[2])]
             z == [p \in Player |-> slip[p] * (blocks[o][p][p][1] - blocks[o][p][p][2])]
  <2>10. x = z
    <3> HIDE DEF m
    <3> QED BY <2>2
  <2>11. Sum(mine) % LenOf(o)
           = ((IF (Sum(picked("t")) - Sum(x_pick)) % W \in 0 .. Tao
               THEN Sum(picked(First(o))) ELSE Sum(picked(Second(o)))) + W * Sum(z)) % LenOf(o)
    <3>1. Same(LenOf(o), Sum(C), (IF (Sum(b) - Sum(a)) % W \in 0 .. Tao THEN Sum(fst) ELSE Sum(snd))
                                   + W * Sum(x))
      BY <2>9
    <3> HIDE DEF C, a, b, fst, snd, x, z, picked, mine
    <3> QED BY <2>7, <2>8, <2>10, <3>1 DEF Same
  <2>12. CASE o = "x"
    <3>1. First(o) = "xl" /\ Second(o) = "xr"
      BY <2>12 DEF First, Second
    <3> QED BY <2>11, <2>12, <3>1
  <2>13. CASE o = "n"
    <3>1. First(o) = "nl" /\ Second(o) = "nr"
      BY <2>13 DEF First, Second
    <3> QED BY <2>11, <2>13, <3>1
  <2> QED BY <2>12, <2>13
<1> QED BY <1>4 DEF ChoosesOne

(* What the three players select on a level is one element of the lists,    *)
(* the one at the position they share, whatever is drawn: no other element  *)
(* leaves a trace in what they add up to, and their shares of the element   *)
(* are still those of the tree and of the data (online_2 of sot.hpp).       *)
THEOREM SelectsShared == Spec => []SelectsOne
<1>1. WalkInv => SelectsOne
  BY WalkedSelects
<1> QED BY <1>1, WalkInductive, PTL

(* And where they stand on the next level is the left or the right of what  *)
(* they selected, by how its word compares with the feature, but for the    *)
(* words that wrap (online_2 of csot.hpp).                                  *)
THEOREM Chooses == Spec => []ChoosesOne
<1>1. WalkInv => ChoosesOne
  BY WalkedChooses
<1> QED BY <1>1, WalkInductive, PTL
===============================================================================
