------------------------------ MODULE BmrProofs -------------------------------
(*****************************************************************************)
(* Proofs about Bmr: for every number of players, every circuit, every       *)
(* choice of masks and inputs and every order of the messages, the           *)
(* evaluation finds no corrupted label, and its outputs are shares of what   *)
(* the plain circuit computes.  They are for one instance of the circuit in  *)
(* the arrays (Lens = 1): with more, the code's instances overlap and the    *)
(* labels of the inputs are cut from the wrong bytes (BMR.cpp:265).          *)
(*                                                                           *)
(* The argument: a table's row for player j is a hash that all players can   *)
(* take off once they know the labels of the inputs, and under it the label  *)
(* of player j for the masked output (DecryptedIs).  What a player has sent  *)
(* is what it still holds (MsgInv), so the sums the others form of messages  *)
(* are sums over the state, and no step of another player touches them       *)
(* (OthersKeep).  The circuit's own values are a recursive function; PlainIs *)
(* shows that it exists and computes what the gates say.                     *)
(*****************************************************************************)
EXTENDS Bmr, Arithmetic, TLAPS

-------------------------------------------------------------------------------
(* Sums of bits and blocks *)

(* A set that holds what exactly one of two sets holds is odd when exactly  *)
(* one of the two is.                                                       *)
LEMMA OddSum ==
  ASSUME NEW A, NEW B, NEW C, IsFiniteSet(A), IsFiniteSet(B),
         \A t : t \in C <=> ~(t \in A <=> t \in B)
  PROVE  Odd(C) <=> ~(Odd(A) <=> Odd(B))
<1> DEFINE both == A \cap B
           all == A \cup B
           a == Cardinality(A)
           b == Cardinality(B)
           c == Cardinality(both)
           n == Cardinality(all)
           d == Cardinality(C)
<1>1. IsFiniteSet(both) /\ IsFiniteSet(all) /\ n = a + b - c
  BY FS_Union, FS_Intersection
<1>2. C = all \ both /\ all \cap both = both
  OBVIOUS
<1> HIDE DEF both, all
<1>3. d = n - c /\ IsFiniteSet(C)
  <2>1. /\ IsFiniteSet(all \ both)
        /\ Cardinality(all \ both) = Cardinality(all) - Cardinality(all \cap both)
    BY <1>1, FS_Difference
  <2> QED BY <1>2, <2>1
<1>4. a \in Nat /\ b \in Nat /\ c \in Nat /\ n \in Nat /\ d \in Nat
  BY <1>1, <1>3, FS_CardinalityType
<1> HIDE DEF a, b, c, n, d
<1>5. d = a + b - 2 * c
  BY <1>1, <1>3, <1>4
<1>6. d % 2 = 1 <=> ~(a % 2 = 1 <=> b % 2 = 1)
  BY <1>4, <1>5
<1> QED BY <1>6 DEF Odd, a, b, d

(* The sizes of the smallest sets. *)
LEMMA OddOne ==
  /\ ~Odd({})
  /\ \A x : Odd({x})
<1>1. Cardinality({}) = 0
  BY FS_EmptySet
<1>2. ASSUME NEW x PROVE Cardinality({x}) = 1
  BY FS_Singleton
<1>3. 0 % 2 = 0 /\ 1 % 2 = 1
  OBVIOUS
<1> QED BY <1>1, <1>2, <1>3 DEF Odd

(* A sum of two blocks holds what exactly one of them holds. *)
LEMMA XorIs == ASSUME NEW x, NEW y, NEW t PROVE t \in Xor(x, y) <=> ~(t \in x <=> t \in y)
BY DEF Xor

(* XOR of blocks *)
LEMMA XorBack ==
  ASSUME NEW x, NEW y
  PROVE  /\ Xor(Xor(x, y), x) = y /\ Xor(Xor(x, y), y) = x /\ Xor(x, y) = Xor(y, x)
         /\ (y # {} => Xor(x, y) # x)
BY DEF Xor

(* Labels shifted by r: a shift of one shifts the sum, shifts of both       *)
(* cancel.                                                                  *)
LEMMA XorMany ==
  ASSUME NEW x, NEW y, NEW r
  PROVE  /\ Xor(Xor(x, r), y) = Xor(Xor(x, y), r)
         /\ Xor(x, Xor(y, r)) = Xor(Xor(x, y), r)
         /\ Xor(Xor(x, r), Xor(y, r)) = Xor(x, y)
<1>1. \A t : t \in Xor(Xor(x, r), y) <=> t \in Xor(Xor(x, y), r)
  BY XorIs
<1>2. \A t : t \in Xor(x, Xor(y, r)) <=> t \in Xor(Xor(x, y), r)
  BY XorIs
<1>3. \A t : t \in Xor(Xor(x, r), Xor(y, r)) <=> t \in Xor(x, y)
  BY XorIs
<1> QED BY <1>1, <1>2, <1>3

(* The players are finitely many, and player 0 is one of them. *)
LEMMA Players ==
  /\ IsFiniteSet(Player) /\ 0 \in Player /\ Player \subseteq Int
<1>1. NumPlayers \in Nat \ {0}
  BY CircuitAssumption
<1> QED BY <1>1, FS_Interval DEF Player

(* The sum of what the players put in *)
XorAll(F) == XorBlocks(Player, LAMBDA q : F[q])

(* The terms of two sums that differ at one player only, by m *)
LEMMA XorOne ==
  ASSUME NEW F, NEW G, NEW j \in Player, NEW m,
         \A q \in Player : F[q] = IF q = j THEN Xor(G[q], m) ELSE G[q]
  PROVE  Xor(XorAll(F), XorAll(G)) = m
<1> DEFINE f(t) == { q \in Player : t \in F[q] }
           g(t) == { q \in Player : t \in G[q] }
           one(t) == IF t \in m THEN { j } ELSE {}
           X == XorAll(F)
           Y == XorAll(G)
<1>1. ASSUME NEW t
      PROVE  (t \in X <=> Odd(f(t))) /\ (t \in Y <=> Odd(g(t)))
  <2>1. t \in X <=> (\E q \in Player : t \in F[q]) /\ Odd(f(t))
    BY DEF XorAll, XorBlocks
  <2>2. t \in Y <=> (\E q \in Player : t \in G[q]) /\ Odd(g(t))
    BY DEF XorAll, XorBlocks
  <2>3. (f(t) # {} <=> \E q \in Player : t \in F[q]) /\ (g(t) # {} <=> \E q \in Player : t \in G[q])
    OBVIOUS
  <2> HIDE DEF f, g
  <2> QED BY <2>1, <2>2, <2>3, OddOne
<1>2. ASSUME NEW t
      PROVE  Odd(f(t)) <=> ~(Odd(g(t)) <=> t \in m)
  <2>1. IsFiniteSet(g(t)) /\ IsFiniteSet(one(t))
    <3>1. g(t) \in SUBSET Player /\ one(t) \in SUBSET Player
      OBVIOUS
    <3> QED BY <3>1, Players, FS_Subset
  <2>2. \A q : q \in f(t) <=> ~(q \in g(t) <=> q \in one(t))
    BY XorIs
  <2>3. Odd(one(t)) <=> t \in m
    BY OddOne
  <2> HIDE DEF f, g, one
  <2> QED BY <2>1, <2>2, <2>3, OddSum
<1> HIDE DEF f, g, X, Y
<1>3. \A t : t \in Xor(X, Y) <=> t \in m
  BY <1>1, <1>2, XorIs
<1>4. Xor(X, Y) = m
  BY <1>3
<1> QED BY <1>4 DEF X, Y

(* XOR of bits *)
LEMMA BitXorIs ==
  /\ \A a, b \in Bit : BitXor(a, b) \in Bit /\ (BitXor(a, b) = 1 <=> ~(a = 1 <=> b = 1))
  /\ \A a, b \in Bit : BitXor(a, b) = BitXor(b, a) /\ BitXor(BitXor(a, b), b) = a /\ BitXor(a, 0) = a
  /\ \A a, b \in Bit : a * b \in Bit
  /\ \A a, b, c \in Bit : BitXor(BitXor(a, b), c) = BitXor(a, BitXor(b, c))
<1> SUFFICES ASSUME NEW a \in {0, 1}, NEW b \in {0, 1}, NEW c \in {0, 1}
             PROVE  /\ BitXor(a, b) \in Bit /\ (BitXor(a, b) = 1 <=> ~(a = 1 <=> b = 1))
                    /\ BitXor(a, b) = BitXor(b, a) /\ BitXor(BitXor(a, b), b) = a /\ BitXor(a, 0) = a
                    /\ a * b \in Bit
                    /\ BitXor(BitXor(a, b), c) = BitXor(a, BitXor(b, c))
  BY DEF Bit
<1>1. CASE a = 0
  BY <1>1 DEF BitXor, Bit
<1>2. CASE a = 1
  BY <1>2 DEF BitXor, Bit
<1> QED BY <1>1, <1>2

(* The sum of the players' sums of two bits is the sum of the two sums. *)
LEMMA BitsSum ==
  ASSUME NEW F, NEW G, NEW H,
         \A q \in Player : F[q] \in Bit /\ G[q] \in Bit /\ H[q] = BitXor(F[q], G[q])
  PROVE  LET x == XorBits(Player, LAMBDA q : F[q])
             y == XorBits(Player, LAMBDA q : G[q])
         IN  /\ x \in Bit /\ y \in Bit
             /\ XorBits(Player, LAMBDA q : H[q]) = BitXor(x, y)
<1> DEFINE A == { q \in Player : F[q] = 1 }
           B == { q \in Player : G[q] = 1 }
           C == { q \in Player : H[q] = 1 }
           x == XorBits(Player, LAMBDA q : F[q])
           y == XorBits(Player, LAMBDA q : G[q])
           z == XorBits(Player, LAMBDA q : H[q])
<1>1. /\ x = IF Odd(A) THEN 1 ELSE 0
      /\ y = IF Odd(B) THEN 1 ELSE 0
      /\ z = IF Odd(C) THEN 1 ELSE 0
  BY DEF XorBits
<1>2. IsFiniteSet(A) /\ IsFiniteSet(B)
  <2>1. A \in SUBSET Player /\ B \in SUBSET Player
    OBVIOUS
  <2> QED BY <2>1, Players, FS_Subset
<1>3. \A t : t \in C <=> ~(t \in A <=> t \in B)
  BY BitXorIs
<1> HIDE DEF A, B, C
<1>4. Odd(C) <=> ~(Odd(A) <=> Odd(B))
  BY <1>2, <1>3, OddSum
<1> HIDE DEF x, y, z
<1>5. x \in Bit /\ y \in Bit /\ z \in Bit /\ (z = 1 <=> ~(x = 1 <=> y = 1))
  BY <1>1, <1>4 DEF Bit
<1>6. z = BitXor(x, y)
  BY <1>5, BitXorIs DEF Bit
<1> QED BY <1>5, <1>6 DEF x, y, z

(* One player's bit alone, and equal bits *)
LEMMA BitsOne ==
  ASSUME NEW F, NEW b \in Bit, \A q \in Player : F[q] = IF q = 0 THEN b ELSE 0
  PROVE  XorBits(Player, LAMBDA q : F[q]) = b
<1> DEFINE A == { q \in Player : F[q] = 1 }
<1>1. A = IF b = 1 THEN { 0 } ELSE {}
  <2>1. CASE b = 1
    <3>1. 0 \in Player
      BY Players
    <3>2. \A q \in Player : F[q] = 1 <=> q = 0
      BY <2>1
    <3> QED BY <2>1, <3>1, <3>2
  <2>2. CASE b = 0
    BY <2>2
  <2> QED BY <2>1, <2>2 DEF Bit
<1>2. Odd(A) <=> b = 1
  BY <1>1, OddOne
<1> HIDE DEF A
<1>3. (IF Odd(A) THEN 1 ELSE 0) = b
  BY <1>2 DEF Bit
<1> QED BY <1>3 DEF XorBits, A

(* One circuit in a batch: slots are wires *)
LEMMA Circuit ==
  ASSUME Lens = 1
  PROVE  /\ Slot = Wire /\ Instance = {0} /\ 0 \in Instance
         /\ NumGate \in Nat /\ InSize \in Nat /\ NumWire \in Nat
         /\ InWire \subseteq Wire /\ OutWire \subseteq Wire /\ Wire \subseteq Nat
         /\ \A s \in Wire : s \in InWire \/ \E g \in 1 .. NumGate : s = Gates[g].c
<1>1. /\ InSize \in Nat /\ NumWire \in Nat /\ InSize <= NumWire /\ OutSize \in 0 .. NumWire
      /\ Gates \in Seq([op : {"AND", "XOR", "INV"}, a : Nat, b : Nat, c : Nat])
  <2>1. InSize \in Nat /\ NumWire \in Nat /\ Lens * InSize <= NumWire
    BY CircuitAssumption
  <2>2. Lens * InSize = InSize
    BY <2>1
  <2> QED BY <2>1, <2>2, CircuitAssumption
<1>2. NumGate \in Nat
  BY <1>1 DEF NumGate
<1>3. \A s \in Wire : s \in InWire \/ \E g \in 1 .. NumGate : s = Gates[g].c
  BY CircuitAssumption
<1> USE DEF Slot, Wire, Instance, InWire, OutWire
<1>4. /\ Slot = Wire /\ Instance = {0} /\ 0 \in Instance
  BY <1>1, <1>2 DEF Wire
<1>5. /\ InWire \subseteq Wire /\ OutWire \subseteq Wire /\ Wire \subseteq Nat
  BY <1>1, <1>2 DEF Wire, InWire
<1> HIDE DEF Slot, Wire, Instance, InWire, OutWire
<1> QED BY <1>1, <1>2, <1>3, <1>4, <1>5

Kind == {"AND", "XOR", "INV"}

(* The wires of a gate: it reads inputs and what earlier gates have         *)
(* written, and writes no input.                                            *)
LEMMA GateIs ==
  ASSUME Lens = 1, NEW g \in 1 .. NumGate
  PROVE  /\ Gates[g].op \in Kind
         /\ Gates[g].a \in Wire /\ Gates[g].b \in Wire /\ Gates[g].c \in Wire /\ Gates[g].c \notin InWire
         /\ Known(Gates[g].a, g) /\ Known(Gates[g].b, g)
<1>1. NumGate \in Nat /\ NumGate = Len(Gates) /\ InWire \subseteq Wire
  BY Circuit DEF NumGate
<1>2. \A h \in 1 .. NumGate : Known(Gates[h].a, h) /\ Known(Gates[h].b, h) /\ Gates[h].c \in Wire \ InWire
  BY CircuitAssumption
<1>3. Gates[g] \in [op : {"AND", "XOR", "INV"}, a : Nat, b : Nat, c : Nat]
  <2> DEFINE G == [op : {"AND", "XOR", "INV"}, a : Nat, b : Nat, c : Nat]
  <2>1. Gates \in Seq(G) /\ g \in 1 .. Len(Gates)
    BY <1>1, CircuitAssumption
  <2> HIDE DEF G
  <2>2. Gates[g] \in G
    BY <2>1
  <2> QED BY <2>2 DEF G
<1>4. \A s : Known(s, g) => s \in Wire
  <2>1. \A h \in 1 .. (g - 1) : h \in 1 .. NumGate
    BY <1>1
  <2> QED BY <1>1, <1>2, <2>1 DEF Known
<1> QED BY <1>2, <1>3, <1>4 DEF Kind

(* Every wire but the inputs is written by one gate *)
LEMMA Written ==
  ASSUME NEW g \in 1 .. NumGate, NEW h \in 1 .. NumGate, Gates[g].c = Gates[h].c
  PROVE  g = h
BY CircuitAssumption

(* What the circuit makes of the values f *)
InputValue(i) ==
  IF mode = "held" THEN input[Holder[i]][0][i]
                   ELSE XorBits(Player, LAMBDA p : input[p][0][i])

GateValue(f, g) ==
  CASE Gates[g].op = "AND" -> f[Gates[g].a] * f[Gates[g].b]
    [] Gates[g].op = "XOR" -> BitXor(f[Gates[g].a], f[Gates[g].b])
    [] Gates[g].op = "INV" -> BitXor(f[Gates[g].a], 1)

ValueAt(f, i) ==
  IF i \in InWire THEN InputValue(i) ELSE GateValue(f, CHOOSE n \in 1 .. NumGate : Gates[n].c = i)

(* The circuit's values are the function that ValueAt describes. *)
LEMMA PlainFor == Plain(0) = CHOOSE value : value = [i \in Wire |-> ValueAt(value, i)]
BY DEF Plain, ValueAt, GateValue, InputValue

(* The wire that a gate writes has the value of that gate. *)
LEMMA GateValueAt ==
  ASSUME Lens = 1, NEW g \in 1 .. NumGate, NEW f
  PROVE  ValueAt(f, Gates[g].c) = GateValue(f, g)
<1> DEFINE c == Gates[g].c
           Q(n) == n \in 1 .. NumGate /\ Gates[n].c = c
<1>1. c \notin InWire
  BY GateIs
<1>2. Q(g)
  OBVIOUS
<1>3. \A n : Q(n) => n = g
  BY Written
<1>4. (CHOOSE n \in 1 .. NumGate : Gates[n].c = c) = CHOOSE n : Q(n)
  OBVIOUS
<1> HIDE DEF Q
<1>5. (CHOOSE n : Q(n)) = g
  BY <1>2, <1>3
<1>6. (CHOOSE n \in 1 .. NumGate : Gates[n].c = c) = g
  BY <1>4, <1>5
<1> HIDE DEF c
<1>7. ValueAt(f, c) = GateValue(f, g)
  BY <1>1, <1>6 DEF ValueAt
<1> QED BY <1>7 DEF c

(* What a gate computes depends on the values it reads only. *)
LEMMA ValueLocal ==
  ASSUME Lens = 1, NEW g \in 1 .. NumGate, NEW f, NEW h, \A k : Known(k, g) => f[k] = h[k]
  PROVE  GateValue(f, g) = GateValue(h, g)
<1>1. f[Gates[g].a] = h[Gates[g].a] /\ f[Gates[g].b] = h[Gates[g].b]
  BY GateIs
<1> QED BY <1>1 DEF GateValue

(* The wires that have their values before gate n, and that values for them exist *)
Settled(n) == { s \in Wire : Known(s, n) }
Settles(n) == \E f : f = [i \in Settled(n) |-> f[i]] /\ \A i \in Settled(n) : f[i] = ValueAt(f, i)

(* There is a function as ValueAt describes: it is built gate by gate. *)
LEMMA PlainExists ==
  ASSUME Lens = 1
  PROVE  \E f : f = [i \in Wire |-> ValueAt(f, i)]
<1> DEFINE T == { n \in Nat : n <= NumGate => Settles(n + 1) }
<1>1. NumGate \in Nat /\ InWire \subseteq Wire
  BY Circuit
<1>2. 0 \in T
  <2> DEFINE f == [i \in Settled(0 + 1) |-> InputValue(i)]
  <2>1. \A i \in Settled(0 + 1) : i \in InWire
    BY DEF Known, Settled
  <2>2. f = [i \in Settled(0 + 1) |-> f[i]] /\ \A i \in Settled(0 + 1) : f[i] = ValueAt(f, i)
    BY <2>1 DEF ValueAt
  <2> HIDE DEF f
  <2>3. Settles(0 + 1)
    BY <2>2 DEF Settles
  <2> QED BY <2>3
<1>3. ASSUME NEW n \in Nat, n \in T
      PROVE  n + 1 \in T
  <2> SUFFICES ASSUME n + 1 <= NumGate
               PROVE  Settles((n + 1) + 1)
    OBVIOUS
  <2> DEFINE g == n + 1
             c == Gates[g].c
  <2>1. PICK f : f = [i \in Settled(g) |-> f[i]] /\ \A i \in Settled(g) : f[i] = ValueAt(f, i)
    <3>1. n <= NumGate /\ (n <= NumGate => Settles(n + 1))
      BY <1>1, <1>3
    <3> QED BY <3>1 DEF Settles
  <2>2. g \in 1 .. NumGate
    BY <1>1
  <2>3. c \in Wire /\ c \notin InWire
    BY <2>2, GateIs
  <2>4. \A k \in 1 .. ((n + 1) + 1 - 1) : k \in 1 .. (g - 1) \/ k = g
    OBVIOUS
  <2>5. \A k \in 1 .. (g - 1) : k \in 1 .. ((n + 1) + 1 - 1) /\ k \in 1 .. NumGate /\ k # g
    BY <1>1
  <2>6. g \in 1 .. ((n + 1) + 1 - 1)
    OBVIOUS
  <2> HIDE DEF g
  <2>7. \A i : i \in Settled((n + 1) + 1) <=> i \in Settled(g) \/ i = c
    BY <2>3, <2>4, <2>5, <2>6 DEF Known, Settled
  <2>8. \A i \in Settled(g) : i # c
    <3>1. \A k \in 1 .. (g - 1) : Gates[k].c # c
      BY <2>2, <2>5, Written
    <3> QED BY <2>3, <3>1 DEF Known, Settled
  <2> DEFINE h == [i \in Settled((n + 1) + 1) |-> IF i = c THEN GateValue(f, g) ELSE f[i]]
  <2>9. \A i \in Settled(g) : h[i] = f[i]
    BY <2>7, <2>8
  <2>10. \A k : Known(k, g) => f[k] = h[k]
    <3>1. \A k : Known(k, g) => k \in Wire
      BY <1>1, <2>5, GateIs DEF Known
    <3> QED BY <2>9, <3>1 DEF Settled
  <2>11. h[c] = GateValue(f, g)
    BY <2>7
  <2> HIDE DEF h
  <2>12. ASSUME NEW i \in Settled((n + 1) + 1)
         PROVE  h[i] = ValueAt(h, i)
    <3>1. CASE i = c
      <4>1. GateValue(f, g) = GateValue(h, g)
        BY <2>2, <2>10, ValueLocal
      <4>2. ValueAt(h, c) = GateValue(h, g)
        BY <2>2, GateValueAt
      <4> QED BY <2>11, <3>1, <4>1, <4>2
    <3>2. CASE i # c
      <4>1. i \in Settled(g)
        BY <2>7, <3>2
      <4>2. h[i] = ValueAt(f, i)
        BY <2>1, <2>9, <4>1
      <4>3. CASE i \in InWire
        BY <4>2, <4>3 DEF ValueAt
      <4>4. CASE i \notin InWire
        <5>1. PICK k \in 1 .. (g - 1) : Gates[k].c = i
          BY <4>1, <4>4 DEF Known, Settled
        <5>2. k \in 1 .. NumGate
          BY <2>5
        <5>3. \A j \in 1 .. (k - 1) : j \in 1 .. (g - 1)
          BY <2>2
        <5>4. \A s : Known(s, k) => f[s] = h[s]
          BY <2>10, <5>3 DEF Known
        <5>5. GateValue(f, k) = GateValue(h, k)
          BY <5>2, <5>4, ValueLocal
        <5> QED BY <4>2, <5>1, <5>2, <5>5, GateValueAt
      <4> QED BY <4>3, <4>4
    <3> QED BY <3>1, <3>2
  <2>13. h = [i \in Settled((n + 1) + 1) |-> h[i]]
    BY DEF h
  <2> QED BY <2>12, <2>13 DEF Settles
<1> HIDE DEF T
<1>4. NumGate \in T
  BY <1>1, <1>2, <1>3, CountUp
<1>5. PICK f : /\ f = [i \in Settled(NumGate + 1) |-> f[i]]
               /\ \A i \in Settled(NumGate + 1) : f[i] = ValueAt(f, i)
  <2>1. Settles(NumGate + 1)
    BY <1>1, <1>4 DEF T
  <2> QED BY <2>1 DEF Settles
<1>6. \A s : s \in Settled(NumGate + 1) <=> s \in Wire
  <2>1. \A g \in 1 .. NumGate : g \in 1 .. (NumGate + 1 - 1)
    BY <1>1
  <2> QED BY <2>1, Circuit DEF Known, Settled
<1>7. f = [i \in Wire |-> ValueAt(f, i)]
  <2>1. Settled(NumGate + 1) = Wire
    BY <1>6
  <2>2. f = [i \in Wire |-> f[i]] /\ \A i \in Wire : f[i] = ValueAt(f, i)
    BY <1>5, <2>1
  <2> QED BY <2>2
<1> QED BY <1>7

(* Each value is an input or what its gate computes. *)
LEMMA PlainAt ==
  ASSUME Lens = 1, NEW i \in Wire
  PROVE  Plain(0)[i] = ValueAt(Plain(0), i)
<1>1. Plain(0) = [k \in Wire |-> ValueAt(Plain(0), k)]
  <2> DEFINE Q(f) == f = [k \in Wire |-> ValueAt(f, k)]
  <2>1. \E f : Q(f)
    BY PlainExists
  <2>2. Plain(0) = CHOOSE f : Q(f)
    BY PlainFor
  <2> HIDE DEF Q
  <2>3. Q(Plain(0))
    BY <2>1, <2>2
  <2> QED BY <2>3 DEF Q
<1> QED BY <1>1

(* The values of the circuit's wires *)
LEMMA PlainIs ==
  ASSUME Lens = 1
  PROVE  /\ \A i \in InWire : Plain(0)[i] = InputValue(i)
         /\ \A g \in 1 .. NumGate : Plain(0)[Gates[g].c] = GateValue(Plain(0), g)
<1>1. ASSUME NEW i \in InWire
      PROVE  Plain(0)[i] = InputValue(i)
  <2>1. i \in Wire
    BY Circuit
  <2> QED BY <2>1, PlainAt DEF ValueAt
<1>2. ASSUME NEW g \in 1 .. NumGate
      PROVE  Plain(0)[Gates[g].c] = GateValue(Plain(0), g)
  <2>1. Gates[g].c \in Wire
    BY GateIs
  <2> QED BY <2>1, PlainAt, GateValueAt
<1> QED BY <1>1, <1>2

(* The circuit's values are bits. *)
LEMMA PlainBits ==
  ASSUME Lens = 1, input \in [Player -> InputChoices]
  PROVE  \A s \in Wire : Plain(0)[s] \in Bit
<1> DEFINE v == Plain(0)
           T == { n \in Nat : n <= NumGate => \A s : Known(s, n + 1) => v[s] \in Bit }
<1>1. ASSUME NEW i \in InWire
      PROVE  v[i] \in Bit
  <2>1. \A p \in Player : input[p][0][i] \in Bit
    <3>1. \A p \in Player : input[p] \in [Instance -> [InWire -> Bit]]
      BY CircuitAssumption
    <3> QED BY <3>1, Circuit
  <2>2. Holder[i] \in Player
    BY CircuitAssumption
  <2>3. XorBits(Player, LAMBDA p : input[p][0][i]) \in Bit
    BY DEF XorBits, Bit
  <2> QED BY <2>1, <2>2, <2>3, PlainIs DEF InputValue
<1>2. 0 \in T
  <2>1. \A s : Known(s, 0 + 1) => s \in InWire
    BY DEF Known
  <2> QED BY <1>1, <2>1
<1>3. ASSUME NEW n \in Nat, n \in T
      PROVE  n + 1 \in T
  <2> SUFFICES ASSUME n + 1 <= NumGate, NEW s, Known(s, (n + 1) + 1)
               PROVE  v[s] \in Bit
    OBVIOUS
  <2> DEFINE g == n + 1
             a == Gates[g].a
             b == Gates[g].b
  <2>1. g \in 1 .. NumGate /\ NumGate \in Nat /\ n <= NumGate
    BY Circuit
  <2>2. \A k : Known(k, g) => v[k] \in Bit
    BY <1>3, <2>1
  <2>3. \A k \in 1 .. ((n + 1) + 1 - 1) : k \in 1 .. (g - 1) \/ k = g
    OBVIOUS
  <2> HIDE DEF g, v, T
  <2>4. Known(s, g) \/ s = Gates[g].c
    BY <2>3 DEF Known
  <2>5. CASE s = Gates[g].c
    <3>1. Known(a, g) /\ Known(b, g) /\ Gates[g].op \in Kind
      BY <2>1, GateIs
    <3> HIDE DEF a, b
    <3>2. v[a] \in Bit /\ v[b] \in Bit
      BY <2>2, <3>1
    <3>3. v[s] = GateValue(v, g)
      BY <2>1, <2>5, PlainIs DEF v
    <3>4. 1 \in Bit
      BY DEF Bit
    <3>5. v[a] * v[b] \in Bit /\ BitXor(v[a], v[b]) \in Bit /\ BitXor(v[a], 1) \in Bit
      BY <3>2, <3>4, BitXorIs
    <3> QED BY <3>1, <3>3, <3>5 DEF GateValue, Kind, a, b
  <2> QED BY <2>2, <2>4, <2>5
<1> HIDE DEF T
<1>4. NumGate \in T
  BY <1>2, <1>3, CountUp, Circuit
<1>5. ASSUME NEW s \in Wire
      PROVE  v[s] \in Bit
  <2>1. NumGate \in Nat /\ \A k \in 1 .. NumGate : k \in 1 .. (NumGate + 1 - 1)
    BY Circuit
  <2>2. Known(s, NumGate + 1)
    BY <2>1, Circuit DEF Known
  <2> QED BY <1>4, <2>1, <2>2 DEF T
<1> QED BY <1>5

-------------------------------------------------------------------------------
(* AND gates before gate n: where the table of one is *)
Ands(n) == Cardinality({ k \in 1 .. (n - 1) : Gates[k].op = "AND" })

(* The count of the AND gates, gate by gate. *)
LEMMA AndsUp ==
  ASSUME NEW n \in Nat \ {0}
  PROVE  /\ Ands(n) \in Nat /\ Ands(1) = 0
         /\ Ands(n + 1) = IF Gates[n].op = "AND" THEN Ands(n) + 1 ELSE Ands(n)
         /\ \A m \in 1 .. n : Ands(m) <= Ands(n)
<1> DEFINE S(k) == { i \in 1 .. (k - 1) : Gates[i].op = "AND" }
<1>1. ASSUME NEW k \in Nat \ {0}
      PROVE  IsFiniteSet(S(k)) /\ Cardinality(S(k)) \in Nat
  <2>1. S(k) \in SUBSET (1 .. (k - 1)) /\ 1 \in Int /\ k - 1 \in Int
    OBVIOUS
  <2>2. IsFiniteSet(1 .. (k - 1))
    BY <2>1, FS_Interval
  <2> HIDE DEF S
  <2>3. IsFiniteSet(S(k))
    BY <2>1, <2>2, FS_Subset
  <2> QED BY <2>3, FS_CardinalityType
<1>2. S(1) = {}
  OBVIOUS
<1>3. S(n + 1) = IF Gates[n].op = "AND" THEN S(n) \cup {n} ELSE S(n)
  <2>1. \A i : i \in 1 .. (n + 1 - 1) <=> i \in 1 .. (n - 1) \/ i = n
    OBVIOUS
  <2>2. CASE Gates[n].op = "AND"
    BY <2>1, <2>2
  <2>3. CASE Gates[n].op # "AND"
    BY <2>1, <2>3
  <2> QED BY <2>2, <2>3
<1>4. n \notin S(n)
  OBVIOUS
<1>5. \A m \in 1 .. n : S(m) \in SUBSET S(n)
  OBVIOUS
<1> HIDE DEF S
<1>6. Cardinality(S(1)) = 0
  BY <1>2, FS_EmptySet
<1>7. Cardinality(S(n + 1)) = IF Gates[n].op = "AND" THEN Cardinality(S(n)) + 1 ELSE Cardinality(S(n))
  BY <1>1, <1>3, <1>4, FS_AddElement
<1>8. \A m \in 1 .. n : Cardinality(S(m)) <= Cardinality(S(n))
  BY <1>1, <1>5, FS_Subset
<1> QED BY <1>1, <1>6, <1>7, <1>8 DEF Ands, S

(* Tables of different AND gates are in different places *)
LEMMA AndsDiffer ==
  ASSUME NEW m \in Nat \ {0}, NEW n \in Nat \ {0}, m < n, Gates[m].op = "AND"
  PROVE  Ands(m) + 1 \in 1 .. Ands(n) /\ Ands(m) \in Nat /\ Ands(n) \in Nat
<1>1. m + 1 \in 1 .. n /\ m + 1 \in Nat \ {0}
  OBVIOUS
<1>2. Ands(m) \in Nat /\ Ands(n) \in Nat /\ Ands(m + 1) = Ands(m) + 1 /\ Ands(m + 1) <= Ands(n)
  BY <1>1, AndsUp
<1> QED BY <1>2

(* Where a loop over the gates is *)
LEMMA Loop ==
  ASSUME Lens = 1, NEW p \in Player, NEW ph, gate[p] \in 1 .. (NumGate + 1)
  PROVE  /\ InLoop(p, ph) => LET n == gate[p] IN
              /\ n \in 1 .. NumGate /\ phase[p] = ph
              /\ GateAt(p) = Gates[n] /\ GateIndex(p) = n - 1
              /\ \A s \in Wire : At(p, s) = s
              /\ Tables(p) = Ands(n)
         /\ LoopEnds(p, ph) => gate[p] = NumGate + 1 /\ phase[p] = ph
<1>1. NumGate \in Nat /\ Lens * NumGate = NumGate
  BY Circuit
<1>2. LoopEnds(p, ph) => gate[p] = NumGate + 1 /\ phase[p] = ph
  BY <1>1 DEF LoopEnds
<1>3. ASSUME InLoop(p, ph)
      PROVE  LET n == gate[p] IN
              /\ n \in 1 .. NumGate /\ phase[p] = ph
              /\ GateAt(p) = Gates[n] /\ GateIndex(p) = n - 1
              /\ \A s \in Wire : At(p, s) = s
              /\ Tables(p) = Ands(n)
  <2> DEFINE n == gate[p]
  <2>1. n \in 1 .. NumGate /\ phase[p] = ph
    BY <1>1, <1>3 DEF InLoop
  <2>2. ASSUME NEW k \in 1 .. NumGate
        PROVE  (k - 1) % NumGate = k - 1 /\ (k - 1) \div NumGate = 0
    <3>1. NumGate \in Nat \ {0} /\ k - 1 \in 0 .. (NumGate - 1) /\ k - 1 = NumGate * 0 + (k - 1)
      BY <1>1
    <3> QED BY <3>1
  <2>3. ((n - 1) % NumGate) + 1 = n
    BY <2>1, <2>2
  <2>4. GateAt(p) = Gates[n] /\ GateIndex(p) = n - 1
    BY <2>1, <2>2, <2>3 DEF GateAt, GateIndex
  <2>5. \A s \in Wire : At(p, s) = s
    <3>1. Stride \in Nat
      BY CircuitAssumption
    <3> QED BY <2>1, <2>2, <3>1, Circuit DEF At
  <2>6. Tables(p) = Ands(n)
    <3>1. ASSUME NEW k \in 1 .. (n - 1)
          PROVE  Gates[((k - 1) % NumGate) + 1] = Gates[k]
      <4>1. k \in 1 .. NumGate
        BY <1>1, <2>1
      <4>2. ((k - 1) % NumGate) + 1 = k
        BY <2>2, <4>1
      <4> QED BY <4>2
    <3>2. { k \in 1 .. (n - 1) : Gates[((k - 1) % NumGate) + 1].op = "AND" }
            = { k \in 1 .. (n - 1) : Gates[k].op = "AND" }
      BY <3>1
    <3> QED BY <3>2 DEF Tables, Ands
  <2> QED BY <2>1, <2>4, <2>5, <2>6
<1> QED BY <1>2, <1>3

-------------------------------------------------------------------------------
(* The invariant *)

Phases == {"mask", "open", "garble", "tables", "input", "lambda", "keys", "labels", "eval", "done"}

(* The phases before a player has sent its tables, inputs and labels *)
Untabled == {"mask", "open", "garble"}
Unsent == Untabled \cup {"tables", "input"}
Unlabelled == Unsent \cup {"lambda", "keys"}

Steps(ph) ==
  CASE ph = "mask" -> 0
    [] ph \in {"open", "garble"} -> 1
    [] ph \in {"tables", "input"} -> 2
    [] ph \in {"lambda", "keys"} -> 3
    [] ph \in {"labels", "eval", "done"} -> 4

(* What the variables are *)
Shapes ==
  /\ mode \in Modes /\ input \in [Player -> InputChoices]
  /\ phase \in [Player -> Phases] /\ gate \in [Player -> 1 .. (NumGate + 1)]
  /\ maskbits \in [Player -> [Wire -> Bit]]
  /\ DOMAIN opened = Player /\ DOMAIN Ks = Player /\ DOMAIN tabs = Player /\ DOMAIN Lambda = Player
  /\ DOMAIN picked = Player /\ DOMAIN res = Player /\ DOMAIN msg = Player
  /\ \A p \in Player :
       /\ DOMAIN Ks[p] = Wire /\ DOMAIN Lambda[p] = Wire /\ DOMAIN picked[p] = Player
       /\ \A k \in Player : DOMAIN picked[p][k] = Wire
       /\ \E S : tabs[p] \in Seq(S)
       /\ \E S : msg[p] \in Seq(S)
       /\ Len(msg[p]) = Steps(phase[p])

(* The mask of a wire, and its value under it *)
Mask(s) == XorBits(Player, LAMBDA q : maskbits[q][s])
Hidden(s) == BitXor(Plain(0)[s], Mask(s))

(* The mask of a gate's wire *)
MaskRule(m, p, g) ==
  LET a == m[Gates[g].a]
      b == m[Gates[g].b]
      c == m[Gates[g].c]
  IN  /\ Gates[g].op = "XOR" => c = BitXor(a, b)
      /\ Gates[g].op = "INV" => c = IF p = 0 THEN BitXor(a, 1) ELSE a

MaskInv(p) == \A g \in 1 .. NumGate : phase[p] # "mask" \/ g < gate[p] => MaskRule(maskbits[p], p, g)

OpenInv(p) ==
  phase[p] \notin {"mask", "open"} =>
    /\ \A q \in Player : phase[q] # "mask"
    /\ \A s \in Wire : opened[p][s] = Mask(s)

(* The labels of a wire *)
Pair(ks, p, s) == ks[s][1] = Xor(ks[s][0], R(p))

KeyRule(ks, p, g) ==
  LET a == ks[Gates[g].a]
      b == ks[Gates[g].b]
      c == ks[Gates[g].c]
  IN  /\ Pair(ks, p, Gates[g].c)
      /\ Gates[g].op = "XOR" => c[0] = Xor(a[0], b[0])
      /\ Gates[g].op = "INV" => c = a

KeyInv(p) ==
  /\ \A s \in InWire : Pair(Ks[p], p, s)
  /\ \A g \in 1 .. NumGate :
       phase[p] \notin Untabled \/ (phase[p] = "garble" /\ g < gate[p]) => KeyRule(Ks[p], p, g)

(* What player q puts into row k of gate g's table for player j *)
RowHash(ks, g, j, k) == Hash(ks[Gates[g].a][k % 2], ks[Gates[g].b][k \div 2], g - 1, j)
RowBit(o, g, k) == BitXor(BitXor(o[Gates[g].a], k % 2) * BitXor(o[Gates[g].b], k \div 2), o[Gates[g].c])
RowKey(ks, o, q, g, k) ==
  LET key == ks[Gates[g].c][0] IN IF RowBit(o, g, k) = 1 THEN Xor(key, R(q)) ELSE key
RowFor(ks, o, q, g, j, k) ==
  IF q = j THEN Xor(RowHash(ks, g, j, k), RowKey(ks, o, q, g, k)) ELSE RowHash(ks, g, j, k)

Rows(g, j, k) == [q \in Player |-> RowFor(Ks[q], opened[q], q, g, j, k)]

Own(t, ks, o, q, g) ==
  \A j \in Player, k \in 0 .. 3 : t[Ands(g) + 1][j][k] = RowFor(ks, o, q, g, j, k)

Joint(p, g) ==
  \A j \in Player, k \in 0 .. 3 : tabs[p][Ands(g) + 1][j][k] = XorAll(Rows(g, j, k))

AndGates == { g \in 1 .. NumGate : Gates[g].op = "AND" }

TabInv(p) ==
  /\ phase[p] \in {"mask", "open"} => tabs[p] = << >>
  /\ phase[p] = "garble" =>
       /\ Len(tabs[p]) = Ands(gate[p])
       /\ \A g \in AndGates : g < gate[p] => Own(tabs[p], Ks[p], opened[p], p, g)
  /\ phase[p] = "tables" =>
       /\ Len(tabs[p]) = Ands(NumGate + 1)
       /\ \A g \in AndGates : Own(tabs[p], Ks[p], opened[p], p, g)
  /\ phase[p] \notin Untabled \cup {"tables"} =>
       /\ \A q \in Player : phase[q] \notin Untabled
       /\ \A g \in AndGates : Joint(p, g)

MsgInv(p) ==
  /\ phase[p] # "mask" => msg[p][1] = maskbits[p]
  /\ phase[p] \notin Untabled => \A g \in AndGates : Own(msg[p][2], Ks[p], opened[p], p, g)
  /\ phase[p] \notin Unsent => \A i \in InWire : msg[p][3][0][i] = Masked(p, 0, i)
  /\ phase[p] \notin Unlabelled => \A i \in InWire : msg[p][4][0][i] = Ks[p][i][Lambda[p][i]]

LamInv(p) ==
  phase[p] \notin Unsent \cup {"lambda"} =>
    /\ \A q \in Player : phase[q] \notin Unsent
    /\ \A i \in InWire : Lambda[p][i] = Hidden(i)

(* What p knows of a wire when it has evaluated it *)
Right(p, s) == Lambda[p][s] = Hidden(s) /\ \A k \in Player : picked[p][k][s] = Ks[k][s][Hidden(s)]

EvalInv(p) ==
  phase[p] \notin Unlabelled \cup {"labels"} =>
    /\ \A q \in Player : phase[q] \notin Unlabelled
    /\ \A s \in InWire : Right(p, s)
    /\ \A g \in 1 .. NumGate : phase[p] = "done" \/ g < gate[p] => Right(p, Gates[g].c)

ResInv(p) == phase[p] = "done" => \A i \in OutWire : res[p][0][i] = OutputBit(p, i)

PlayerInv(p) ==
  /\ MaskInv(p) /\ OpenInv(p) /\ KeyInv(p) /\ TabInv(p) /\ MsgInv(p)
  /\ LamInv(p) /\ EvalInv(p) /\ ResInv(p)

BInv == Shapes /\ \A p \in Player : PlayerInv(p)

-------------------------------------------------------------------------------
(* What a step leaves alone *)

(* A step of player r changes nothing of the others', and nothing that has  *)
(* been sent, and leads to no earlier phase.                                *)
LEMMA StepFrame ==
  ASSUME Shapes, NEW r \in Player, Step(r)
  PROVE  /\ mode' = mode /\ input' = input
         /\ \A p \in Player \ {r} :
              /\ phase'[p] = phase[p] /\ gate'[p] = gate[p] /\ maskbits'[p] = maskbits[p]
              /\ opened'[p] = opened[p] /\ Ks'[p] = Ks[p] /\ tabs'[p] = tabs[p]
              /\ Lambda'[p] = Lambda[p] /\ picked'[p] = picked[p] /\ res'[p] = res[p] /\ msg'[p] = msg[p]
         /\ phase[r] # "mask" => maskbits' = maskbits /\ phase'[r] # "mask"
         /\ phase[r] \notin Untabled => opened' = opened /\ Ks' = Ks /\ phase'[r] \notin Untabled
         /\ phase[r] \notin Unsent => phase'[r] \notin Unsent
         /\ phase[r] \notin Unlabelled => phase'[r] \notin Unlabelled
<1> USE DEF Shapes, Untabled, Unsent, Unlabelled, Goto, Advance, InLoop, LoopEnds, Broadcast
<1>1. CASE MaskGate(r)
  BY <1>1 DEF MaskGate
<1>2. CASE SendMasks(r)
  BY <1>2 DEF SendMasks
<1>3. CASE RecvMasks(r)
  BY <1>3 DEF RecvMasks
<1>4. CASE GarbleGate(r)
  BY <1>4 DEF GarbleGate
<1>5. CASE SendTables(r)
  BY <1>5 DEF SendTables
<1>6. CASE RecvTables(r)
  BY <1>6 DEF RecvTables
<1>7. CASE SendInputs(r)
  BY <1>7 DEF SendInputs
<1>8. CASE RecvInputs(r)
  BY <1>8 DEF RecvInputs
<1>9. CASE SendKeys(r)
  BY <1>9 DEF SendKeys
<1>10. CASE RecvKeys(r)
  BY <1>10 DEF RecvKeys
<1>11. CASE EvalAnd(r)
  BY <1>11 DEF EvalAnd
<1>12. CASE EvalFree(r)
  BY <1>12 DEF EvalFree
<1>13. CASE Output(r)
  BY <1>13 DEF Output
<1> QED BY <1>1, <1>2, <1>3, <1>4, <1>5, <1>6, <1>7, <1>8, <1>9, <1>10, <1>11, <1>12, <1>13 DEF Step

(* The masks of the wires depend on the players' bits only. *)
LEMMA MaskSame ==
  ASSUME maskbits' = maskbits
  PROVE  \A s : Mask(s)' = Mask(s)
BY DEF Mask, XorBits

(* The values of the wires depend on the inputs only. *)
LEMMA PlainSame ==
  ASSUME mode' = mode, input' = input
  PROVE  Plain(0)' = Plain(0)
BY DEF Plain, XorBits

(* The values under their masks depend on both. *)
LEMMA HiddenSame ==
  ASSUME mode' = mode, input' = input, maskbits' = maskbits
  PROVE  \A s : Hidden(s)' = Hidden(s)
BY MaskSame, PlainSame DEF Hidden

(* A joint table stays right while labels and masks stay. *)
LEMMA JointSame ==
  ASSUME Ks' = Ks, opened' = opened, NEW p, tabs'[p] = tabs[p], NEW g, Joint(p, g)
  PROVE  Joint(p, g)'
<1>1. \A j, k : Rows(g, j, k)' = Rows(g, j, k)
  BY DEF Rows
<1>2. \A j, k : XorAll(Rows(g, j, k))' = XorAll(Rows(g, j, k))
  BY <1>1 DEF XorAll, XorBlocks
<1> QED BY <1>2 DEF Joint

(* A step keeps what the others' invariants say *)
LEMMA OthersKeep ==
  ASSUME BInv, NEW r \in Player, Step(r), NEW p \in Player, p # r
  PROVE  PlayerInv(p)'
<1>1. Shapes /\ PlayerInv(p)
  BY DEF BInv
<1>2. /\ mode' = mode /\ input' = input
      /\ phase'[p] = phase[p] /\ gate'[p] = gate[p] /\ maskbits'[p] = maskbits[p]
      /\ opened'[p] = opened[p] /\ Ks'[p] = Ks[p] /\ tabs'[p] = tabs[p]
      /\ Lambda'[p] = Lambda[p] /\ picked'[p] = picked[p] /\ res'[p] = res[p] /\ msg'[p] = msg[p]
  BY <1>1, StepFrame
<1>3. \A q \in Player \ {r} : phase'[q] = phase[q]
  BY <1>1, StepFrame
<1>4. /\ phase[r] # "mask" => maskbits' = maskbits /\ phase'[r] # "mask"
      /\ phase[r] \notin Untabled => opened' = opened /\ Ks' = Ks /\ phase'[r] \notin Untabled
      /\ phase[r] \notin Unsent => phase'[r] \notin Unsent
      /\ phase[r] \notin Unlabelled => phase'[r] \notin Unlabelled
  BY <1>1, StepFrame
<1>5. phase[r] \notin Untabled => phase[r] # "mask"
  BY DEF Untabled
<1>6. phase[r] \notin Unsent => phase[r] \notin Untabled
  BY DEF Unsent
<1>7. phase[r] \notin Unlabelled => phase[r] \notin Unsent
  BY DEF Unlabelled
<1>8. MaskInv(p)'
  BY <1>1, <1>2 DEF PlayerInv, MaskInv
<1>9. OpenInv(p)'
  <2> SUFFICES ASSUME phase[p] \notin {"mask", "open"}
               PROVE  /\ \A q \in Player : phase'[q] # "mask"
                      /\ \A s \in Wire : opened'[p][s] = Mask(s)'
    BY <1>2 DEF OpenInv
  <2>1. /\ \A q \in Player : phase[q] # "mask"
        /\ \A s \in Wire : opened[p][s] = Mask(s)
    BY <1>1 DEF PlayerInv, OpenInv
  <2> QED BY <1>2, <1>3, <1>4, <2>1, MaskSame
<1>10. KeyInv(p)'
  BY <1>1, <1>2 DEF PlayerInv, KeyInv
<1>11. TabInv(p)'
  <2>1. TabInv(p)
    BY <1>1 DEF PlayerInv
  <2>2. ASSUME phase[p] \notin Untabled \cup {"tables"}
        PROVE  /\ \A q \in Player : phase'[q] \notin Untabled
               /\ \A g \in AndGates : Joint(p, g)'
    <3>1. /\ \A q \in Player : phase[q] \notin Untabled
          /\ \A g \in AndGates : Joint(p, g)
      BY <2>1, <2>2 DEF TabInv
    <3>2. opened' = opened /\ Ks' = Ks
      BY <1>4, <3>1
    <3>3. \A g \in AndGates : Joint(p, g)'
      BY <1>2, <3>1, <3>2, JointSame
    <3> QED BY <1>3, <1>4, <3>1, <3>3
  <2> QED BY <1>2, <2>1, <2>2 DEF TabInv
<1>12. MsgInv(p)'
  <2>1. \A i : Masked(p, 0, i)' = Masked(p, 0, i)
    BY <1>2 DEF Masked
  <2> QED BY <1>1, <1>2, <2>1 DEF PlayerInv, MsgInv
<1>13. LamInv(p)'
  <2> SUFFICES ASSUME phase[p] \notin Unsent \cup {"lambda"}
               PROVE  /\ \A q \in Player : phase'[q] \notin Unsent
                      /\ \A i \in InWire : Lambda'[p][i] = Hidden(i)'
    BY <1>2 DEF LamInv
  <2>1. /\ \A q \in Player : phase[q] \notin Unsent
        /\ \A i \in InWire : Lambda[p][i] = Hidden(i)
    BY <1>1 DEF PlayerInv, LamInv
  <2>2. maskbits' = maskbits
    BY <1>4, <1>5, <1>6, <2>1
  <2> QED BY <1>2, <1>3, <1>4, <2>1, <2>2, HiddenSame
<1>14. EvalInv(p)'
  <2> SUFFICES ASSUME phase[p] \notin Unlabelled \cup {"labels"}
               PROVE  /\ \A q \in Player : phase'[q] \notin Unlabelled
                      /\ \A s \in InWire : Right(p, s)'
                      /\ \A g \in 1 .. NumGate : phase[p] = "done" \/ g < gate[p] => Right(p, Gates[g].c)'
    BY <1>2 DEF EvalInv
  <2>1. /\ \A q \in Player : phase[q] \notin Unlabelled
        /\ \A s \in InWire : Right(p, s)
        /\ \A g \in 1 .. NumGate : phase[p] = "done" \/ g < gate[p] => Right(p, Gates[g].c)
    BY <1>1 DEF PlayerInv, EvalInv
  <2>2. maskbits' = maskbits /\ Ks' = Ks
    BY <1>4, <1>5, <1>6, <1>7, <2>1
  <2>3. \A s : Right(p, s)' <=> Right(p, s)
    BY <1>2, <2>2, HiddenSame DEF Right
  <2> QED BY <1>3, <1>4, <2>1, <2>3
<1>15. ResInv(p)'
  BY <1>1, <1>2 DEF PlayerInv, ResInv, OutputBit
<1> QED BY <1>8, <1>9, <1>10, <1>11, <1>12, <1>13, <1>14, <1>15 DEF PlayerInv

(* What a player's own step keeps once it has sent its tables *)
LEMMA EarlyKeep ==
  ASSUME BInv, NEW r \in Player, Step(r), phase[r] \notin Untabled
  PROVE  MaskInv(r)' /\ OpenInv(r)' /\ KeyInv(r)'
<1>1. Shapes /\ MaskInv(r) /\ OpenInv(r) /\ KeyInv(r)
  BY DEF BInv, PlayerInv
<1>2. /\ phase[r] \notin {"mask", "open", "garble"} /\ phase'[r] \notin {"mask", "open", "garble"}
      /\ maskbits' = maskbits /\ opened' = opened /\ Ks' = Ks
      /\ \A q \in Player \ {r} : phase'[q] = phase[q]
  BY <1>1, StepFrame DEF Untabled
<1>3. MaskInv(r)'
  BY <1>1, <1>2 DEF MaskInv
<1>4. OpenInv(r)'
  BY <1>1, <1>2, MaskSame DEF OpenInv
<1>5. KeyInv(r)'
  BY <1>1, <1>2 DEF KeyInv, Untabled
<1> QED BY <1>3, <1>4, <1>5

(* A new message *)
LEMMA Appended ==
  ASSUME NEW s, \E S : s \in Seq(S), NEW m, NEW n \in Nat, Len(s) = n
  PROVE  /\ \E S : Append(s, m) \in Seq(S)
         /\ Len(Append(s, m)) = n + 1 /\ Append(s, m)[n + 1] = m
         /\ \A i \in 1 .. n : Append(s, m)[i] = s[i]
<1>1. PICK S : s \in Seq(S)
  OBVIOUS
<1>2. Append(s, m) \in Seq(S \cup {m})
  BY <1>1
<1>3. \E T : Append(s, m) \in Seq(T)
  BY <1>2
<1>4. /\ Len(Append(s, m)) = n + 1 /\ Append(s, m)[n + 1] = m
      /\ \A i \in 1 .. n : Append(s, m)[i] = s[i]
  BY <1>1
<1> QED BY <1>3, <1>4

(* The variables of the other players keep their shapes. *)
LEMMA StepShapes ==
  ASSUME Shapes, NEW r \in Player, Step(r),
         phase' \in [Player -> Phases], gate' \in [Player -> 1 .. (NumGate + 1)],
         maskbits' \in [Player -> [Wire -> Bit]],
         DOMAIN opened' = Player, DOMAIN Ks' = Player, DOMAIN tabs' = Player, DOMAIN Lambda' = Player,
         DOMAIN picked' = Player, DOMAIN res' = Player, DOMAIN msg' = Player,
         DOMAIN Ks'[r] = Wire, DOMAIN Lambda'[r] = Wire, DOMAIN picked'[r] = Player,
         \A k \in Player : DOMAIN picked'[r][k] = Wire,
         \E S : tabs'[r] \in Seq(S),
         \E S : msg'[r] \in Seq(S),
         Len(msg'[r]) = Steps(phase'[r])
  PROVE  Shapes'
<1>1. mode' = mode /\ input' = input
  BY StepFrame
<1>2. ASSUME NEW p \in Player
      PROVE  /\ DOMAIN Ks'[p] = Wire /\ DOMAIN Lambda'[p] = Wire /\ DOMAIN picked'[p] = Player
             /\ \A k \in Player : DOMAIN picked'[p][k] = Wire
             /\ \E S : tabs'[p] \in Seq(S)
             /\ \E S : msg'[p] \in Seq(S)
             /\ Len(msg'[p]) = Steps(phase'[p])
  <2>1. CASE p = r
    BY <2>1
  <2>2. CASE p # r
    <3>1. /\ phase'[p] = phase[p] /\ Ks'[p] = Ks[p] /\ tabs'[p] = tabs[p]
          /\ Lambda'[p] = Lambda[p] /\ picked'[p] = picked[p] /\ msg'[p] = msg[p]
      BY <2>2, StepFrame
    <3>2. Steps(phase'[p]) = Steps(phase[p])
      BY <3>1
    <3> QED BY <3>1, <3>2 DEF Shapes
  <2> QED BY <2>1, <2>2
<1>3. Steps(phase'[r]) = Steps(phase[r])'
  BY DEF Steps
<1> QED BY <1>1, <1>2 DEF Shapes, Steps

(* Bits of the state *)
LEMMA MaskBits ==
  ASSUME Shapes
  PROVE  /\ \A q \in Player, s \in Wire : maskbits[q][s] \in Bit
         /\ \A s : Mask(s) \in Bit
<1>1. \A s : Mask(s) \in Bit
  BY DEF Mask, XorBits, Bit
<1> QED BY <1>1 DEF Shapes

-------------------------------------------------------------------------------
(* Offline: masks *)

(* What a player's invariant does not yet ask for in its phase *)
LEMMA NotYet ==
  ASSUME NEW r \in Player
  PROVE  /\ phase'[r] \in Unsent \cup {"lambda"} => LamInv(r)'
         /\ phase'[r] \in Unlabelled \cup {"labels"} => EvalInv(r)'
         /\ phase'[r] # "done" => ResInv(r)'
         /\ phase'[r] \in Untabled => phase'[r] \in Unsent /\ phase'[r] # "done"
         /\ phase'[r] \in Unsent => phase'[r] \in Unlabelled /\ phase'[r] # "done"
         /\ phase'[r] \in Unlabelled => phase'[r] # "done"
BY DEF LamInv, EvalInv, ResInv, Untabled, Unsent, Unlabelled

(* A gate's wire is none of those of an earlier gate, and no input *)
LEMMA Fresh ==
  ASSUME Lens = 1, NEW n \in 1 .. NumGate
  PROVE  /\ \A i \in InWire : i # Gates[n].c
         /\ Gates[n].a # Gates[n].c /\ Gates[n].b # Gates[n].c
         /\ \A g \in 1 .. NumGate : g < n =>
              Gates[g].a # Gates[n].c /\ Gates[g].b # Gates[n].c /\ Gates[g].c # Gates[n].c
         /\ \A g \in 1 .. NumGate : Gates[g].c = Gates[n].c => g = n
<1>1. NumGate \in Nat
  BY Circuit
<1>2. \A i \in InWire : i # Gates[n].c
  BY GateIs
<1>3. ASSUME NEW g \in 1 .. NumGate, g <= n, NEW s, Known(s, g)
      PROVE  s # Gates[n].c
  <2>1. CASE s \in InWire
    BY <1>2, <2>1
  <2>2. CASE s \notin InWire
    <3>1. PICK h \in 1 .. (g - 1) : Gates[h].c = s
      BY <1>3, <2>2 DEF Known
    <3>2. h \in 1 .. NumGate /\ h # n
      BY <1>1, <1>3
    <3> QED BY <3>1, <3>2, Written
  <2> QED BY <2>1, <2>2
<1>4. ASSUME NEW g \in 1 .. NumGate, g <= n
      PROVE  Gates[g].a # Gates[n].c /\ Gates[g].b # Gates[n].c
  BY <1>3, <1>4, GateIs
<1>5. Gates[n].a # Gates[n].c /\ Gates[n].b # Gates[n].c
  <2>1. n <= n
    BY <1>1
  <2> QED BY <1>4, <2>1
<1>6. ASSUME NEW g \in 1 .. NumGate, g < n
      PROVE  Gates[g].a # Gates[n].c /\ Gates[g].b # Gates[n].c /\ Gates[g].c # Gates[n].c
  <2>1. g <= n /\ g # n
    BY <1>1, <1>6
  <2> QED BY <1>4, <2>1, Written
<1>7. \A g \in 1 .. NumGate : Gates[g].c = Gates[n].c => g = n
  BY Written
<1> QED BY <1>2, <1>5, <1>6, <1>7

(* The wires of the earlier gates are not written again, so their masks     *)
(* stay in rule.                                                            *)
LEMMA MaskGateKeeps ==
  ASSUME Lens = 1, BInv, NEW r \in Player, MaskGate(r)
  PROVE  Shapes' /\ PlayerInv(r)'
<1> DEFINE n == gate[r]
           c == Gates[n].c
           m == maskbits[r]
           v == GateMask(r, m)
<1>1. Shapes /\ PlayerInv(r)
  BY DEF BInv
<1>2. gate[r] \in 1 .. (NumGate + 1) /\ NumGate \in Nat
  BY <1>1, Circuit DEF Shapes
<1>3. /\ n \in 1 .. NumGate /\ phase[r] = "mask" /\ GateAt(r) = Gates[n]
      /\ \A s \in Wire : At(r, s) = s
  BY <1>2, Loop DEF MaskGate
<1>4. /\ Gates[n].a \in Wire /\ Gates[n].b \in Wire /\ c \in Wire /\ Gates[n].op \in {"AND", "XOR", "INV"}
  BY <1>3, GateIs DEF Kind
<1>5. maskbits' = [maskbits EXCEPT ![r][c] = v]
  BY <1>3, <1>4 DEF MaskGate
<1>6. /\ Gates[n].op = "XOR" => v = BitXor(m[Gates[n].a], m[Gates[n].b])
      /\ Gates[n].op = "INV" => v = IF r = 0 THEN BitXor(m[Gates[n].a], 1) ELSE m[Gates[n].a]
      /\ Gates[n].op = "AND" => v = m[c]
  BY <1>3, <1>4 DEF GateMask
<1>7. m \in [Wire -> Bit]
  BY <1>1 DEF Shapes
<1> HIDE DEF v, m, c
<1>8. v \in Bit
  <2>1. 1 \in Bit
    BY DEF Bit
  <2> QED BY <1>4, <1>6, <1>7, <2>1, BitXorIs
<1>9. /\ phase' = phase /\ gate' = [gate EXCEPT ![r] = n + 1]
      /\ UNCHANGED <<mode, input, opened, Ks, tabs, Lambda, picked, res, msg>>
  BY DEF MaskGate, Advance
<1>10. maskbits'[r] = [m EXCEPT ![c] = v]
  BY <1>1, <1>5 DEF Shapes, m
<1>11. Shapes'
  <2>1. maskbits' \in [Player -> [Wire -> Bit]]
    BY <1>1, <1>5, <1>8 DEF Shapes
  <2>2. gate' \in [Player -> 1 .. (NumGate + 1)]
    <3>1. n + 1 \in 1 .. (NumGate + 1)
      BY <1>2, <1>3
    <3> HIDE DEF n
    <3> QED BY <1>1, <1>9, <3>1 DEF Shapes
  <2>3. Step(r)
    BY DEF Step
  <2> QED BY <1>1, <1>9, <2>1, <2>2, <2>3, StepShapes DEF Shapes
<1>12. phase'[r] = "mask" /\ gate'[r] = n + 1
  BY <1>1, <1>3, <1>9 DEF Shapes
<1>13. MaskInv(r)'
  <2> SUFFICES ASSUME NEW g \in 1 .. NumGate, g < n + 1
               PROVE  MaskRule(maskbits'[r], r, g)
    BY <1>12 DEF MaskInv, MaskRule
  <2>1. CASE g = n
    <3>1. Gates[n].a # c /\ Gates[n].b # c
      BY <1>3, Fresh DEF c
    <3>2. maskbits'[r][Gates[n].a] = m[Gates[n].a] /\ maskbits'[r][Gates[n].b] = m[Gates[n].b]
      BY <1>10, <1>4, <1>7, <3>1
    <3>3. maskbits'[r][Gates[n].c] = v
      BY <1>10, <1>4, <1>7 DEF c
    <3> QED BY <1>6, <2>1, <3>2, <3>3 DEF MaskRule
  <2>2. CASE g # n
    <3>1. g < n
      BY <1>3, <2>2
    <3>2. Gates[g].a # c /\ Gates[g].b # c /\ Gates[g].c # c
      BY <1>3, <3>1, Fresh DEF c
    <3>3. Gates[g].a \in Wire /\ Gates[g].b \in Wire /\ Gates[g].c \in Wire
      BY GateIs
    <3>4. MaskRule(m, r, g)
      BY <1>1, <3>1 DEF PlayerInv, MaskInv, m
    <3>5. /\ maskbits'[r][Gates[g].a] = m[Gates[g].a] /\ maskbits'[r][Gates[g].b] = m[Gates[g].b]
          /\ maskbits'[r][Gates[g].c] = m[Gates[g].c]
      BY <1>10, <1>7, <3>2, <3>3
    <3> QED BY <3>4, <3>5 DEF MaskRule
  <2> QED BY <2>1, <2>2
<1>14. OpenInv(r)' /\ TabInv(r)' /\ MsgInv(r)'
  BY <1>1, <1>3, <1>9, <1>12 DEF PlayerInv, OpenInv, TabInv, MsgInv, Untabled, Unsent, Unlabelled
<1>15. KeyInv(r)'
  BY <1>1, <1>3, <1>9, <1>12 DEF PlayerInv, KeyInv, Untabled, Pair
<1>16. LamInv(r)' /\ EvalInv(r)' /\ ResInv(r)'
  BY <1>12, NotYet DEF Untabled
<1> QED BY <1>11, <1>13, <1>14, <1>15, <1>16 DEF PlayerInv

(* A player that has masked all gates sends bits that never change again. *)
LEMMA SendMasksKeeps ==
  ASSUME Lens = 1, BInv, NEW r \in Player, SendMasks(r)
  PROVE  Shapes' /\ PlayerInv(r)'
<1>1. Shapes /\ PlayerInv(r)
  BY DEF BInv
<1>2. gate[r] \in 1 .. (NumGate + 1) /\ NumGate \in Nat
  BY <1>1, Circuit DEF Shapes
<1>3. phase[r] = "mask" /\ gate[r] = NumGate + 1
  BY <1>2, Loop DEF SendMasks
<1>4. /\ phase' = [phase EXCEPT ![r] = "open"] /\ gate' = [gate EXCEPT ![r] = 1]
      /\ msg' = [msg EXCEPT ![r] = Append(@, maskbits[r])]
      /\ UNCHANGED <<mode, input, maskbits, opened, Ks, tabs, Lambda, picked, res>>
  BY DEF SendMasks, Broadcast, Goto
<1>5. phase'[r] = "open" /\ msg'[r] = Append(msg[r], maskbits[r])
  BY <1>1, <1>4 DEF Shapes
<1>6. \E S : msg[r] \in Seq(S)
  BY <1>1 DEF Shapes
<1>7. Len(msg[r]) = 0
  BY <1>1, <1>3 DEF Shapes, Steps
<1>8. (\E S : msg'[r] \in Seq(S)) /\ Len(msg'[r]) = 1 /\ msg'[r][1] = maskbits[r]
  <2> DEFINE s == msg[r]
             m == maskbits[r]
  <2>1. (\E S : s \in Seq(S)) /\ Len(s) = 0 /\ 0 \in Nat
    BY <1>6, <1>7
  <2>2. msg'[r] = Append(s, m)
    BY <1>5
  <2> HIDE DEF s, m
  <2>3. (\E S : Append(s, m) \in Seq(S)) /\ Len(Append(s, m)) = 0 + 1 /\ Append(s, m)[0 + 1] = m
    BY <2>1, Appended
  <2> QED BY <2>2, <2>3 DEF m
<1>9. Shapes'
  <2>1. Step(r)
    BY DEF Step
  <2>2. phase' \in [Player -> Phases] /\ gate' \in [Player -> 1 .. (NumGate + 1)] /\ DOMAIN msg' = Player
    BY <1>1, <1>2, <1>4 DEF Shapes, Phases
  <2>3. Len(msg'[r]) = Steps(phase'[r])
    BY <1>5, <1>8 DEF Steps
  <2> QED BY <1>1, <1>4, <1>8, <2>1, <2>2, <2>3, StepShapes DEF Shapes
<1>10. MaskInv(r)'
  <2>1. \A g \in 1 .. NumGate : MaskRule(maskbits[r], r, g)
    BY <1>1, <1>2, <1>3 DEF PlayerInv, MaskInv
  <2> QED BY <1>4, <2>1 DEF MaskInv
<1>11. OpenInv(r)' /\ TabInv(r)' /\ KeyInv(r)'
  BY <1>1, <1>3, <1>4, <1>5 DEF PlayerInv, OpenInv, TabInv, KeyInv, Untabled, Pair
<1>12. MsgInv(r)'
  BY <1>4, <1>5, <1>8 DEF MsgInv, Untabled, Unsent, Unlabelled
<1>13. LamInv(r)' /\ EvalInv(r)' /\ ResInv(r)'
  BY <1>5, NotYet DEF Untabled
<1> QED BY <1>9, <1>10, <1>11, <1>12, <1>13 DEF PlayerInv

(* Who waits for a message of the others knows their phases *)
LEMMA Heard ==
  ASSUME Shapes, NEW r \in Player, NEW q \in Player, q # r, NEW step \in 1 .. 4, AllSent(r, step)
  PROVE  /\ phase[q] # "mask"
         /\ step > 1 => phase[q] \notin Untabled
         /\ step > 2 => phase[q] \notin Unsent
         /\ step > 3 => phase[q] \notin Unlabelled
<1>1. Len(msg[q]) >= step
  BY DEF AllSent, Sent, Others
<1>2. phase[q] \in Phases /\ Len(msg[q]) = Steps(phase[q])
  BY DEF Shapes
<1>3. phase[q] = "mask" => Steps(phase[q]) = 0
  BY DEF Steps
<1>4. phase[q] \in Untabled => Steps(phase[q]) \in 0 .. 1
  BY DEF Steps, Untabled
<1>5. phase[q] \in Unsent => Steps(phase[q]) \in 0 .. 2
  BY DEF Steps, Unsent, Untabled
<1>6. phase[q] \in Unlabelled => Steps(phase[q]) \in 0 .. 3
  BY DEF Steps, Unlabelled, Unsent, Untabled
<1> QED BY <1>1, <1>2, <1>3, <1>4, <1>5, <1>6

(* With the bits of all players the mask of every wire is opened. *)
LEMMA RecvMasksKeeps ==
  ASSUME Lens = 1, BInv, NEW r \in Player, RecvMasks(r)
  PROVE  Shapes' /\ PlayerInv(r)'
<1>1. Shapes /\ \A q \in Player : PlayerInv(q)
  BY DEF BInv
<1>2. NumGate \in Nat /\ Slot = Wire
  BY Circuit
<1>3. phase[r] = "open" /\ AllSent(r, 1)
  BY DEF RecvMasks
<1>4. /\ phase' = [phase EXCEPT ![r] = "garble"] /\ gate' = [gate EXCEPT ![r] = 1]
      /\ UNCHANGED <<mode, input, maskbits, Ks, tabs, Lambda, picked, res, msg>>
  BY DEF RecvMasks, Goto
<1>5. phase'[r] = "garble" /\ gate'[r] = 1
  BY <1>1, <1>4 DEF Shapes
<1>6. \A q \in Player : q # r => phase[q] # "mask" /\ msg[q][1] = maskbits[q]
  <2> SUFFICES ASSUME NEW q \in Player, q # r
               PROVE  phase[q] # "mask" /\ msg[q][1] = maskbits[q]
    OBVIOUS
  <2>1. phase[q] # "mask"
    BY <1>1, <1>3, Heard
  <2> QED BY <1>1, <2>1 DEF PlayerInv, MsgInv
<1> DEFINE mask(q, s) == IF q = r THEN maskbits[r][s] ELSE msg[q][1][s]
<1>7. \A s : XorBits(Player, LAMBDA q : mask(q, s)) = Mask(s)
  <2>1. \A s, q : q \in Player => mask(q, s) = maskbits[q][s]
    BY <1>6
  <2> HIDE DEF mask
  <2>2. \A s : { q \in Player : mask(q, s) = 1 } = { q \in Player : maskbits[q][s] = 1 }
    BY <2>1
  <2> QED BY <2>2 DEF Mask, XorBits
<1>8. opened' = [opened EXCEPT ![r] = [s \in Slot |-> XorBits(Player, LAMBDA q : mask(q, s))]]
  BY DEF RecvMasks, XorBits
<1> HIDE DEF mask
<1>9. DOMAIN opened' = Player /\ \A s \in Wire : opened'[r][s] = Mask(s)
  BY <1>1, <1>2, <1>7, <1>8 DEF Shapes
<1>10. Shapes'
  <2>1. Step(r)
    BY DEF Step
  <2>2. phase' \in [Player -> Phases] /\ gate' \in [Player -> 1 .. (NumGate + 1)]
    BY <1>1, <1>2, <1>4 DEF Shapes, Phases
  <2>3. Steps(phase'[r]) = Steps(phase[r])
    BY <1>3, <1>5 DEF Steps
  <2> QED BY <1>1, <1>4, <1>9, <2>1, <2>2, <2>3, StepShapes DEF Shapes
<1>11. MaskInv(r)'
  BY <1>1, <1>3, <1>4 DEF PlayerInv, MaskInv
<1>12. OpenInv(r)'
  <2>1. \A q \in Player : phase'[q] # "mask"
    BY <1>1, <1>4, <1>5, <1>6 DEF Shapes
  <2>2. \A s : Mask(s)' = Mask(s)
    BY <1>4, MaskSame
  <2> QED BY <1>9, <2>1, <2>2 DEF OpenInv
<1>13. KeyInv(r)'
  BY <1>1, <1>3, <1>4, <1>5 DEF PlayerInv, KeyInv, Untabled, Pair
<1>14. TabInv(r)'
  <2>1. tabs'[r] = << >>
    BY <1>1, <1>3, <1>4 DEF PlayerInv, TabInv
  <2>2. Ands(1) = 0 /\ Len(<< >>) = 0
    BY AndsUp
  <2>3. \A g \in AndGates : ~(g < 1)
    BY DEF AndGates
  <2>4. phase'[r] \notin {"mask", "open", "tables"} /\ phase'[r] \in Untabled
    BY <1>5 DEF Untabled
  <2> QED BY <1>5, <2>1, <2>2, <2>3, <2>4 DEF TabInv
<1>15. MsgInv(r)'
  BY <1>1, <1>3, <1>4, <1>5 DEF PlayerInv, MsgInv, Untabled, Unsent, Unlabelled
<1>16. LamInv(r)' /\ EvalInv(r)' /\ ResInv(r)'
  BY <1>5, NotYet DEF Untabled
<1> QED BY <1>10, <1>11, <1>12, <1>13, <1>14, <1>15, <1>16 DEF PlayerInv

-------------------------------------------------------------------------------
(* Offline: labels and tables *)

(* What a broadcast adds *)
LEMMA Sends ==
  ASSUME Shapes, NEW r \in Player, NEW m, Broadcast(r, m), NEW n \in Nat, Steps(phase[r]) = n
  PROVE  /\ DOMAIN msg' = Player
         /\ \E S : msg'[r] \in Seq(S)
         /\ Len(msg'[r]) = n + 1 /\ msg'[r][n + 1] = m
         /\ \A i \in 1 .. n : msg'[r][i] = msg[r][i]
<1> DEFINE s == msg[r]
<1>1. DOMAIN msg' = Player /\ msg'[r] = Append(s, m)
  BY DEF Shapes, Broadcast
<1>2. (\E S : s \in Seq(S)) /\ Len(s) = n
  BY DEF Shapes
<1> HIDE DEF s
<1>3. /\ \E S : Append(s, m) \in Seq(S)
      /\ Len(Append(s, m)) = n + 1 /\ Append(s, m)[n + 1] = m
  BY <1>2, Appended
<1>4. \A i \in 1 .. n : Append(s, m)[i] = s[i]
  BY <1>2, Appended
<1> QED BY <1>1, <1>3, <1>4 DEF s

(* The labels that a gate reads are paired when it is garbled *)
LEMMA PairBelow ==
  ASSUME Lens = 1, NEW r \in Player, KeyInv(r), phase[r] = "garble", NEW n \in 1 .. NumGate, n = gate[r],
         NEW s, Known(s, n)
  PROVE  Pair(Ks[r], r, s)
<1>1. CASE s \in InWire
  BY <1>1 DEF KeyInv
<1>2. CASE s \notin InWire
  <2>1. PICK g \in 1 .. (n - 1) : Gates[g].c = s
    BY <1>2 DEF Known
  <2>2. g \in 1 .. NumGate /\ g < n
    BY Circuit
  <2> QED BY <2>1, <2>2 DEF KeyInv, KeyRule
<1> QED BY <1>1, <1>2

(* The row a player computes *)
LEMMA RowIs ==
  ASSUME Lens = 1, NEW r \in Player, NEW n \in 1 .. NumGate,
         GateAt(r) = Gates[n], GateIndex(r) = n - 1, \A s \in Wire : At(r, s) = s,
         Ks'[r][Gates[n].a] = Ks[r][Gates[n].a], Ks'[r][Gates[n].b] = Ks[r][Gates[n].b]
  PROVE  \A j, k : Row(r, Ks'[r][Gates[n].c][0], j, k) = RowFor(Ks'[r], opened[r], r, n, j, k)
<1>1. At(r, Gates[n].a) = Gates[n].a /\ At(r, Gates[n].b) = Gates[n].b /\ At(r, Gates[n].c) = Gates[n].c
  BY GateIs
<1> SUFFICES ASSUME NEW j, NEW k
             PROVE  Row(r, Ks'[r][Gates[n].c][0], j, k) = RowFor(Ks'[r], opened[r], r, n, j, k)
  OBVIOUS
<1>2. SBit(r, k % 2, k \div 2) = RowBit(opened[r], n, k)
  BY <1>1 DEF SBit, RowBit
<1>3. Hash(Ks[r][At(r, GateAt(r).a)][k % 2], Ks[r][At(r, GateAt(r).b)][k \div 2], GateIndex(r), j) = RowHash(Ks'[r], n, j, k)
  BY <1>1 DEF RowHash
<1> QED BY <1>2, <1>3 DEF Row, RowFor, RowKey

(* A gate's labels are paired as those of its inputs are, and its rows are  *)
(* the last ones of the table.                                              *)
LEMMA GarbleGateKeeps ==
  ASSUME Lens = 1, BInv, NEW r \in Player, GarbleGate(r)
  PROVE  Shapes' /\ PlayerInv(r)'
<1> DEFINE n == gate[r]
           a == Gates[n].a
           b == Gates[n].b
           c == Gates[n].c
           ks == Ks[r]
           key == GateKey(r)
           table == [j \in Player |-> [k \in 0 .. 3 |-> Row(r, key[0], j, k)]]
<1>1. Shapes /\ PlayerInv(r)
  BY DEF BInv
<1>2. gate[r] \in 1 .. (NumGate + 1) /\ NumGate \in Nat
  BY <1>1, Circuit DEF Shapes
<1>3. /\ n \in 1 .. NumGate /\ phase[r] = "garble" /\ GateAt(r) = Gates[n]
      /\ \A s \in Wire : At(r, s) = s
      /\ GateIndex(r) = n - 1
  BY <1>2, Loop DEF GarbleGate
<1>4. a \in Wire /\ b \in Wire /\ c \in Wire /\ Gates[n].op \in {"AND", "XOR", "INV"} /\ Known(a, n) /\ Known(b, n)
  BY <1>3, GateIs DEF Kind
<1>5. /\ Ks' = [Ks EXCEPT ![r][c] = key]
      /\ tabs' = IF Gates[n].op = "AND" THEN [tabs EXCEPT ![r] = Append(@, table)] ELSE tabs
      /\ phase' = phase /\ gate' = [gate EXCEPT ![r] = n + 1]
      /\ UNCHANGED <<mode, input, maskbits, opened, Lambda, picked, res, msg>>
  BY <1>3, <1>4 DEF GarbleGate, Advance
<1>6. DOMAIN ks = Wire /\ DOMAIN Ks' = Player /\ Ks'[r] = [ks EXCEPT ![c] = key]
  BY <1>1, <1>5 DEF Shapes
<1>7. a # c /\ b # c
  BY <1>3, Fresh
<1>8. Ks'[r][c] = key /\ \A s \in Wire : s # c => Ks'[r][s] = ks[s]
  BY <1>4, <1>6
<1>9. /\ key[1] = Xor(key[0], R(r))
      /\ Gates[n].op = "XOR" => key[0] = Xor(ks[a][0], ks[b][0])
      /\ Gates[n].op = "INV" => key = ks[a]
  <2>1. 0 \in Bit /\ 1 \in Bit /\ 1 # 0
    BY DEF Bit
  <2>2. Pair(Ks[r], r, a)
    BY <1>1, <1>3, <1>4, PairBelow DEF PlayerInv
  <2>3. CASE Gates[n].op = "AND"
    BY <1>3, <2>1, <2>3 DEF GateKey
  <2>4. CASE Gates[n].op = "XOR"
    BY <1>3, <1>4, <2>1, <2>4 DEF GateKey
  <2>5. CASE Gates[n].op = "INV"
    BY <1>3, <1>4, <2>1, <2>2, <2>5 DEF GateKey, Pair
  <2> QED BY <1>4, <2>3, <2>4, <2>5
<1>10. phase'[r] = "garble" /\ gate'[r] = n + 1
  BY <1>1, <1>3, <1>5 DEF Shapes
<1>11. \A j \in Player, k \in 0 .. 3 : table[j][k] = RowFor(Ks'[r], opened[r], r, n, j, k)
  <2>1. Ks'[r][c][0] = key[0] /\ Ks'[r][a] = Ks[r][a] /\ Ks'[r][b] = Ks[r][b]
    BY <1>4, <1>7, <1>8
  <2>2. \A j, k : Row(r, Ks'[r][c][0], j, k) = RowFor(Ks'[r], opened[r], r, n, j, k)
    <3> HIDE DEF n
    <3> QED BY <1>3, <2>1, RowIs
  <2> QED BY <2>1, <2>2
<1>12. ASSUME NEW g \in 1 .. NumGate, g < n
       PROVE  /\ Ks'[r][Gates[g].a] = ks[Gates[g].a] /\ Ks'[r][Gates[g].b] = ks[Gates[g].b]
              /\ Ks'[r][Gates[g].c] = ks[Gates[g].c]
  <2>1. Gates[g].a # c /\ Gates[g].b # c /\ Gates[g].c # c
    BY <1>3, <1>12, Fresh
  <2>2. Gates[g].a \in Wire /\ Gates[g].b \in Wire /\ Gates[g].c \in Wire
    BY GateIs
  <2> QED BY <1>8, <2>1, <2>2
<1>13. (\E S : tabs'[r] \in Seq(S)) /\ DOMAIN tabs' = Player
       /\ (Gates[n].op = "AND" =>
             /\ Len(tabs'[r]) = Ands(n) + 1 /\ tabs'[r][Ands(n) + 1] = table
             /\ \A i \in 1 .. Ands(n) : tabs'[r][i] = tabs[r][i])
       /\ (Gates[n].op # "AND" => tabs'[r] = tabs[r])
  <2> DEFINE s == tabs[r]
             x == Ands(n)
  <2>1. (\E S : s \in Seq(S)) /\ Len(s) = x
    BY <1>1, <1>3 DEF Shapes, PlayerInv, TabInv
  <2>2. x \in Nat
    BY <1>3, AndsUp
  <2> HIDE DEF table, n
  <2>3. DOMAIN tabs' = Player /\ tabs'[r] = IF Gates[n].op = "AND" THEN Append(s, table) ELSE s
    BY <1>1, <1>5 DEF Shapes
  <2> HIDE DEF s, x
  <2>4. /\ \E S : Append(s, table) \in Seq(S)
        /\ Len(Append(s, table)) = x + 1 /\ Append(s, table)[x + 1] = table
    BY <2>1, <2>2, Appended
  <2>5. \A i \in 1 .. x : Append(s, table)[i] = s[i]
    BY <2>1, <2>2, Appended
  <2> QED BY <2>1, <2>3, <2>4, <2>5 DEF s, x
<1> HIDE DEF key, table
<1>14. Shapes'
  <2>1. Step(r)
    BY DEF Step
  <2>2. gate' \in [Player -> 1 .. (NumGate + 1)]
    <3>1. n + 1 \in 1 .. (NumGate + 1)
      BY <1>2, <1>3
    <3> HIDE DEF n
    <3> QED BY <1>1, <1>5, <3>1 DEF Shapes
  <2>3. DOMAIN Ks'[r] = Wire
    BY <1>6
  <2> QED BY <1>1, <1>5, <1>6, <1>13, <2>1, <2>2, <2>3, StepShapes DEF Shapes
<1>15. MaskInv(r)' /\ OpenInv(r)'
  BY <1>1, <1>3, <1>5, MaskSame DEF PlayerInv, MaskInv, OpenInv
<1>16. KeyInv(r)'
  <2>1. ASSUME NEW s \in InWire PROVE Pair(Ks'[r], r, s)
    <3>1. s # c /\ s \in Wire
      BY <1>3, Fresh, Circuit
    <3>2. Pair(ks, r, s)
      BY <1>1 DEF PlayerInv, KeyInv
    <3> QED BY <1>8, <3>1, <3>2 DEF Pair
  <2>2. ASSUME NEW g \in 1 .. NumGate, g < n + 1
        PROVE  KeyRule(Ks'[r], r, g)
    <3>1. CASE g = n
      <4>1. Ks'[r][a] = ks[a] /\ Ks'[r][b] = ks[b]
        BY <1>4, <1>7, <1>8
      <4> QED BY <1>8, <1>9, <3>1, <4>1 DEF KeyRule, Pair
    <3>2. CASE g # n
      <4>1. g < n
        BY <1>3, <2>2, <3>2
      <4>2. KeyRule(ks, r, g)
        BY <1>1, <1>3, <4>1 DEF PlayerInv, KeyInv
      <4> QED BY <1>12, <4>1, <4>2 DEF KeyRule, Pair
    <3> QED BY <3>1, <3>2
  <2>3. \A g : KeyRule(Ks[r], r, g)' <=> KeyRule(Ks'[r], r, g)
    BY DEF KeyRule, Pair
  <2>4. \A s : Pair(Ks[r], r, s)' <=> Pair(Ks'[r], r, s)
    BY DEF Pair
  <2>5. phase'[r] \in Untabled
    BY <1>10 DEF Untabled
  <2> QED BY <1>10, <2>1, <2>2, <2>3, <2>4, <2>5 DEF KeyInv
<1>17. TabInv(r)'
  <2>1. Ands(n) \in Nat /\ Ands(n + 1) = IF Gates[n].op = "AND" THEN Ands(n) + 1 ELSE Ands(n)
    BY <1>3, AndsUp
  <2>2. Len(tabs[r]) = Ands(n) /\ \A g \in AndGates : g < n => Own(tabs[r], ks, opened[r], r, g)
    BY <1>1, <1>3 DEF PlayerInv, TabInv
  <2>3. Len(tabs'[r]) = Ands(n + 1)
    BY <1>13, <2>1, <2>2
  <2>4. ASSUME NEW g \in AndGates, g < n + 1
        PROVE  Own(tabs'[r], Ks'[r], opened[r], r, g)
    <3>1. g \in 1 .. NumGate /\ Gates[g].op = "AND"
      BY DEF AndGates
    <3>2. CASE g = n
      BY <1>11, <1>13, <3>1, <3>2 DEF Own
    <3>3. CASE g # n
      <4>1. g < n
        BY <1>3, <2>4, <3>1, <3>3
      <4>2. Own(tabs[r], ks, opened[r], r, g)
        BY <2>2, <4>1
      <4>3. Ands(g) + 1 \in 1 .. Ands(n)
        BY <1>3, <3>1, <4>1, AndsDiffer
      <4>4. tabs'[r][Ands(g) + 1] = tabs[r][Ands(g) + 1]
        BY <1>13, <4>3
      <4>5. \A j, k : RowFor(Ks'[r], opened[r], r, g, j, k) = RowFor(ks, opened[r], r, g, j, k)
        BY <1>12, <3>1, <4>1 DEF RowFor, RowHash, RowKey
      <4> QED BY <4>2, <4>4, <4>5 DEF Own
    <3> QED BY <3>2, <3>3
  <2>5. phase'[r] \in Untabled
    BY <1>10 DEF Untabled
  <2>6. \A g : Own(tabs[r], Ks[r], opened[r], r, g)' <=> Own(tabs'[r], Ks'[r], opened'[r], r, g)
    BY DEF Own, RowFor, RowHash, RowKey
  <2> HIDE DEF n
  <2> QED BY <1>5, <1>10, <2>3, <2>4, <2>5, <2>6 DEF TabInv
<1>18. MsgInv(r)'
  BY <1>1, <1>3, <1>5, <1>10 DEF PlayerInv, MsgInv, Untabled, Unsent, Unlabelled
<1>19. LamInv(r)' /\ EvalInv(r)' /\ ResInv(r)'
  BY <1>10, NotYet DEF Untabled
<1> QED BY <1>14, <1>15, <1>16, <1>17, <1>18, <1>19 DEF PlayerInv

(* What is left to show of a step of a player that has sent its tables *)
LEMMA LateShapes ==
  ASSUME Shapes, NEW r \in Player, Step(r), phase[r] \notin Untabled, NEW ph \in Phases,
         phase' = [phase EXCEPT ![r] = ph], gate' = [gate EXCEPT ![r] = 1],
         \E S : tabs'[r] \in Seq(S), DOMAIN tabs' = Player,
         DOMAIN Lambda' = Player, DOMAIN Lambda'[r] = Wire,
         DOMAIN picked' = Player, DOMAIN picked'[r] = Player, \A k \in Player : DOMAIN picked'[r][k] = Wire,
         DOMAIN res' = Player, DOMAIN msg' = Player,
         \E S : msg'[r] \in Seq(S), Len(msg'[r]) = Steps(ph)
  PROVE  Shapes' /\ phase'[r] = ph /\ gate'[r] = 1
<1>1. phase[r] # "mask"
  BY DEF Untabled
<1>2. maskbits' = maskbits /\ opened' = opened /\ Ks' = Ks
  BY <1>1, StepFrame
<1>3. phase'[r] = ph /\ gate'[r] = 1
  BY DEF Shapes
<1>4. 1 \in 1 .. (NumGate + 1)
  <2>1. NumGate \in Nat
    BY CircuitAssumption DEF NumGate
  <2> QED BY <2>1
<1>5. phase' \in [Player -> Phases] /\ gate' \in [Player -> 1 .. (NumGate + 1)]
  BY <1>4 DEF Shapes
<1>6. Shapes'
  BY <1>2, <1>3, <1>5, StepShapes DEF Shapes
<1> QED BY <1>3, <1>6

(* A player that has garbled all gates sends rows for all AND gates. *)
LEMMA SendTablesKeeps ==
  ASSUME Lens = 1, BInv, NEW r \in Player, SendTables(r)
  PROVE  Shapes' /\ PlayerInv(r)'
<1>1. Shapes /\ PlayerInv(r)
  BY DEF BInv
<1>2. gate[r] \in 1 .. (NumGate + 1) /\ NumGate \in Nat
  BY <1>1, Circuit DEF Shapes
<1>3. phase[r] = "garble" /\ gate[r] = NumGate + 1
  BY <1>2, Loop DEF SendTables
<1>4. /\ Broadcast(r, tabs[r])
      /\ phase' = [phase EXCEPT ![r] = "tables"] /\ gate' = [gate EXCEPT ![r] = 1]
      /\ UNCHANGED <<mode, input, maskbits, opened, Ks, tabs, Lambda, picked, res>>
  BY DEF SendTables, Goto
<1>5. phase'[r] = "tables"
  BY <1>1, <1>4 DEF Shapes
<1>6. Steps(phase[r]) = 1 /\ Steps(phase'[r]) = 2
  BY <1>3, <1>5 DEF Steps
<1>7. /\ DOMAIN msg' = Player /\ \E S : msg'[r] \in Seq(S)
      /\ Len(msg'[r]) = 2 /\ msg'[r][2] = tabs[r] /\ msg'[r][1] = msg[r][1]
  <2> DEFINE m == tabs[r]
  <2>1. 1 + 1 = 2 /\ 1 \in 1 .. 1 /\ 1 \in Nat /\ Broadcast(r, m)
    BY <1>4
  <2> HIDE DEF m
  <2>2. /\ DOMAIN msg' = Player /\ \E S : msg'[r] \in Seq(S)
        /\ Len(msg'[r]) = 1 + 1 /\ msg'[r][1 + 1] = m
    BY <1>1, <1>6, <2>1, Sends
  <2>3. \A i \in 1 .. 1 : msg'[r][i] = msg[r][i]
    BY <1>1, <1>6, <2>1, Sends
  <2> QED BY <2>1, <2>2, <2>3 DEF m
<1>8. Shapes'
  <2>1. Step(r)
    BY DEF Step
  <2>2. phase' \in [Player -> Phases] /\ gate' \in [Player -> 1 .. (NumGate + 1)]
    BY <1>1, <1>2, <1>4 DEF Shapes, Phases
  <2> QED BY <1>1, <1>4, <1>6, <1>7, <2>1, <2>2, StepShapes DEF Shapes
<1>9. MaskInv(r)' /\ OpenInv(r)'
  BY <1>1, <1>3, <1>4, <1>5, MaskSame DEF PlayerInv, MaskInv, OpenInv
<1>10. KeyInv(r)'
  <2>1. /\ \A s \in InWire : Pair(Ks[r], r, s)
        /\ \A g \in 1 .. NumGate : KeyRule(Ks[r], r, g)
    BY <1>1, <1>2, <1>3 DEF PlayerInv, KeyInv
  <2> QED BY <1>4, <2>1 DEF KeyInv, Pair
<1>11. Len(tabs[r]) = Ands(NumGate + 1) /\ \A g \in AndGates : Own(tabs[r], Ks[r], opened[r], r, g)
  <2>1. \A g \in AndGates : g < NumGate + 1
    BY <1>2 DEF AndGates
  <2> QED BY <1>1, <1>3, <2>1 DEF PlayerInv, TabInv
<1>12. TabInv(r)'
  BY <1>4, <1>5, <1>11 DEF TabInv, Untabled
<1>13. MsgInv(r)'
  <2>1. msg[r][1] = maskbits[r]
    BY <1>1, <1>3 DEF PlayerInv, MsgInv
  <2> QED BY <1>4, <1>5, <1>7, <1>11, <2>1 DEF MsgInv, Unsent, Unlabelled
<1>14. LamInv(r)' /\ EvalInv(r)' /\ ResInv(r)'
  BY <1>5, NotYet DEF Unsent
<1> QED BY <1>8, <1>9, <1>10, <1>12, <1>13, <1>14 DEF PlayerInv

(* With the rows of all players every table is the sum of the right ones. *)
LEMMA RecvTablesKeeps ==
  ASSUME Lens = 1, BInv, NEW r \in Player, RecvTables(r)
  PROVE  Shapes' /\ PlayerInv(r)'
<1> DEFINE table(q) == IF q = r THEN tabs[r] ELSE msg[q][2]
           Sum(i, j, k) == XorBlocks(Player, LAMBDA q : table(q)[i][j][k])
<1>1. Shapes /\ \A q \in Player : PlayerInv(q)
  BY DEF BInv
<1>2. phase[r] = "tables" /\ AllSent(r, 2) /\ phase[r] \notin Untabled
  BY DEF RecvTables, Untabled
<1>3. tabs' = [tabs EXCEPT ![r] = [i \in DOMAIN tabs[r] |-> [j \in Player |-> [k \in 0 .. 3 |-> Sum(i, j, k)]]]]
  BY DEF RecvTables, XorBlocks
<1> HIDE DEF Sum
<1>4. /\ phase' = [phase EXCEPT ![r] = "input"] /\ gate' = [gate EXCEPT ![r] = 1]
      /\ UNCHANGED <<mode, input, maskbits, opened, Ks, Lambda, picked, res, msg>>
  BY DEF RecvTables, Goto
<1>5. DOMAIN tabs' = Player
      /\ tabs'[r] = [i \in DOMAIN tabs[r] |-> [j \in Player |-> [k \in 0 .. 3 |-> Sum(i, j, k)]]]
  BY <1>1, <1>3 DEF Shapes
<1>6. Len(tabs[r]) = Ands(NumGate + 1) /\ \A g \in AndGates : Own(tabs[r], Ks[r], opened[r], r, g)
  BY <1>1, <1>2 DEF PlayerInv, TabInv
<1>7. \E S : tabs'[r] \in Seq(S)
  <2> DEFINE S == { tabs'[r][i] : i \in DOMAIN tabs[r] }
             N == Len(tabs[r])
  <2>1. N \in Nat /\ DOMAIN tabs[r] = 1 .. N
    BY <1>1 DEF Shapes
  <2>2. tabs'[r] = [i \in 1 .. N |-> tabs'[r][i]]
    BY <1>5, <2>1
  <2>3. \A i \in 1 .. N : tabs'[r][i] \in S
    BY <2>1
  <2> HIDE DEF S, N
  <2>4. tabs'[r] \in [1 .. N -> S]
    BY <2>2, <2>3
  <2>5. tabs'[r] \in Seq(S)
    BY <2>1, <2>4
  <2> QED BY <2>5
<1>8. Step(r)
  BY DEF Step
<1>9. Shapes' /\ phase'[r] = "input"
  <2>1. "input" \in Phases /\ Steps("input") = 2 /\ Steps("tables") = 2
    BY DEF Phases, Steps
  <2>2. /\ DOMAIN Lambda' = Player /\ DOMAIN Lambda'[r] = Wire
        /\ DOMAIN picked' = Player /\ DOMAIN picked'[r] = Player
        /\ \A k \in Player : DOMAIN picked'[r][k] = Wire
        /\ DOMAIN res' = Player /\ DOMAIN msg' = Player
    BY <1>1, <1>4 DEF Shapes
  <2>3. \E S : msg'[r] \in Seq(S)
    BY <1>1, <1>4 DEF Shapes
  <2>4. Len(msg'[r]) = Steps("input")
    BY <1>1, <1>2, <1>4, <2>1 DEF Shapes
  <2> QED BY <1>1, <1>2, <1>4, <1>5, <1>7, <1>8, <2>1, <2>2, <2>3, <2>4, LateShapes
<1>10. MaskInv(r)' /\ OpenInv(r)' /\ KeyInv(r)'
  BY <1>2, <1>8, EarlyKeep
<1>11. \A q \in Player : q # r => phase[q] \notin Untabled
  <2>1. 2 \in 1 .. 4 /\ 2 > 1
    OBVIOUS
  <2> QED BY <1>1, <1>2, <2>1, Heard
<1>12. ASSUME NEW g \in AndGates
       PROVE  Joint(r, g)'
  <2> DEFINE x == Ands(g) + 1
  <2>1. g \in 1 .. NumGate /\ Gates[g].op = "AND" /\ NumGate \in Nat
    BY Circuit DEF AndGates
  <2>2. x \in 1 .. Ands(NumGate + 1)
    <3>1. g < NumGate + 1 /\ g \in Nat \ {0} /\ NumGate + 1 \in Nat \ {0}
      BY <2>1
    <3> QED BY <2>1, <3>1, AndsDiffer
  <2>3. x \in DOMAIN tabs[r]
    BY <1>1, <1>6, <2>2 DEF Shapes
  <2>4. \A q \in Player : Own(table(q), Ks[q], opened[q], q, g)
    <3> SUFFICES ASSUME NEW q \in Player
                 PROVE  Own(table(q), Ks[q], opened[q], q, g)
      OBVIOUS
    <3>1. CASE q = r
      BY <1>6, <3>1
    <3>2. CASE q # r
      <4>1. Own(msg[q][2], Ks[q], opened[q], q, g)
        BY <1>1, <1>11, <3>2 DEF PlayerInv, MsgInv
      <4> QED BY <3>2, <4>1
    <3> QED BY <3>1, <3>2
  <2> HIDE DEF table
  <2>5. ASSUME NEW j \in Player, NEW k \in 0 .. 3
        PROVE  tabs'[r][x][j][k] = XorAll(Rows(g, j, k))
    <3> DEFINE F == Rows(g, j, k)
    <3>1. \A q \in Player : table(q)[x][j][k] = F[q]
      BY <2>4 DEF Own, Rows
    <3>2. tabs'[r][x][j][k] = Sum(x, j, k)
      BY <1>5, <2>3
    <3> HIDE DEF F, x
    <3>3. UNION { table(q)[x][j][k] : q \in Player } = UNION { F[q] : q \in Player }
      BY <3>1
    <3>4. \A t : { q \in Player : t \in table(q)[x][j][k] } = { q \in Player : t \in F[q] }
      BY <3>1
    <3>5. Sum(x, j, k) = XorAll(F)
      BY <3>3, <3>4 DEF Sum, XorAll, XorBlocks
    <3> QED BY <3>2, <3>5 DEF F
  <2>6. \A j, k : Rows(g, j, k)' = Rows(g, j, k)
    BY <1>4 DEF Rows
  <2>7. \A j, k : XorAll(Rows(g, j, k))' = XorAll(Rows(g, j, k))
    BY <2>6 DEF XorAll, XorBlocks
  <2> QED BY <2>5, <2>7 DEF Joint
<1>13. TabInv(r)'
  <2>1. \A q \in Player : phase'[q] \notin Untabled
    BY <1>1, <1>4, <1>9, <1>11 DEF Shapes, Untabled
  <2> QED BY <1>9, <1>12, <2>1 DEF TabInv, Untabled
<1>14. MsgInv(r)'
  BY <1>1, <1>2, <1>4, <1>9 DEF PlayerInv, MsgInv, Unsent, Unlabelled
<1>15. LamInv(r)' /\ EvalInv(r)' /\ ResInv(r)'
  BY <1>9, NotYet DEF Unsent
<1> QED BY <1>9, <1>10, <1>13, <1>14, <1>15 DEF PlayerInv

(* What a player that has its tables keeps of them *)
LEMMA TablesKeep ==
  ASSUME BInv, NEW r \in Player, Step(r), phase[r] \notin Untabled \cup {"tables"},
         phase'[r] \notin {"mask", "open", "garble", "tables"}, tabs' = tabs
  PROVE  TabInv(r)'
<1>1. Shapes /\ TabInv(r)
  BY DEF BInv, PlayerInv
<1>2. phase[r] \notin Untabled
  OBVIOUS
<1>3. opened' = opened /\ Ks' = Ks /\ phase'[r] \notin Untabled /\ \A q \in Player \ {r} : phase'[q] = phase[q]
  BY <1>1, <1>2, StepFrame
<1>4. /\ \A q \in Player : phase[q] \notin Untabled
      /\ \A g \in AndGates : Joint(r, g)
  BY <1>1 DEF TabInv
<1>5. \A g \in AndGates : Joint(r, g)'
  BY <1>3, <1>4, JointSame
<1>6. \A q \in Player : phase'[q] \notin Untabled
  BY <1>3, <1>4
<1> QED BY <1>5, <1>6 DEF TabInv

(* Inputs are sent under the mask, or the player's share of it. *)
LEMMA SendInputsKeeps ==
  ASSUME Lens = 1, BInv, NEW r \in Player, SendInputs(r)
  PROVE  Shapes' /\ PlayerInv(r)'
<1> DEFINE m == [w \in Instance |-> [i \in InWire |-> Masked(r, w, i)]]
<1>1. Shapes /\ PlayerInv(r)
  BY DEF BInv
<1>2. phase[r] = "input" /\ phase[r] \notin Untabled \cup {"tables"} /\ phase[r] \notin Untabled
  BY DEF SendInputs, Untabled
<1>3. /\ Broadcast(r, m)
      /\ phase' = [phase EXCEPT ![r] = "lambda"] /\ gate' = [gate EXCEPT ![r] = 1]
      /\ UNCHANGED <<mode, input, maskbits, opened, Ks, tabs, Lambda, picked, res>>
  BY DEF SendInputs, Goto
<1>4. m[0] = [i \in InWire |-> Masked(r, 0, i)]
  BY Circuit
<1> HIDE DEF m
<1>5. Steps(phase[r]) = 2 /\ Steps("lambda") = 3 /\ "lambda" \in Phases
  BY <1>2 DEF Steps, Phases
<1>6. /\ DOMAIN msg' = Player /\ \E S : msg'[r] \in Seq(S)
      /\ Len(msg'[r]) = 3 /\ msg'[r][3] = m /\ msg'[r][1] = msg[r][1] /\ msg'[r][2] = msg[r][2]
  <2>1. 2 + 1 = 3 /\ 1 \in 1 .. 2 /\ 2 \in 1 .. 2 /\ 2 \in Nat
    OBVIOUS
  <2>2. /\ DOMAIN msg' = Player /\ \E S : msg'[r] \in Seq(S)
        /\ Len(msg'[r]) = 2 + 1 /\ msg'[r][2 + 1] = m
    BY <1>1, <1>3, <1>5, <2>1, Sends
  <2>3. \A i \in 1 .. 2 : msg'[r][i] = msg[r][i]
    BY <1>1, <1>3, <1>5, <2>1, Sends
  <2> QED BY <2>1, <2>2, <2>3
<1>7. Step(r)
  BY DEF Step
<1>8. Shapes' /\ phase'[r] = "lambda"
  <2>1. /\ \E S : tabs'[r] \in Seq(S)
        /\ DOMAIN tabs' = Player /\ DOMAIN Lambda' = Player /\ DOMAIN Lambda'[r] = Wire
        /\ DOMAIN picked' = Player /\ DOMAIN picked'[r] = Player
        /\ \A k \in Player : DOMAIN picked'[r][k] = Wire
        /\ DOMAIN res' = Player
    BY <1>1, <1>3 DEF Shapes
  <2>2. \E S : msg'[r] \in Seq(S)
    BY <1>6
  <2>3. Len(msg'[r]) = Steps("lambda") /\ DOMAIN msg' = Player
    BY <1>5, <1>6
  <2> QED BY <1>1, <1>2, <1>3, <1>5, <1>7, <2>1, <2>2, <2>3, LateShapes
<1>9. MaskInv(r)' /\ OpenInv(r)' /\ KeyInv(r)'
  BY <1>2, <1>7, EarlyKeep
<1>10. TabInv(r)'
  BY <1>2, <1>3, <1>7, <1>8, TablesKeep
<1>11. MsgInv(r)'
  <2>1. msg[r][1] = maskbits[r] /\ \A g \in AndGates : Own(msg[r][2], Ks[r], opened[r], r, g)
    BY <1>1, <1>2 DEF PlayerInv, MsgInv
  <2>2. \A i \in InWire : m[0][i] = Masked(r, 0, i)
    BY <1>4
  <2>3. \A i : Masked(r, 0, i)' = Masked(r, 0, i)
    BY <1>3 DEF Masked
  <2> QED BY <1>3, <1>6, <1>8, <2>1, <2>2, <2>3 DEF MsgInv, Unlabelled
<1>12. LamInv(r)' /\ EvalInv(r)' /\ ResInv(r)'
  BY <1>8, NotYet DEF Unlabelled
<1> QED BY <1>8, <1>9, <1>10, <1>11, <1>12 DEF PlayerInv

-------------------------------------------------------------------------------
(* Online: inputs *)

(* The slot of an input wire *)
LEMMA InputSlot ==
  ASSUME Lens = 1, NEW i \in InWire
  PROVE  InSlot(0, i) = i /\ IsInput(i) /\ InstanceOf(i) = 0 /\ i - InstanceOf(i) * Stride = i /\ i \in Wire
<1>1. Instance = {0} /\ i \in Nat /\ Stride \in Nat /\ i \in Wire
  BY Circuit, CircuitAssumption DEF InWire
<1>2. 0 * Stride = 0
  BY <1>1
<1>3. InSlot(0, i) = i
  BY <1>1, <1>2 DEF InSlot
<1>4. IsInput(i)
  BY <1>1, <1>3 DEF IsInput
<1>5. i - 0 * Stride = i
  BY <1>1, <1>2
<1>6. InstanceOf(i) = 0
  <2> DEFINE Q(w) == /\ i - w * Stride \in InWire
                     /\ \A v \in Instance : i - v * Stride \in InWire => v <= w
  <2>1. Q(0)
    BY <1>1, <1>5
  <2>2. InstanceOf(i) = CHOOSE w \in Instance : Q(w)
    BY DEF InstanceOf
  <2> HIDE DEF Q
  <2>3. InstanceOf(i) \in Instance
    BY <1>1, <2>1, <2>2
  <2> QED BY <1>1, <2>3
<1> QED BY <1>1, <1>3, <1>4, <1>5, <1>6

(* What a label is copied from in a message of one instance *)
LEMMA KeyIs ==
  ASSUME Lens = 1, NEW q, NEW i \in InWire
  PROVE  KeyFrom(q, 0, i) = msg[q][4][0][i]
<1>1. i \in Nat /\ i \in 0 .. (InSize - 1) /\ InSize \in Nat \ {0} /\ BlockBytes \in Nat \ {0} /\ 0 \in Int /\ i \in Int
  BY CircuitAssumption DEF InWire
<1>2. i * BlockBytes \in Int /\ i * BlockBytes = BlockBytes * i + 0 /\ 0 * InSize = 0 /\ 0 \in 0 .. (BlockBytes - 1)
      /\ i = InSize * 0 + i
  BY <1>1
<1> DEFINE byte == 0 * InSize + i * BlockBytes
<1>3. byte \in Int /\ byte = BlockBytes * i + 0
  BY <1>2
<1> HIDE DEF byte
<1>4. byte % BlockBytes = 0 /\ byte \div BlockBytes = i
  BY <1>1, <1>2, <1>3, Remainder, Quotient
<1>5. i \div InSize = 0 /\ i % InSize = i
  BY <1>1, <1>2, Remainder, Quotient
<1> QED BY <1>4, <1>5 DEF KeyFrom, byte

(* The bits of the inputs *)
LEMMA InputBits ==
  ASSUME Lens = 1, Shapes, NEW q \in Player, NEW i \in InWire
  PROVE  input[q][0][i] \in Bit
<1>1. input[q] \in [Instance -> [InWire -> Bit]]
  BY CircuitAssumption DEF Shapes
<1> QED BY <1>1, Circuit

(* With the messages of all players every input is known under its mask. *)
LEMMA RecvInputsKeeps ==
  ASSUME Lens = 1, BInv, NEW r \in Player, RecvInputs(r)
  PROVE  Shapes' /\ PlayerInv(r)'
<1>1. Shapes /\ \A q \in Player : PlayerInv(q)
  BY DEF BInv
<1>2. phase[r] = "lambda" /\ AllSent(r, 3) /\ phase[r] \notin Untabled \cup {"tables"} /\ phase[r] \notin Untabled
      /\ phase[r] \notin Unsent
  BY DEF RecvInputs, Untabled, Unsent
<1>3. /\ Lambda' = [Lambda EXCEPT ![r] = [s \in Slot |->
                      IF IsInput(s) THEN MaskedInput(r, InstanceOf(s), s - InstanceOf(s) * Stride) ELSE @[s]]]
      /\ phase' = [phase EXCEPT ![r] = "keys"] /\ gate' = [gate EXCEPT ![r] = 1]
      /\ UNCHANGED <<mode, input, maskbits, opened, Ks, tabs, picked, res, msg>>
  BY DEF RecvInputs, Goto
<1>4. /\ DOMAIN Lambda' = Player /\ DOMAIN Lambda'[r] = Wire
      /\ \A i \in InWire : Lambda'[r][i] = MaskedInput(r, 0, i)
  <2>1. Slot = Wire
    BY Circuit
  <2>2. DOMAIN Lambda' = Player
        /\ Lambda'[r] = [s \in Wire |->
              IF IsInput(s) THEN MaskedInput(r, InstanceOf(s), s - InstanceOf(s) * Stride) ELSE Lambda[r][s]]
    BY <1>1, <1>3, <2>1 DEF Shapes
  <2>3. ASSUME NEW i \in InWire PROVE Lambda'[r][i] = MaskedInput(r, 0, i)
    <3>1. IsInput(i) /\ InstanceOf(i) = 0 /\ i - InstanceOf(i) * Stride = i /\ i \in Wire
      BY InputSlot
    <3> QED BY <2>2, <3>1
  <2> QED BY <2>2, <2>3
<1>5. Step(r)
  BY DEF Step
<1>6. Shapes' /\ phase'[r] = "keys"
  <2>1. "keys" \in Phases /\ Steps("keys") = 3 /\ Steps("lambda") = 3
    BY DEF Phases, Steps
  <2>2. /\ \E S : tabs'[r] \in Seq(S)
        /\ DOMAIN tabs' = Player /\ DOMAIN picked' = Player /\ DOMAIN picked'[r] = Player
        /\ \A k \in Player : DOMAIN picked'[r][k] = Wire
        /\ DOMAIN res' = Player /\ DOMAIN msg' = Player
    BY <1>1, <1>3 DEF Shapes
  <2>3. \E S : msg'[r] \in Seq(S)
    BY <1>1, <1>3 DEF Shapes
  <2>4. Len(msg'[r]) = Steps("keys")
    BY <1>1, <1>2, <1>3, <2>1 DEF Shapes
  <2> QED BY <1>1, <1>2, <1>3, <1>4, <1>5, <2>1, <2>2, <2>3, <2>4, LateShapes
<1>7. MaskInv(r)' /\ OpenInv(r)' /\ KeyInv(r)'
  BY <1>2, <1>5, EarlyKeep
<1>8. TabInv(r)'
  BY <1>2, <1>3, <1>5, <1>6, TablesKeep
<1>9. MsgInv(r)'
  <2>1. \A i : Masked(r, 0, i)' = Masked(r, 0, i)
    BY <1>3 DEF Masked
  <2> QED BY <1>1, <1>2, <1>3, <1>6, <2>1 DEF PlayerInv, MsgInv, Unlabelled
<1>10. \A q \in Player : q # r => phase[q] \notin Unsent
  <2>1. 3 \in 1 .. 4 /\ 3 > 2
    OBVIOUS
  <2> QED BY <1>1, <1>2, <2>1, Heard
<1>11. ASSUME NEW q \in Player, NEW i \in InWire
       PROVE  /\ opened[q][i] = Mask(i)
              /\ q # r => msg[q][3][0][i] = Masked(q, 0, i)
  <2>1. phase[q] \notin {"mask", "open"} /\ (q # r => phase[q] \notin Unsent)
    BY <1>2, <1>10 DEF Unsent, Untabled
  <2>2. OpenInv(q) /\ MsgInv(q) /\ i \in Wire
    BY <1>1, InputSlot DEF PlayerInv
  <2> QED BY <2>1, <2>2 DEF OpenInv, MsgInv
<1>12. ASSUME NEW i \in InWire
       PROVE  MaskedInput(r, 0, i) = Hidden(i)
  <2>1. InSlot(0, i) = i /\ i \in Wire
    BY InputSlot
  <2>2. Plain(0)[i] = InputValue(i)
    BY PlainIs
  <2>3. CASE mode = "held"
    <3> DEFINE h == Holder[i]
    <3>1. h \in Player
      BY CircuitAssumption
    <3>2. MaskedInput(r, 0, i) = Masked(h, 0, i)
      BY <1>11, <2>3, <3>1 DEF MaskedInput
    <3>3. Masked(h, 0, i) = BitXor(input[h][0][i], Mask(i))
      BY <1>11, <2>1, <2>3, <3>1 DEF Masked
    <3> QED BY <2>2, <2>3, <3>2, <3>3 DEF Hidden, InputValue
  <2>4. CASE mode # "held"
    <3> DEFINE F == [q \in Player |-> input[q][0][i]]
               G == [q \in Player |-> maskbits[q][i]]
               H == [q \in Player |-> Masked(q, 0, i)]
               mine(q) == IF q = r THEN Masked(r, 0, i) ELSE msg[q][3][0][i]
    <3>1. \A q \in Player : F[q] \in Bit /\ G[q] \in Bit
      BY <1>1, <2>1, InputBits, MaskBits
    <3>2. \A q \in Player : H[q] = BitXor(F[q], G[q])
      BY <2>1, <2>4 DEF Masked
    <3>3. \A q \in Player : mine(q) = H[q]
      BY <1>11
    <3>4. MaskedInput(r, 0, i) = XorBits(Player, LAMBDA q : mine(q))
      BY <2>4 DEF MaskedInput, XorBits
    <3>5. InputValue(i) = XorBits(Player, LAMBDA q : F[q])
      <4>1. \A q \in Player : F[q] = input[q][0][i]
        OBVIOUS
      <4> HIDE DEF F
      <4>2. { q \in Player : F[q] = 1 } = { q \in Player : input[q][0][i] = 1 }
        BY <4>1
      <4> QED BY <2>4, <4>2 DEF InputValue, XorBits
    <3>6. Mask(i) = XorBits(Player, LAMBDA q : G[q])
      <4>1. \A q \in Player : G[q] = maskbits[q][i]
        OBVIOUS
      <4> HIDE DEF G
      <4>2. { q \in Player : G[q] = 1 } = { q \in Player : maskbits[q][i] = 1 }
        BY <4>1
      <4> QED BY <4>2 DEF Mask, XorBits
    <3> HIDE DEF F, G, H, mine
    <3>7. XorBits(Player, LAMBDA q : mine(q)) = XorBits(Player, LAMBDA q : H[q])
      <4>1. { q \in Player : mine(q) = 1 } = { q \in Player : H[q] = 1 }
        BY <3>3
      <4> QED BY <4>1 DEF XorBits
    <3>8. XorBits(Player, LAMBDA q : H[q])
            = BitXor(XorBits(Player, LAMBDA q : F[q]), XorBits(Player, LAMBDA q : G[q]))
      <4>1. \A q \in Player : F[q] \in Bit /\ G[q] \in Bit /\ H[q] = BitXor(F[q], G[q])
        BY <3>1, <3>2
      <4> QED BY <4>1, BitsSum DEF XorBits
    <3> QED BY <2>2, <3>4, <3>5, <3>6, <3>7, <3>8 DEF Hidden
  <2> QED BY <2>3, <2>4
<1>13. LamInv(r)'
  <2>1. \A q \in Player : phase'[q] \notin Unsent
    BY <1>1, <1>3, <1>6, <1>10 DEF Shapes, Unsent, Untabled
  <2>2. \A s : Hidden(s)' = Hidden(s)
    BY <1>3, HiddenSame
  <2>3. \A i \in InWire : Lambda'[r][i] = Hidden(i)'
    BY <1>4, <1>12, <2>2
  <2> QED BY <2>1, <2>3 DEF LamInv
<1>14. EvalInv(r)' /\ ResInv(r)'
  BY <1>6, NotYet DEF Unlabelled
<1> QED BY <1>6, <1>7, <1>8, <1>9, <1>13, <1>14 DEF PlayerInv

(* What a player that knows the masked inputs keeps of them *)
LEMMA LambdaKeep ==
  ASSUME Lens = 1, BInv, NEW r \in Player, Step(r), phase[r] \notin Unsent \cup {"lambda"},
         \A i \in InWire : Lambda'[r][i] = Lambda[r][i]
  PROVE  LamInv(r)' /\ maskbits' = maskbits /\ Ks' = Ks /\ \A s : Hidden(s)' = Hidden(s)
<1>1. Shapes /\ LamInv(r)
  BY DEF BInv, PlayerInv
<1>2. phase[r] \notin Unsent /\ phase[r] \notin Untabled /\ phase[r] # "mask"
  BY DEF Unsent, Untabled
<1>3. /\ phase'[r] \notin Unsent /\ \A q \in Player \ {r} : phase'[q] = phase[q]
      /\ mode' = mode /\ input' = input /\ maskbits' = maskbits /\ Ks' = Ks
  BY <1>1, <1>2, StepFrame
<1>4. \A s : Hidden(s)' = Hidden(s)
  BY <1>3, HiddenSame
<1>5. /\ \A q \in Player : phase[q] \notin Unsent
      /\ \A i \in InWire : Lambda[r][i] = Hidden(i)
  BY <1>1 DEF LamInv
<1>6. /\ \A q \in Player : phase'[q] \notin Unsent
      /\ \A i \in InWire : Lambda'[r][i] = Hidden(i)'
  BY <1>3, <1>4, <1>5
<1> QED BY <1>3, <1>4, <1>6 DEF LamInv

(* A player sends the label of the masked bit for every input. *)
LEMMA SendKeysKeeps ==
  ASSUME Lens = 1, BInv, NEW r \in Player, SendKeys(r)
  PROVE  Shapes' /\ PlayerInv(r)'
<1> DEFINE m == [w \in Instance |-> [i \in InWire |-> InputKey(r, w, i)]]
<1>1. Shapes /\ PlayerInv(r)
  BY DEF BInv
<1>2. phase[r] = "keys" /\ phase[r] \notin Untabled \cup {"tables"} /\ phase[r] \notin Untabled
      /\ phase[r] \notin Unsent \cup {"lambda"}
  BY DEF SendKeys, Untabled, Unsent
<1>3. /\ Broadcast(r, m)
      /\ phase' = [phase EXCEPT ![r] = "labels"] /\ gate' = [gate EXCEPT ![r] = 1]
      /\ UNCHANGED <<mode, input, maskbits, opened, Ks, tabs, Lambda, picked, res>>
  BY DEF SendKeys, Goto
<1>4. \A i \in InWire : m[0][i] = Ks[r][i][Lambda[r][i]]
  BY Circuit, InputSlot DEF InputKey
<1> HIDE DEF m
<1>5. Steps(phase[r]) = 3 /\ Steps("labels") = 4 /\ "labels" \in Phases
  BY <1>2 DEF Steps, Phases
<1>6. /\ DOMAIN msg' = Player /\ \E S : msg'[r] \in Seq(S)
      /\ Len(msg'[r]) = 4 /\ msg'[r][4] = m
      /\ msg'[r][1] = msg[r][1] /\ msg'[r][2] = msg[r][2] /\ msg'[r][3] = msg[r][3]
  <2>1. 3 + 1 = 4 /\ 1 \in 1 .. 3 /\ 2 \in 1 .. 3 /\ 3 \in 1 .. 3 /\ 3 \in Nat
    OBVIOUS
  <2>2. /\ DOMAIN msg' = Player /\ \E S : msg'[r] \in Seq(S)
        /\ Len(msg'[r]) = 3 + 1 /\ msg'[r][3 + 1] = m
    BY <1>1, <1>3, <1>5, <2>1, Sends
  <2>3. \A i \in 1 .. 3 : msg'[r][i] = msg[r][i]
    BY <1>1, <1>3, <1>5, <2>1, Sends
  <2> QED BY <2>1, <2>2, <2>3
<1>7. Step(r)
  BY DEF Step
<1>8. Shapes' /\ phase'[r] = "labels"
  <2>1. /\ \E S : tabs'[r] \in Seq(S)
        /\ DOMAIN tabs' = Player /\ DOMAIN Lambda' = Player /\ DOMAIN Lambda'[r] = Wire
        /\ DOMAIN picked' = Player /\ DOMAIN picked'[r] = Player
        /\ \A k \in Player : DOMAIN picked'[r][k] = Wire
        /\ DOMAIN res' = Player
    BY <1>1, <1>3 DEF Shapes
  <2>2. \E S : msg'[r] \in Seq(S)
    BY <1>6
  <2>3. Len(msg'[r]) = Steps("labels") /\ DOMAIN msg' = Player
    BY <1>5, <1>6
  <2> QED BY <1>1, <1>2, <1>3, <1>5, <1>7, <2>1, <2>2, <2>3, LateShapes
<1>9. MaskInv(r)' /\ OpenInv(r)' /\ KeyInv(r)'
  BY <1>2, <1>7, EarlyKeep
<1>10. TabInv(r)'
  BY <1>2, <1>3, <1>7, <1>8, TablesKeep
<1>11. MsgInv(r)'
  <2>1. /\ msg[r][1] = maskbits[r] /\ \A g \in AndGates : Own(msg[r][2], Ks[r], opened[r], r, g)
        /\ \A i \in InWire : msg[r][3][0][i] = Masked(r, 0, i)
    BY <1>1, <1>2 DEF PlayerInv, MsgInv
  <2>2. \A i : Masked(r, 0, i)' = Masked(r, 0, i)
    BY <1>3 DEF Masked
  <2> QED BY <1>3, <1>4, <1>6, <2>1, <2>2 DEF MsgInv
<1>12. LamInv(r)'
  BY <1>2, <1>3, <1>7, LambdaKeep
<1>13. EvalInv(r)' /\ ResInv(r)'
  BY <1>8, NotYet
<1> QED BY <1>8, <1>9, <1>10, <1>11, <1>12, <1>13 DEF PlayerInv

(* With the labels of all players every input is known rightly. *)
LEMMA RecvKeysKeeps ==
  ASSUME Lens = 1, BInv, NEW r \in Player, RecvKeys(r)
  PROVE  Shapes' /\ PlayerInv(r)'
<1> DEFINE key(q, s) == LET w == InstanceOf(s)
                            i == s - w * Stride
                        IN  IF q = r THEN InputKey(r, w, i) ELSE KeyFrom(q, w, i)
<1>1. Shapes /\ \A q \in Player : PlayerInv(q)
  BY DEF BInv
<1>2. phase[r] = "labels" /\ AllSent(r, 4) /\ phase[r] \notin Untabled \cup {"tables"} /\ phase[r] \notin Untabled
      /\ phase[r] \notin Unsent \cup {"lambda"} /\ phase[r] \notin Unlabelled
  BY DEF RecvKeys, Untabled, Unsent, Unlabelled
<1>3. /\ picked' = [picked EXCEPT ![r] = [k \in Player |-> [s \in Slot |->
                      IF IsInput(s) THEN key(k, s) ELSE @[k][s]]]]
      /\ phase' = [phase EXCEPT ![r] = "eval"] /\ gate' = [gate EXCEPT ![r] = 1]
      /\ UNCHANGED <<mode, input, maskbits, opened, Ks, tabs, Lambda, res, msg>>
  BY DEF RecvKeys, Goto
<1>4. DOMAIN picked' = Player /\ DOMAIN picked'[r] = Player
      /\ \A k \in Player : picked'[r][k] = [s \in Wire |-> IF IsInput(s) THEN key(k, s) ELSE picked[r][k][s]]
  <2>1. Slot = Wire
    BY Circuit
  <2> HIDE DEF key
  <2> QED BY <1>1, <1>3, <2>1 DEF Shapes
<1>5. Step(r)
  BY DEF Step
<1>6. Shapes' /\ phase'[r] = "eval" /\ gate'[r] = 1
  <2>1. "eval" \in Phases /\ Steps("eval") = 4 /\ Steps("labels") = 4
    BY DEF Phases, Steps
  <2>2. /\ \E S : tabs'[r] \in Seq(S)
        /\ DOMAIN tabs' = Player /\ DOMAIN Lambda' = Player /\ DOMAIN Lambda'[r] = Wire
        /\ DOMAIN res' = Player /\ DOMAIN msg' = Player
    BY <1>1, <1>3 DEF Shapes
  <2>3. \E S : msg'[r] \in Seq(S)
    BY <1>1, <1>3 DEF Shapes
  <2>4. Len(msg'[r]) = Steps("eval")
    BY <1>1, <1>2, <1>3, <2>1 DEF Shapes
  <2>5. \A k \in Player : DOMAIN picked'[r][k] = Wire
    BY <1>4
  <2> QED BY <1>1, <1>2, <1>3, <1>4, <1>5, <2>1, <2>2, <2>3, <2>4, <2>5, LateShapes
<1>7. MaskInv(r)' /\ OpenInv(r)' /\ KeyInv(r)'
  BY <1>2, <1>5, EarlyKeep
<1>8. TabInv(r)'
  BY <1>2, <1>3, <1>5, <1>6, TablesKeep
<1>9. MsgInv(r)'
  <2>1. \A i : Masked(r, 0, i)' = Masked(r, 0, i)
    BY <1>3 DEF Masked
  <2>2. /\ msg[r][1] = maskbits[r] /\ \A g \in AndGates : Own(msg[r][2], Ks[r], opened[r], r, g)
        /\ \A i \in InWire : msg[r][3][0][i] = Masked(r, 0, i)
        /\ \A i \in InWire : msg[r][4][0][i] = Ks[r][i][Lambda[r][i]]
    BY <1>1, <1>2 DEF PlayerInv, MsgInv, Unsent
  <2> QED BY <1>3, <2>1, <2>2 DEF MsgInv
<1>10. LamInv(r)' /\ \A s : Hidden(s)' = Hidden(s)
  BY <1>2, <1>3, <1>5, LambdaKeep
<1>11. \A q \in Player : q # r => phase[q] \notin Unlabelled
  <2>1. 4 \in 1 .. 4 /\ 4 > 3
    OBVIOUS
  <2> QED BY <1>1, <1>2, <2>1, Heard
<1>12. ASSUME NEW i \in InWire, NEW k \in Player
       PROVE  picked'[r][k][i] = Ks[k][i][Hidden(i)] /\ Lambda[r][i] = Hidden(i)
  <2>1. InSlot(0, i) = i /\ IsInput(i) /\ InstanceOf(i) = 0 /\ i - InstanceOf(i) * Stride = i /\ i \in Wire
    BY InputSlot
  <2>2. picked'[r][k][i] = IF k = r THEN InputKey(r, 0, i) ELSE KeyFrom(k, 0, i)
    BY <1>4, <2>1
  <2>3. phase[k] \notin Unsent \cup {"lambda"} /\ (k # r => phase[k] \notin Unlabelled)
        /\ phase[r] \notin Unsent \cup {"lambda"}
    BY <1>2, <1>11 DEF Unlabelled
  <2>4. Lambda[k][i] = Hidden(i) /\ Lambda[r][i] = Hidden(i)
    BY <1>1, <2>3 DEF PlayerInv, LamInv
  <2>5. CASE k = r
    BY <2>1, <2>2, <2>4, <2>5 DEF InputKey
  <2>6. CASE k # r
    <3>1. msg[k][4][0][i] = Ks[k][i][Lambda[k][i]]
      BY <1>1, <2>3, <2>6 DEF PlayerInv, MsgInv
    <3> QED BY <2>2, <2>4, <2>6, <3>1, KeyIs
  <2> QED BY <2>4, <2>5, <2>6
<1>13. EvalInv(r)'
  <2>1. \A q \in Player : phase'[q] \notin Unlabelled
    BY <1>1, <1>3, <1>6, <1>11 DEF Shapes, Unlabelled, Unsent, Untabled
  <2>2. \A i \in InWire : Right(r, i)'
    BY <1>3, <1>10, <1>12 DEF Right
  <2>3. \A g \in 1 .. NumGate : ~(g < 1)
    <3>1. NumGate \in Nat
      BY Circuit
    <3> QED BY <3>1
  <2> QED BY <1>6, <2>1, <2>2, <2>3 DEF EvalInv
<1>14. ResInv(r)'
  BY <1>6, NotYet
<1> QED BY <1>6, <1>7, <1>8, <1>9, <1>10, <1>13, <1>14 DEF PlayerInv

(* What a player that has all labels has heard *)
LEMMA LateMessages ==
  ASSUME BInv, NEW r \in Player, Step(r), phase[r] \in {"eval", "done"}, phase'[r] \in {"eval", "done"},
         msg' = msg, \A i \in InWire : Lambda'[r][i] = Lambda[r][i]
  PROVE  MsgInv(r)'
<1>1. Shapes /\ MsgInv(r)
  BY DEF BInv, PlayerInv
<1>2. /\ phase[r] # "mask" /\ phase[r] \notin Untabled /\ phase[r] \notin Unsent /\ phase[r] \notin Unlabelled
      /\ phase'[r] # "mask" /\ phase'[r] \notin Untabled /\ phase'[r] \notin Unsent /\ phase'[r] \notin Unlabelled
  BY DEF Untabled, Unsent, Unlabelled
<1>3. mode' = mode /\ input' = input /\ maskbits' = maskbits /\ opened' = opened /\ Ks' = Ks
  BY <1>1, <1>2, StepFrame
<1>4. \A i : Masked(r, 0, i)' = Masked(r, 0, i)
  BY <1>3 DEF Masked
<1> QED BY <1>1, <1>2, <1>3, <1>4 DEF MsgInv

(* The outputs are taken when all gates have been evaluated. *)
LEMMA OutputKeeps ==
  ASSUME Lens = 1, BInv, NEW r \in Player, Output(r)
  PROVE  Shapes' /\ PlayerInv(r)'
<1>1. Shapes /\ PlayerInv(r)
  BY DEF BInv
<1>2. gate[r] = NumGate + 1 /\ phase[r] = "eval"
  <2>1. gate[r] \in 1 .. (NumGate + 1)
    BY <1>1 DEF Shapes
  <2> QED BY <2>1, Loop DEF Output
<1>3. /\ phase[r] \notin Untabled \cup {"tables"} /\ phase[r] \notin Untabled
      /\ phase[r] \notin Unsent \cup {"lambda"} /\ phase[r] \notin Unlabelled \cup {"labels"}
      /\ phase[r] \notin Unlabelled
  BY <1>2 DEF Untabled, Unsent, Unlabelled
<1>4. /\ res' = [res EXCEPT ![r] = [w \in Instance |-> [i \in OutWire |-> OutputBit(r, InSlot(w, i))]]]
      /\ phase' = [phase EXCEPT ![r] = "done"] /\ gate' = [gate EXCEPT ![r] = 1]
      /\ UNCHANGED <<mode, input, maskbits, opened, Ks, tabs, Lambda, picked, msg>>
  BY DEF Output, Goto
<1>5. Step(r)
  BY DEF Step
<1>6. Shapes' /\ phase'[r] = "done"
  <2>1. "done" \in Phases /\ Steps("done") = 4 /\ Steps("eval") = 4
    BY DEF Phases, Steps
  <2>2. /\ \E S : tabs'[r] \in Seq(S)
        /\ DOMAIN tabs' = Player /\ DOMAIN Lambda' = Player /\ DOMAIN Lambda'[r] = Wire
        /\ DOMAIN picked' = Player /\ DOMAIN picked'[r] = Player
        /\ \A k \in Player : DOMAIN picked'[r][k] = Wire
        /\ DOMAIN res' = Player /\ DOMAIN msg' = Player
    BY <1>1, <1>4 DEF Shapes
  <2>3. \E S : msg'[r] \in Seq(S)
    BY <1>1, <1>4 DEF Shapes
  <2>4. Len(msg'[r]) = Steps("done")
    BY <1>1, <1>2, <1>4, <2>1 DEF Shapes
  <2> QED BY <1>1, <1>3, <1>4, <1>5, <2>1, <2>2, <2>3, <2>4, LateShapes
<1>7. MaskInv(r)' /\ OpenInv(r)' /\ KeyInv(r)'
  BY <1>3, <1>5, EarlyKeep
<1>8. TabInv(r)'
  BY <1>3, <1>4, <1>5, <1>6, TablesKeep
<1>9. MsgInv(r)'
  BY <1>2, <1>4, <1>5, <1>6, LateMessages
<1>10. LamInv(r)' /\ \A s : Hidden(s)' = Hidden(s)
  BY <1>3, <1>4, <1>5, LambdaKeep
<1>11. EvalInv(r)'
  <2>1. /\ \A q \in Player : phase[q] \notin Unlabelled
        /\ \A s \in InWire : Right(r, s)
        /\ \A g \in 1 .. NumGate : g < gate[r] => Right(r, Gates[g].c)
    BY <1>1, <1>3 DEF PlayerInv, EvalInv
  <2>2. \A g \in 1 .. NumGate : g < gate[r]
    <3>1. NumGate \in Nat
      BY Circuit
    <3> QED BY <1>2, <3>1
  <2>3. \A s : Right(r, s)' <=> Right(r, s)
    BY <1>4, <1>10 DEF Right
  <2>4. \A q \in Player : phase'[q] \notin Unlabelled
    BY <1>1, <1>4, <1>6, <2>1 DEF Shapes, Unlabelled, Unsent, Untabled
  <2> QED BY <2>1, <2>2, <2>3, <2>4 DEF EvalInv
<1>12. ResInv(r)'
  <2>1. res'[r] = [w \in Instance |-> [i \in OutWire |-> OutputBit(r, InSlot(w, i))]]
    BY <1>1, <1>4 DEF Shapes
  <2>2. \A i \in OutWire : InSlot(0, i) = i
    <3>1. Stride \in Nat /\ OutWire \subseteq Nat
      BY Circuit, CircuitAssumption
    <3> QED BY <3>1 DEF InSlot
  <2>3. \A i \in OutWire : res'[r][0][i] = OutputBit(r, i)
    BY <2>1, <2>2, Circuit
  <2>4. \A i : OutputBit(r, i)' = OutputBit(r, i)
    BY <1>4 DEF OutputBit
  <2> QED BY <2>3, <2>4 DEF ResInv
<1> QED BY <1>6, <1>7, <1>8, <1>9, <1>10, <1>11, <1>12 DEF PlayerInv

-------------------------------------------------------------------------------
(* Online: evaluation *)

(* A label of a pair *)
LEMMA LabelIs ==
  ASSUME NEW ks, NEW p, NEW s, Pair(ks, p, s), NEW v \in Bit
  PROVE  ks[s][v] = IF v = 1 THEN Xor(ks[s][0], R(p)) ELSE ks[s][0]
<1>1. v = 0 \/ v = 1
  BY DEF Bit
<1> QED BY <1>1 DEF Pair

(* All that is known of the players when one evaluates *)
LEMMA Evaluating ==
  ASSUME Lens = 1, BInv, NEW r \in Player, phase[r] = "eval", NEW k \in Player
  PROVE  /\ \A g \in 1 .. NumGate : MaskRule(maskbits[k], k, g) /\ KeyRule(Ks[k], k, g)
         /\ \A s \in Wire : opened[k][s] = Mask(s) /\ Pair(Ks[k], k, s)
<1>1. PlayerInv(r) /\ PlayerInv(k)
  BY DEF BInv
<1>2. phase[k] \notin Unlabelled
  BY <1>1 DEF PlayerInv, EvalInv, Unlabelled, Unsent, Untabled
<1>3. phase[k] # "mask" /\ phase[k] \notin {"mask", "open"} /\ phase[k] \notin Untabled
  BY <1>2 DEF Unlabelled, Unsent, Untabled
<1>4. \A g \in 1 .. NumGate : MaskRule(maskbits[k], k, g)
  BY <1>1, <1>3 DEF PlayerInv, MaskInv
<1>5. \A g \in 1 .. NumGate : KeyRule(Ks[k], k, g)
  BY <1>1, <1>3 DEF PlayerInv, KeyInv
<1>6. \A s \in Wire : opened[k][s] = Mask(s)
  BY <1>1, <1>3 DEF PlayerInv, OpenInv
<1>7. ASSUME NEW s \in Wire
      PROVE  Pair(Ks[k], k, s)
  <2>1. CASE s \in InWire
    BY <1>1, <2>1 DEF PlayerInv, KeyInv
  <2>2. CASE s \notin InWire
    <3>1. PICK g \in 1 .. NumGate : s = Gates[g].c
      BY <2>2, Circuit
    <3> QED BY <1>5, <3>1 DEF KeyRule
  <2> QED BY <2>1, <2>2
<1> QED BY <1>4, <1>5, <1>6, <1>7

(* The wires that a gate reads have been evaluated *)
LEMMA RightBelow ==
  ASSUME Lens = 1, NEW r \in Player, EvalInv(r), phase[r] = "eval", NEW n \in 1 .. NumGate, n = gate[r],
         NEW s, Known(s, n)
  PROVE  Right(r, s)
<1>1. phase[r] \notin Unlabelled \cup {"labels"}
  BY DEF Unlabelled, Unsent, Untabled
<1>2. CASE s \in InWire
  BY <1>1, <1>2 DEF EvalInv
<1>3. CASE s \notin InWire
  <2>1. PICK g \in 1 .. (n - 1) : Gates[g].c = s
    BY <1>3 DEF Known
  <2>2. g \in 1 .. NumGate /\ g < n
    BY Circuit
  <2> QED BY <1>1, <2>1, <2>2 DEF EvalInv
<1> QED BY <1>2, <1>3

(* The values and masks of wires *)
LEMMA HiddenBits ==
  ASSUME Lens = 1, Shapes, NEW s \in Wire
  PROVE  Plain(0)[s] \in Bit /\ Mask(s) \in Bit /\ Hidden(s) \in Bit
<1>1. Plain(0)[s] \in Bit /\ Mask(s) \in Bit
  BY PlainBits, MaskBits DEF Shapes
<1> QED BY <1>1, BitXorIs DEF Hidden

(* A gate evaluated rightly *)
LEMMA EvalKeeps ==
  ASSUME Lens = 1, BInv, NEW r \in Player, Step(r), phase[r] = "eval", NEW n \in 1 .. NumGate, n = gate[r],
         gate' = [gate EXCEPT ![r] = n + 1],
         UNCHANGED <<mode, input, phase, maskbits, opened, Ks, tabs, res, msg>>,
         DOMAIN picked' = Player, DOMAIN picked'[r] = Player,
         \A k \in Player : picked'[r][k] = [picked[r][k] EXCEPT ![Gates[n].c] = Ks[k][Gates[n].c][Hidden(Gates[n].c)]],
         Lambda' = [Lambda EXCEPT ![r][Gates[n].c] = Hidden(Gates[n].c)]
  PROVE  Shapes' /\ PlayerInv(r)'
<1> DEFINE c == Gates[n].c
<1>1. Shapes /\ PlayerInv(r)
  BY DEF BInv
<1>2. /\ phase[r] \notin Untabled \cup {"tables"} /\ phase[r] \notin Untabled
      /\ phase[r] \notin Unsent \cup {"lambda"} /\ phase[r] \notin Unlabelled \cup {"labels"}
      /\ phase[r] \notin Unlabelled
  BY DEF Untabled, Unsent, Unlabelled
<1>3. c \in Wire /\ c \notin InWire /\ NumGate \in Nat
  BY GateIs, Circuit
<1>4. DOMAIN Lambda[r] = Wire /\ \A k \in Player : DOMAIN picked[r][k] = Wire
  BY <1>1 DEF Shapes
<1>5. /\ DOMAIN Lambda' = Player /\ DOMAIN Lambda'[r] = Wire
      /\ Lambda'[r][c] = Hidden(c) /\ \A s \in Wire : s # c => Lambda'[r][s] = Lambda[r][s]
  BY <1>1, <1>3, <1>4 DEF Shapes
<1>6. \A k \in Player :
         /\ DOMAIN picked'[r][k] = Wire
         /\ picked'[r][k][c] = Ks[k][c][Hidden(c)]
         /\ \A s \in Wire : s # c => picked'[r][k][s] = picked[r][k][s]
  BY <1>3, <1>4
<1> HIDE DEF c
<1>7. Shapes'
  <2>1. n + 1 \in 1 .. (NumGate + 1)
    BY <1>3
  <2>2. gate' \in [Player -> 1 .. (NumGate + 1)]
    <3>1. gate \in [Player -> 1 .. (NumGate + 1)]
      BY <1>1 DEF Shapes
    <3> QED BY <2>1, <3>1
  <2>3. /\ phase' \in [Player -> Phases] /\ maskbits' \in [Player -> [Wire -> Bit]]
        /\ DOMAIN opened' = Player /\ DOMAIN Ks' = Player /\ DOMAIN tabs' = Player
        /\ DOMAIN res' = Player /\ DOMAIN msg' = Player /\ DOMAIN Ks'[r] = Wire
        /\ Len(msg'[r]) = Steps(phase'[r])
    BY <1>1 DEF Shapes
  <2>4. (\E S : tabs'[r] \in Seq(S)) /\ (\E S : msg'[r] \in Seq(S))
    BY <1>1 DEF Shapes
  <2> QED BY <1>1, <1>5, <1>6, <2>2, <2>3, <2>4, StepShapes
<1>8. MaskInv(r)' /\ OpenInv(r)' /\ KeyInv(r)'
  BY <1>2, EarlyKeep
<1>9. TabInv(r)'
  BY <1>2, TablesKeep
<1>10. \A i \in InWire : Lambda'[r][i] = Lambda[r][i]
  <2>1. \A i \in InWire : i \in Wire /\ i # c
    BY <1>3, Circuit
  <2> QED BY <1>5, <2>1
<1>11. MsgInv(r)'
  BY <1>10, LateMessages
<1>12. LamInv(r)' /\ \A s : Hidden(s)' = Hidden(s)
  BY <1>2, <1>10, LambdaKeep
<1>13. EvalInv(r)'
  <2>1. /\ \A q \in Player : phase[q] \notin Unlabelled
        /\ \A s \in InWire : Right(r, s)
        /\ \A g \in 1 .. NumGate : g < n => Right(r, Gates[g].c)
    BY <1>1, <1>2 DEF PlayerInv, EvalInv
  <2>2. ASSUME NEW s \in Wire, s # c, Right(r, s)
        PROVE  Right(r, s)'
    BY <1>5, <1>6, <1>12, <2>2 DEF Right
  <2>3. Right(r, c)'
    BY <1>5, <1>6, <1>12 DEF Right
  <2>4. ASSUME NEW s \in InWire PROVE Right(r, s)'
    <3>1. s \in Wire /\ s # c
      BY <1>3, Circuit
    <3> QED BY <2>1, <2>2, <3>1
  <2>5. ASSUME NEW g \in 1 .. NumGate, g < n + 1 PROVE Right(r, Gates[g].c)'
    <3>1. CASE g = n
      BY <2>3, <3>1 DEF c
    <3>2. CASE g # n
      <4>1. g < n
        <5>1. g \in Int /\ n \in Int /\ g < n + 1 /\ g # n
          BY <2>5, <3>2
        <5> QED BY ONLY <5>1
      <4>2. Gates[g].c \in Wire /\ Gates[g].c # c
        BY <4>1, GateIs, Fresh DEF c
      <4> QED BY <2>1, <2>2, <4>1, <4>2
    <3> QED BY <3>1, <3>2
  <2>6. gate'[r] = n + 1 /\ phase' = phase
    BY <1>1 DEF Shapes
  <2> QED BY <2>1, <2>4, <2>5, <2>6 DEF EvalInv
<1>14. ResInv(r)'
  BY <1>1 DEF ResInv
<1> QED BY <1>7, <1>8, <1>9, <1>11, <1>12, <1>13, <1>14 DEF PlayerInv

(* The mask and the masked value behind a gate without a table *)
LEMMA FreeHidden ==
  ASSUME Lens = 1, Shapes, NEW n \in 1 .. NumGate, \A q \in Player : MaskRule(maskbits[q], q, n)
  PROVE  /\ Gates[n].op = "XOR" => Hidden(Gates[n].c) = BitXor(Hidden(Gates[n].a), Hidden(Gates[n].b))
         /\ Gates[n].op = "INV" => Hidden(Gates[n].c) = Hidden(Gates[n].a)
<1> DEFINE a == Gates[n].a
           b == Gates[n].b
           c == Gates[n].c
           F == [q \in Player |-> maskbits[q][a]]
           G == [q \in Player |-> maskbits[q][b]]
           H == [q \in Player |-> maskbits[q][c]]
           E == [q \in Player |-> IF q = 0 THEN 1 ELSE 0]
<1>1. a \in Wire /\ b \in Wire /\ c \in Wire
  BY GateIs
<1>2. /\ Plain(0)[a] \in Bit /\ Plain(0)[b] \in Bit /\ Plain(0)[c] \in Bit
      /\ Mask(a) \in Bit /\ Mask(b) \in Bit
  BY <1>1, HiddenBits
<1>3. \A q \in Player : F[q] \in Bit /\ G[q] \in Bit /\ E[q] \in Bit
  <2>1. \A q \in Player, s \in Wire : maskbits[q][s] \in Bit
    BY MaskBits
  <2>2. 0 \in Bit /\ 1 \in Bit
    BY DEF Bit
  <2>3. \A q \in Player : F[q] = maskbits[q][a] /\ G[q] = maskbits[q][b] /\ E[q] = IF q = 0 THEN 1 ELSE 0
    OBVIOUS
  <2> HIDE DEF F, G, E
  <2> QED BY <1>1, <2>1, <2>2, <2>3
<1>4. \A x, y, z, w \in Bit : BitXor(BitXor(x, y), BitXor(z, w)) = BitXor(BitXor(x, z), BitXor(y, w))
  <2> SUFFICES ASSUME NEW x \in {0, 1}, NEW y \in {0, 1}, NEW z \in {0, 1}, NEW w \in {0, 1}
               PROVE  BitXor(BitXor(x, y), BitXor(z, w)) = BitXor(BitXor(x, z), BitXor(y, w))
    BY DEF Bit
  <2>1. CASE x = 0
    BY <2>1 DEF BitXor
  <2>2. CASE x = 1
    BY <2>2 DEF BitXor
  <2> QED BY <2>1, <2>2
<1>5. /\ Mask(a) = XorBits(Player, LAMBDA q : F[q])
      /\ Mask(b) = XorBits(Player, LAMBDA q : G[q])
      /\ Mask(c) = XorBits(Player, LAMBDA q : H[q])
  <2>1. \A q \in Player : F[q] = maskbits[q][a] /\ G[q] = maskbits[q][b] /\ H[q] = maskbits[q][c]
    OBVIOUS
  <2> HIDE DEF F, G, H
  <2>2. /\ { q \in Player : F[q] = 1 } = { q \in Player : maskbits[q][a] = 1 }
        /\ { q \in Player : G[q] = 1 } = { q \in Player : maskbits[q][b] = 1 }
        /\ { q \in Player : H[q] = 1 } = { q \in Player : maskbits[q][c] = 1 }
    BY <2>1
  <2> QED BY <2>2 DEF Mask, XorBits
<1>6. CASE Gates[n].op = "XOR"
  <2>1. \A q \in Player : H[q] = BitXor(F[q], G[q])
    BY <1>6 DEF MaskRule
  <2>2. Plain(0)[c] = BitXor(Plain(0)[a], Plain(0)[b])
    BY <1>6, PlainIs DEF GateValue
  <2> HIDE DEF F, G, H, a, b, c
  <2>3. \A q \in Player : F[q] \in Bit /\ G[q] \in Bit /\ H[q] = BitXor(F[q], G[q])
    BY <1>3, <2>1
  <2>4. Mask(c) = BitXor(Mask(a), Mask(b))
    <3>1. XorBits(Player, LAMBDA q : H[q])
            = BitXor(XorBits(Player, LAMBDA q : F[q]), XorBits(Player, LAMBDA q : G[q]))
      BY <2>3, BitsSum DEF XorBits
    <3> QED BY <1>5, <3>1
  <2>5. Hidden(c) = BitXor(Hidden(a), Hidden(b))
    BY <1>2, <1>4, <2>2, <2>4 DEF Hidden
  <2> QED BY <1>6, <2>5 DEF a, b, c
<1>7. CASE Gates[n].op = "INV"
  <2>1. \A q \in Player : H[q] = BitXor(F[q], E[q])
    <3>1. \A q \in Player : H[q] = IF q = 0 THEN BitXor(F[q], 1) ELSE F[q]
      BY <1>7 DEF MaskRule
    <3>2. \A q \in Player : E[q] = IF q = 0 THEN 1 ELSE 0
      OBVIOUS
    <3> HIDE DEF F, H, E
    <3> QED BY <1>3, <3>1, <3>2, BitXorIs
  <2>2. Plain(0)[c] = BitXor(Plain(0)[a], 1)
    BY <1>7, PlainIs DEF GateValue
  <2>3. \A q \in Player : E[q] = IF q = 0 THEN 1 ELSE 0
    OBVIOUS
  <2> HIDE DEF F, H, E, a, c
  <2>4. \A q \in Player : F[q] \in Bit /\ E[q] \in Bit /\ H[q] = BitXor(F[q], E[q])
    BY <1>3, <2>1
  <2>5. XorBits(Player, LAMBDA q : E[q]) = 1
    <3>1. 1 \in Bit
      BY DEF Bit
    <3> QED BY <2>3, <3>1, BitsOne DEF XorBits
  <2>6. Mask(c) = BitXor(Mask(a), 1)
    <3>1. XorBits(Player, LAMBDA q : H[q])
            = BitXor(XorBits(Player, LAMBDA q : F[q]), XorBits(Player, LAMBDA q : E[q]))
      BY <2>4, BitsSum DEF XorBits
    <3> QED BY <1>5, <2>5, <3>1
  <2>7. Hidden(c) = Hidden(a)
    <3>1. \A x, y \in Bit : BitXor(BitXor(x, 1), BitXor(y, 1)) = BitXor(x, y)
      <4>1. 1 \in Bit /\ BitXor(1, 1) = 0
        BY DEF Bit, BitXor
      <4> QED BY <1>4, <4>1, BitXorIs
    <3> QED BY <1>2, <2>2, <2>6, <3>1 DEF Hidden
  <2> QED BY <1>7, <2>7 DEF a, c
<1> QED BY <1>6, <1>7

(* An XOR or INV gate is evaluated rightly without a table. *)
LEMMA EvalFreeKeeps ==
  ASSUME Lens = 1, BInv, NEW r \in Player, EvalFree(r)
  PROVE  Shapes' /\ PlayerInv(r)'
<1> DEFINE n == gate[r]
           a == Gates[n].a
           b == Gates[n].b
           c == Gates[n].c
           label(k) == IF Gates[n].op = "XOR" THEN Xor(picked[r][k][a], picked[r][k][b]) ELSE picked[r][k][a]
           lambda == IF Gates[n].op = "XOR" THEN BitXor(Lambda[r][a], Lambda[r][b]) ELSE Lambda[r][a]
<1>1. Shapes /\ PlayerInv(r)
  BY DEF BInv
<1>2. /\ n \in 1 .. NumGate /\ phase[r] = "eval" /\ GateAt(r) = Gates[n]
      /\ \A s \in Wire : At(r, s) = s
  <2>1. gate[r] \in 1 .. (NumGate + 1)
    BY <1>1 DEF Shapes
  <2> QED BY <2>1, Loop DEF EvalFree
<1>3. a \in Wire /\ b \in Wire /\ c \in Wire /\ Known(a, n) /\ Known(b, n)
  BY <1>2, GateIs
<1>4. Gates[n].op \in {"XOR", "INV"}
  BY <1>2, GateIs DEF EvalFree, Kind
<1>5. At(r, GateAt(r).a) = a /\ At(r, GateAt(r).b) = b /\ At(r, GateAt(r).c) = c
  BY <1>2, <1>3
<1>6. /\ picked' = [picked EXCEPT ![r] = [k \in Player |-> [@[k] EXCEPT ![c] = label(k)]]]
      /\ Lambda' = [Lambda EXCEPT ![r][c] = lambda]
      /\ gate' = [gate EXCEPT ![r] = n + 1]
      /\ UNCHANGED <<mode, input, phase, maskbits, opened, Ks, tabs, res, msg>>
  BY <1>2, <1>5 DEF EvalFree, FreeLambda, Advance
<1> HIDE DEF n
<1>7. Right(r, a) /\ Right(r, b)
  <2>1. EvalInv(r) /\ n = gate[r]
    BY <1>1 DEF PlayerInv, n
  <2> QED BY <1>2, <1>3, <2>1, RightBelow
<1>8. /\ \A q \in Player : MaskRule(maskbits[q], q, n) /\ KeyRule(Ks[q], q, n)
      /\ \A q \in Player, s \in Wire : Pair(Ks[q], q, s)
  BY <1>2, Evaluating
<1>9. /\ Gates[n].op = "XOR" => Hidden(c) = BitXor(Hidden(a), Hidden(b))
      /\ Gates[n].op = "INV" => Hidden(c) = Hidden(a)
  BY <1>1, <1>2, <1>8, FreeHidden
<1>10. lambda = Hidden(c)
  BY <1>4, <1>7, <1>9 DEF Right
<1>11. ASSUME NEW k \in Player
       PROVE  label(k) = Ks[k][c][Hidden(c)]
  <2>1. picked[r][k][a] = Ks[k][a][Hidden(a)] /\ picked[r][k][b] = Ks[k][b][Hidden(b)]
    BY <1>7 DEF Right
  <2>2. CASE Gates[n].op = "INV"
    <3>1. Ks[k][c] = Ks[k][a]
      BY <1>8, <2>2 DEF KeyRule
    <3> QED BY <1>9, <2>1, <2>2, <3>1
  <2>3. CASE Gates[n].op = "XOR"
    <3> DEFINE u == Hidden(a)
               v == Hidden(b)
               x == Ks[k][a][0]
               y == Ks[k][b][0]
               t == R(k)
    <3>1. u \in Bit /\ v \in Bit /\ Hidden(c) = BitXor(u, v) /\ Hidden(c) \in Bit
      BY <1>1, <1>3, <1>9, <2>3, HiddenBits
    <3>2. /\ Ks[k][a][u] = IF u = 1 THEN Xor(x, t) ELSE x
          /\ Ks[k][b][v] = IF v = 1 THEN Xor(y, t) ELSE y
          /\ Ks[k][c][Hidden(c)] = IF Hidden(c) = 1 THEN Xor(Ks[k][c][0], t) ELSE Ks[k][c][0]
      BY <1>3, <1>8, <3>1, LabelIs
    <3>3. Ks[k][c][0] = Xor(x, y)
      BY <1>8, <2>3 DEF KeyRule
    <3>4. label(k) = Xor(Ks[k][a][u], Ks[k][b][v])
      BY <2>1, <2>3
    <3>5. Hidden(c) = 1 <=> ~(u = 1 <=> v = 1)
      BY <3>1, BitXorIs
    <3>6. /\ Xor(Xor(x, t), y) = Xor(Xor(x, y), t)
          /\ Xor(x, Xor(y, t)) = Xor(Xor(x, y), t)
          /\ Xor(Xor(x, t), Xor(y, t)) = Xor(x, y)
      BY XorMany
    <3> HIDE DEF u, v, x, y, t, label, c
    <3> QED BY <3>2, <3>3, <3>4, <3>5, <3>6
  <2> QED BY <1>4, <2>2, <2>3
<1>12. Step(r)
  BY DEF Step
<1>13. DOMAIN picked' = Player /\ DOMAIN picked'[r] = Player
       /\ \A k \in Player : picked'[r][k] = [picked[r][k] EXCEPT ![c] = Ks[k][c][Hidden(c)]]
  <2>1. DOMAIN picked = Player
    BY <1>1 DEF Shapes
  <2> HIDE DEF label, c
  <2>2. DOMAIN picked' = Player
        /\ picked'[r] = [k \in Player |-> [picked[r][k] EXCEPT ![c] = label(k)]]
    BY <1>6, <2>1
  <2> QED BY <1>11, <2>2
<1>14. Lambda' = [Lambda EXCEPT ![r][c] = Hidden(c)]
  BY <1>6, <1>10
<1>15. n = gate[r]
  BY DEF n
<1> QED BY <1>2, <1>6, <1>12, <1>13, <1>14, <1>15, EvalKeeps

(* The row of a table for two masked bits *)
LEMMA RowAt ==
  ASSUME NEW u \in Bit, NEW v \in Bit
  PROVE  /\ 2 * v + u \in 0 .. 3
         /\ (2 * v + u) % 2 = u /\ (2 * v + u) \div 2 = v
<1>1. u \in {0, 1} /\ v \in {0, 1}
  BY DEF Bit
<1>2. CASE u = 0
  BY <1>1, <1>2
<1>3. CASE u = 1
  BY <1>1, <1>3
<1> QED BY <1>1, <1>2, <1>3

(* What a table's row for the masked inputs of an AND gate carries *)
LEMMA AndHidden ==
  ASSUME Lens = 1, Shapes, NEW n \in 1 .. NumGate, Gates[n].op = "AND", NEW o,
         \A s \in Wire : o[s] = Mask(s)
  PROVE  RowBit(o, n, 2 * Hidden(Gates[n].b) + Hidden(Gates[n].a)) = Hidden(Gates[n].c)
<1> DEFINE a == Gates[n].a
           b == Gates[n].b
           c == Gates[n].c
           k == 2 * Hidden(b) + Hidden(a)
<1>1. a \in Wire /\ b \in Wire /\ c \in Wire
  BY GateIs
<1>2. /\ Plain(0)[a] \in Bit /\ Plain(0)[b] \in Bit
      /\ Mask(a) \in Bit /\ Mask(b) \in Bit /\ Hidden(a) \in Bit /\ Hidden(b) \in Bit
  BY <1>1, HiddenBits
<1>3. k % 2 = Hidden(a) /\ k \div 2 = Hidden(b)
  BY <1>2, RowAt
<1>4. Plain(0)[c] = Plain(0)[a] * Plain(0)[b]
  BY PlainIs DEF GateValue
<1>5. \A x, y \in Bit : BitXor(x, BitXor(y, x)) = y
  BY BitXorIs
<1>6. BitXor(o[a], Hidden(a)) = Plain(0)[a] /\ BitXor(o[b], Hidden(b)) = Plain(0)[b] /\ o[c] = Mask(c)
  <2>1. o[a] = Mask(a) /\ o[b] = Mask(b) /\ o[c] = Mask(c)
    BY <1>1
  <2> HIDE DEF a, b, c
  <2> QED BY <1>2, <1>5, <2>1 DEF Hidden
<1>7. RowBit(o, n, k) = BitXor(BitXor(o[a], k % 2) * BitXor(o[b], k \div 2), o[c])
  BY DEF RowBit
<1> HIDE DEF a, b, c, k
<1>8. RowBit(o, n, k) = BitXor(Plain(0)[a] * Plain(0)[b], Mask(c))
  BY <1>3, <1>6, <1>7
<1>9. RowBit(o, n, k) = Hidden(c)
  BY <1>4, <1>8 DEF Hidden
<1> QED BY <1>9 DEF a, b, c, k

(* An AND gate's table gives the label of the masked output *)
LEMMA DecryptedIs ==
  ASSUME Lens = 1, BInv, NEW r \in Player, InLoop(r, "eval"), GateAt(r).op = "AND", NEW j \in Player,
         NEW n \in 1 .. NumGate, n = gate[r]
  PROVE  Decrypted(r, j) = Ks[j][Gates[n].c][Hidden(Gates[n].c)]
<1> DEFINE a == Gates[n].a
           b == Gates[n].b
           c == Gates[n].c
           row == 2 * Hidden(b) + Hidden(a)
           hash(k) == Hash(picked[r][k][a], picked[r][k][b], n - 1, j)
           F == Rows(n, j, row)
           G == [q \in Player |-> RowHash(Ks[q], n, j, row)]
           m == RowKey(Ks[j], opened[j], j, n, row)
<1>1. Shapes /\ PlayerInv(r)
  BY DEF BInv
<1>2. /\ phase[r] = "eval" /\ GateAt(r) = Gates[n] /\ GateIndex(r) = n - 1 /\ Tables(r) = Ands(n)
      /\ \A s \in Wire : At(r, s) = s
  <2>1. gate[r] \in 1 .. (NumGate + 1)
    BY <1>1 DEF Shapes
  <2> QED BY <2>1, Loop
<1>3. a \in Wire /\ b \in Wire /\ c \in Wire /\ Known(a, n) /\ Known(b, n)
  BY GateIs
<1>4. At(r, GateAt(r).a) = a /\ At(r, GateAt(r).b) = b
  BY <1>2, <1>3
<1>5. Right(r, a) /\ Right(r, b)
  <2>1. EvalInv(r)
    BY <1>1 DEF PlayerInv
  <2> QED BY <1>2, <1>3, <2>1, RightBelow
<1>6. /\ Lambda[r][a] = Hidden(a) /\ Lambda[r][b] = Hidden(b)
      /\ \A k \in Player : picked[r][k][a] = Ks[k][a][Hidden(a)] /\ picked[r][k][b] = Ks[k][b][Hidden(b)]
  BY <1>5 DEF Right
<1>7. Hidden(a) \in Bit /\ Hidden(b) \in Bit /\ Hidden(c) \in Bit
  BY <1>1, <1>3, HiddenBits
<1>8. row \in 0 .. 3 /\ row % 2 = Hidden(a) /\ row \div 2 = Hidden(b)
  BY <1>7, RowAt
<1>9. Decrypted(r, j) = Xor(tabs[r][Ands(n) + 1][j][row], XorBlocks(Player, LAMBDA k : hash(k)))
  BY <1>2, <1>4, <1>6 DEF Decrypted, XorBlocks
<1>10. \A k \in Player : hash(k) = G[k]
  BY <1>6, <1>8 DEF RowHash
<1>11. XorBlocks(Player, LAMBDA k : hash(k)) = XorAll(G)
  <2> HIDE DEF hash, G
  <2>1. UNION { hash(q) : q \in Player } = UNION { G[q] : q \in Player }
    BY <1>10
  <2>2. \A t : { q \in Player : t \in hash(q) } = { q \in Player : t \in G[q] }
    BY <1>10
  <2> QED BY <2>1, <2>2 DEF XorAll, XorBlocks
<1>12. tabs[r][Ands(n) + 1][j][row] = XorAll(F)
  <2>1. phase[r] \notin Untabled \cup {"tables"}
    BY <1>2 DEF Untabled
  <2>2. n \in AndGates
    BY <1>2 DEF AndGates
  <2>3. Joint(r, n)
    BY <1>1, <2>1, <2>2 DEF PlayerInv, TabInv
  <2> QED BY <1>8, <2>3 DEF Joint
<1>13. \A q \in Player : F[q] = IF q = j THEN Xor(G[q], m) ELSE G[q]
  <2>1. \A q \in Player : F[q] = RowFor(Ks[q], opened[q], q, n, j, row)
    BY DEF Rows
  <2>2. \A q \in Player : G[q] = RowHash(Ks[q], n, j, row)
    OBVIOUS
  <2> HIDE DEF F, G, row
  <2> QED BY <2>1, <2>2 DEF RowFor
<1> HIDE DEF F, G, m
<1>14. Decrypted(r, j) = m
  <2>1. Xor(XorAll(F), XorAll(G)) = m
    BY <1>13, XorOne
  <2> QED BY <1>9, <1>11, <1>12, <2>1
<1>15. RowBit(opened[j], n, row) = Hidden(c)
  <2>1. \A s \in Wire : opened[j][s] = Mask(s)
    BY <1>2, Evaluating
  <2>2. Gates[n].op = "AND"
    BY <1>2
  <2> QED BY <1>1, <2>1, <2>2, AndHidden
<1>16. m = IF Hidden(c) = 1 THEN Xor(Ks[j][c][0], R(j)) ELSE Ks[j][c][0]
  BY <1>15 DEF m, RowKey
<1>17. Pair(Ks[j], j, c)
  BY <1>2, <1>3, Evaluating
<1>18. Ks[j][c][Hidden(c)] = IF Hidden(c) = 1 THEN Xor(Ks[j][c][0], R(j)) ELSE Ks[j][c][0]
  BY <1>7, <1>17, LabelIs
<1> QED BY <1>14, <1>16, <1>18

(* An AND gate is evaluated rightly, and its label is one of the player's   *)
(* pair.                                                                    *)
LEMMA EvalAndKeeps ==
  ASSUME Lens = 1, BInv, NEW r \in Player, EvalAnd(r)
  PROVE  Shapes' /\ PlayerInv(r)'
<1> DEFINE n == gate[r]
           c == Gates[n].c
           mine == Decrypted(r, r)
           first == Ks[r][c][0]
<1>1. Shapes /\ PlayerInv(r)
  BY DEF BInv
<1>2. /\ n \in 1 .. NumGate /\ phase[r] = "eval" /\ GateAt(r) = Gates[n]
      /\ \A s \in Wire : At(r, s) = s
  <2>1. gate[r] \in 1 .. (NumGate + 1)
    BY <1>1 DEF Shapes
  <2> QED BY <2>1, Loop DEF EvalAnd
<1>3. c \in Wire /\ At(r, GateAt(r).c) = c
  BY <1>2, GateIs
<1>4. \A k \in Player : Decrypted(r, k) = Ks[k][c][Hidden(c)]
  BY <1>2, DecryptedIs DEF EvalAnd
<1>5. Hidden(c) \in Bit
  BY <1>1, <1>3, HiddenBits
<1>6. mine = IF Hidden(c) = 1 THEN Xor(first, R(r)) ELSE first
  <2>1. Pair(Ks[r], r, c)
    BY <1>2, <1>3, Evaluating
  <2> QED BY <1>4, <1>5, <2>1, LabelIs
<1>7. Xor(first, R(r)) # first
  BY XorBack DEF R
<1>8. /\ picked' = [picked EXCEPT ![r] = [k \in Player |-> [@[k] EXCEPT ![c] = Decrypted(r, k)]]]
      /\ UNCHANGED <<mode, input, maskbits, opened, Ks, tabs, res, msg>>
      /\ \/ /\ mine = first /\ Lambda' = [Lambda EXCEPT ![r][c] = 0]
            /\ gate' = [gate EXCEPT ![r] = n + 1] /\ phase' = phase
         \/ /\ mine = Xor(first, R(r)) /\ Lambda' = [Lambda EXCEPT ![r][c] = 1]
            /\ gate' = [gate EXCEPT ![r] = n + 1] /\ phase' = phase
         \/ mine \notin { first, Xor(first, R(r)) }
  BY <1>3 DEF EvalAnd, Advance
<1> HIDE DEF mine, first, n
<1>9. Hidden(c) = 0 \/ Hidden(c) = 1
  BY <1>5 DEF Bit
<1>10. /\ Lambda' = [Lambda EXCEPT ![r][c] = Hidden(c)]
       /\ gate' = [gate EXCEPT ![r] = n + 1] /\ phase' = phase
  <2>1. CASE Hidden(c) = 0
    BY <1>6, <1>7, <1>8, <2>1
  <2>2. CASE Hidden(c) = 1
    BY <1>6, <1>7, <1>8, <2>2
  <2> QED BY <1>9, <2>1, <2>2
<1>11. DOMAIN picked' = Player /\ DOMAIN picked'[r] = Player
       /\ \A k \in Player : picked'[r][k] = [picked[r][k] EXCEPT ![c] = Ks[k][c][Hidden(c)]]
  <2>1. DOMAIN picked = Player
    BY <1>1 DEF Shapes
  <2> HIDE DEF c
  <2>2. DOMAIN picked' = Player
        /\ picked'[r] = [k \in Player |-> [picked[r][k] EXCEPT ![c] = Decrypted(r, k)]]
    BY <1>8, <2>1
  <2> QED BY <1>4, <2>2
<1>12. Step(r)
  BY DEF Step
<1>13. n = gate[r]
  BY DEF n
<1> QED BY <1>2, <1>8, <1>10, <1>11, <1>12, <1>13, EvalKeeps

-------------------------------------------------------------------------------
(* The invariant holds at first, and every step keeps it *)

(* The invariant holds at first. *)
LEMMA Start ==
  ASSUME Lens = 1, Init
  PROVE  BInv
<1>1. Slot = Wire /\ NumGate \in Nat
  BY Circuit
<1>2. Shapes
  <2>1. maskbits \in [Player -> [Wire -> Bit]]
    BY <1>1, CircuitAssumption DEF Init
  <2>2. input \in [Player -> InputChoices] /\ mode \in Modes
        /\ phase \in [Player -> Phases] /\ gate \in [Player -> 1 .. (NumGate + 1)]
    BY <1>1 DEF Init, Phases
  <2>3. /\ DOMAIN opened = Player /\ DOMAIN Ks = Player /\ DOMAIN tabs = Player /\ DOMAIN Lambda = Player
        /\ DOMAIN picked = Player /\ DOMAIN res = Player /\ DOMAIN msg = Player
    BY DEF Init
  <2>4. ASSUME NEW p \in Player
        PROVE  /\ DOMAIN Ks[p] = Wire /\ DOMAIN Lambda[p] = Wire /\ DOMAIN picked[p] = Player
               /\ \A k \in Player : DOMAIN picked[p][k] = Wire
               /\ \E S : tabs[p] \in Seq(S)
               /\ \E S : msg[p] \in Seq(S)
               /\ Len(msg[p]) = Steps(phase[p])
    <3>1. DOMAIN Ks[p] = Wire /\ DOMAIN Lambda[p] = Wire /\ DOMAIN picked[p] = Player
          /\ \A k \in Player : DOMAIN picked[p][k] = Wire
      BY <1>1 DEF Init, FirstKs, Constant
    <3>2. tabs[p] = << >> /\ msg[p] = << >> /\ phase[p] = "mask"
      BY DEF Init
    <3>3. << >> \in Seq({}) /\ Len(<< >>) = 0
      OBVIOUS
    <3> QED BY <3>1, <3>2, <3>3 DEF Steps
  <2> QED BY <2>1, <2>2, <2>3, <2>4 DEF Shapes
<1>3. ASSUME NEW p \in Player
      PROVE  PlayerInv(p)
  <2>1. phase[p] = "mask" /\ gate[p] = 1 /\ tabs[p] = << >> /\ Ks[p] = FirstKs(p)
    BY DEF Init
  <2>2. \A g \in 1 .. NumGate : ~(g < 1)
    BY <1>1
  <2>3. phase[p] \in Untabled /\ phase[p] \in Unsent /\ phase[p] \in Unlabelled
    BY <2>1 DEF Untabled, Unsent, Unlabelled
  <2>4. MaskInv(p) /\ OpenInv(p) /\ LamInv(p) /\ EvalInv(p) /\ ResInv(p)
    BY <2>1, <2>2, <2>3 DEF MaskInv, OpenInv, LamInv, EvalInv, ResInv
  <2>5. TabInv(p) /\ MsgInv(p)
    BY <2>1, <2>3 DEF TabInv, MsgInv
  <2>6. ASSUME NEW s \in InWire
        PROVE  Pair(Ks[p], p, s)
    <3> DEFINE random == IF s < Lens * InSize THEN { << p, s, 0 >> } ELSE {}
    <3>1. s \in Slot
      BY <1>1, InputSlot
    <3>2. 0 \in Bit /\ 1 \in Bit /\ 0 # 1
      BY DEF Bit
    <3>3. FirstKs(p)[s][0] = random /\ FirstKs(p)[s][1] = Xor(R(p), random)
      BY <3>1, <3>2 DEF FirstKs
    <3>4. Xor(R(p), random) = Xor(random, R(p))
      BY DEF Xor
    <3> QED BY <2>1, <3>3, <3>4 DEF Pair
  <2>7. KeyInv(p)
    BY <2>1, <2>2, <2>3, <2>6 DEF KeyInv
  <2> QED BY <2>4, <2>5, <2>7 DEF PlayerInv
<1> QED BY <1>2, <1>3 DEF BInv

(* The steps of one player *)
LEMMA OwnKeep ==
  ASSUME Lens = 1, BInv, NEW r \in Player, Step(r)
  PROVE  Shapes' /\ PlayerInv(r)'
<1>1. CASE MaskGate(r)
  BY <1>1, MaskGateKeeps
<1>2. CASE SendMasks(r)
  BY <1>2, SendMasksKeeps
<1>3. CASE RecvMasks(r)
  BY <1>3, RecvMasksKeeps
<1>4. CASE GarbleGate(r)
  BY <1>4, GarbleGateKeeps
<1>5. CASE SendTables(r)
  BY <1>5, SendTablesKeeps
<1>6. CASE RecvTables(r)
  BY <1>6, RecvTablesKeeps
<1>7. CASE SendInputs(r)
  BY <1>7, SendInputsKeeps
<1>8. CASE RecvInputs(r)
  BY <1>8, RecvInputsKeeps
<1>9. CASE SendKeys(r)
  BY <1>9, SendKeysKeeps
<1>10. CASE RecvKeys(r)
  BY <1>10, RecvKeysKeeps
<1>11. CASE EvalAnd(r)
  BY <1>11, EvalAndKeeps
<1>12. CASE EvalFree(r)
  BY <1>12, EvalFreeKeeps
<1>13. CASE Output(r)
  BY <1>13, OutputKeeps
<1> QED BY <1>1, <1>2, <1>3, <1>4, <1>5, <1>6, <1>7, <1>8, <1>9, <1>10, <1>11, <1>12, <1>13 DEF Step

(* Nothing is lost when nothing happens. *)
LEMMA Idle ==
  ASSUME BInv, UNCHANGED vars
  PROVE  BInv'
<1>1. Shapes'
  BY DEF BInv, Shapes, vars, Steps
<1>2. ASSUME NEW p \in Player
      PROVE  PlayerInv(p)'
  <2>1. PlayerInv(p)
    BY DEF BInv
  <2>2. UNCHANGED <<mode, input, phase, gate, maskbits, opened, Ks, tabs, Lambda, picked, res, msg>>
    BY DEF vars
  <2>3. \A s : Mask(s)' = Mask(s) /\ Hidden(s)' = Hidden(s)
    BY <2>2, MaskSame, HiddenSame
  <2>4. MaskInv(p)' /\ OpenInv(p)' /\ KeyInv(p)'
    BY <2>1, <2>2, <2>3 DEF PlayerInv, MaskInv, OpenInv, KeyInv
  <2>5. \A g : Joint(p, g) => Joint(p, g)'
    BY <2>2, JointSame
  <2>6. TabInv(p)'
    BY <2>1, <2>2, <2>5 DEF PlayerInv, TabInv
  <2>7. \A i : Masked(p, 0, i)' = Masked(p, 0, i)
    BY <2>2 DEF Masked
  <2>8. MsgInv(p)'
    BY <2>1, <2>2, <2>7 DEF PlayerInv, MsgInv
  <2>9. LamInv(p)' /\ EvalInv(p)' /\ ResInv(p)'
    BY <2>1, <2>2, <2>3 DEF PlayerInv, LamInv, EvalInv, Right, ResInv, OutputBit
  <2> QED BY <2>4, <2>6, <2>8, <2>9 DEF PlayerInv
<1> QED BY <1>1, <1>2 DEF BInv

(* Every reachable state of the garbling and evaluation of one circuit      *)
(* satisfies the invariant: what has been sent is what was garbled, the     *)
(* tables are the sums of all players' rows, and every wire evaluated is    *)
(* known by the labels of its masked value (BMR.cpp:216-430 and 518-609).   *)
THEOREM BmrInductive ==
  ASSUME Lens = 1
  PROVE  Spec => []BInv
<1>1. Init => BInv
  BY Start
<1>2. BInv /\ [Next]_vars => BInv'
  <2> SUFFICES ASSUME BInv, [Next]_vars PROVE BInv'
    OBVIOUS
  <2>1. ASSUME NEW r \in Player, Step(r) PROVE BInv'
    <3>1. Shapes' /\ PlayerInv(r)'
      BY <2>1, OwnKeep
    <3>2. \A p \in Player : p # r => PlayerInv(p)'
      BY <2>1, OthersKeep
    <3> QED BY <3>1, <3>2 DEF BInv
  <2>2. CASE UNCHANGED vars
    BY <2>2, Idle
  <2> QED BY <2>1, <2>2, Idle DEF Next, Returned
<1> QED BY <1>1, <1>2, PTL DEF Spec

(* No honest player ever finds a label that is neither of its pair: the     *)
(* evaluation never ends in the report of a corruption (BMR.cpp:179),       *)
(* whatever the circuit, the masks and the order of the messages.           *)
THEOREM LabelsGood ==
  ASSUME Lens = 1
  PROVE  Spec => []NeverCorrupted
<1>1. BInv => NeverCorrupted
  BY DEF BInv, Shapes, Phases, NeverCorrupted
<1> QED BY <1>1, BmrInductive, PTL

(* The outputs *)
LEMMA OutputsRight ==
  ASSUME Lens = 1, BInv
  PROVE  SharedOutput
<1> SUFFICES ASSUME \A p \in Player : phase[p] = "done", NEW i \in OutWire
             PROVE  XorBits(Player, LAMBDA p : res[p][0][i]) = Plain(0)[i]
  BY DEF SharedOutput
<1> DEFINE F == [q \in Player |-> maskbits[q][i]]
           E == [q \in Player |-> IF q = 0 THEN Hidden(i) ELSE 0]
           H == [q \in Player |-> OutputBit(q, i)]
<1>1. Shapes /\ \A q \in Player : PlayerInv(q)
  BY DEF BInv
<1>2. i \in Wire
  BY Circuit
<1>3. Plain(0)[i] \in Bit /\ Mask(i) \in Bit /\ Hidden(i) \in Bit /\ 0 \in Bit
  BY <1>1, <1>2, HiddenBits DEF Bit
<1>4. ASSUME NEW q \in Player
      PROVE  Lambda[q][i] = Hidden(i) /\ res[q][0][i] = OutputBit(q, i)
  <2>1. phase[q] = "done" /\ phase[q] \notin Unlabelled \cup {"labels"}
    BY DEF Unlabelled, Unsent, Untabled
  <2>2. /\ \A s \in InWire : Right(q, s)
        /\ \A g \in 1 .. NumGate : Right(q, Gates[g].c)
    BY <1>1, <2>1 DEF PlayerInv, EvalInv
  <2>3. Right(q, i)
    BY <1>2, <2>2, Circuit
  <2> QED BY <1>1, <2>1, <2>3 DEF Right, PlayerInv, ResInv
<1>5. \A q \in Player : H[q] = OutputBit(q, i) /\ F[q] = maskbits[q][i] /\ E[q] = IF q = 0 THEN Hidden(i) ELSE 0
  OBVIOUS
<1> HIDE DEF F, E, H
<1>6. \A q \in Player : F[q] \in Bit /\ E[q] \in Bit
  BY <1>1, <1>2, <1>3, <1>5, MaskBits
<1>7. \A q \in Player : H[q] = BitXor(F[q], E[q])
  <2>1. \A q \in Player : H[q] = IF q = 0 THEN BitXor(F[q], Hidden(i)) ELSE F[q]
    BY <1>4, <1>5 DEF OutputBit
  <2>2. \A q \in Player : BitXor(F[q], 0) = F[q]
    BY <1>6, BitXorIs
  <2> QED BY <1>5, <2>1, <2>2
<1>8. XorBits(Player, LAMBDA q : H[q])
        = BitXor(XorBits(Player, LAMBDA q : F[q]), XorBits(Player, LAMBDA q : E[q]))
  <2>1. \A q \in Player : F[q] \in Bit /\ E[q] \in Bit /\ H[q] = BitXor(F[q], E[q])
    BY <1>6, <1>7
  <2> QED BY <2>1, BitsSum DEF XorBits
<1>9. XorBits(Player, LAMBDA q : E[q]) = Hidden(i)
  BY <1>3, <1>5, BitsOne DEF XorBits
<1>10. XorBits(Player, LAMBDA q : F[q]) = Mask(i)
  <2>1. { q \in Player : F[q] = 1 } = { q \in Player : maskbits[q][i] = 1 }
    BY <1>5
  <2> QED BY <2>1 DEF Mask, XorBits
<1>11. XorBits(Player, LAMBDA q : H[q]) = XorBits(Player, LAMBDA q : res[q][0][i])
  <2>1. { q \in Player : H[q] = 1 } = { q \in Player : res[q][0][i] = 1 }
    BY <1>4, <1>5
  <2> QED BY <2>1 DEF XorBits
<1>12. BitXor(Mask(i), Hidden(i)) = Plain(0)[i]
  <2>1. \A x, y \in Bit : BitXor(x, BitXor(y, x)) = y
    BY BitXorIs
  <2> QED BY <1>3, <2>1 DEF Hidden
<1>13. XorBits(Player, LAMBDA q : res[q][0][i]) = Plain(0)[i]
  BY <1>8, <1>9, <1>10, <1>11, <1>12 DEF XorBits
<1> QED BY <1>13 DEF XorBits

(* When all players have returned from online(verify), the XOR of their     *)
(* bits for an output wire is what the plain circuit computes from the      *)
(* inputs.                                                                  *)
THEOREM Outputs ==
  ASSUME Lens = 1
  PROVE  Spec => []SharedOutput
<1>1. BInv => SharedOutput
  BY OutputsRight
<1> QED BY <1>1, BmrInductive, PTL
===============================================================================
