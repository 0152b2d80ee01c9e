------------------------- MODULE PointFunctionProofs -------------------------
(***************************************************************************)
(* Proofs about PointFunction, for every number of levels, every           *)
(* pseudorandom function and all random choices.  A correction makes what  *)
(* leaves the hidden path agree and keeps the t bits on it apart           *)
(* (OffPath, OnPathBits); PInv collects that for every level and says      *)
(* where the servers are, and each action keeps it.  VInv adds what the    *)
(* servers' values differ by on the path and once they have left it, and   *)
(* which final correction the key has; with it go the two results, of the  *)
(* Eq keys and of the comparison.                                          *)
(***************************************************************************)
EXTENDS PointFunction, Arithmetic, TLAPS

-------------------------------------------------------------------------------
(* Seeds, bits and one level *)

(* Exclusive or of a seed twice *)
LEMMA XorXor ==
  ASSUME NEW a, NEW b, NEW c
  PROVE  SeedXor(b, SeedXor(SeedXor(a, b), c)) = SeedXor(a, c)
BY DEF SeedXor

LEMMA XorTypes ==
  ASSUME NEW a \in Seed, NEW b \in Seed
  PROVE  SeedXor(a, b) \in Seed
BY DEF SeedXor, Seed

LEMMA BitXorTypes ==
  ASSUME NEW a, NEW b
  PROVE  BitXor(a, b) \in Bit
BY DEF BitXor, Bit

(* The four corrections of a level, one by one *)
LEMMA Words ==
  ASSUME NEW o0, NEW o1, NEW t0, NEW a, NEW r, NEW c \in Bit
  PROVE  LET word == Correction(o0, o1, t0, a, r)
         IN  /\ word[0][c].s = r.s[c] /\ word[0][c].t = r.t[c]
             /\ word[1][c].s = IF c = a THEN r.s1
                               ELSE SeedXor(SeedXor(o0.s[c], o1.s[c]), r.s[c])
             /\ word[1][c].t = BitXor(BitXor(r.t[c], BitXor(o0.t[c], o1.t[c])),
                                      IF c = a THEN 1 ELSE 0)
             /\ \A k \in Bit : word[k][c].v = CorrectValues(o0, o1, t0, a, r)[k][c]
<1> DEFINE seeds == CorrectSeeds(o0, o1, a, r, 1)
           values == CorrectValues(o0, o1, t0, a, r)
<1> HIDE DEF seeds, values
<1>1. Correction(o0, o1, t0, a, r) =
        [k \in Bit |-> [b \in Bit |->
           [s |-> seeds[k][b].s, t |-> seeds[k][b].t, v |-> values[k][b]]]]
  BY DEF Correction, CorrectionFor, seeds, values
<1>2. 0 \in Bit /\ 1 \in Bit
  BY DEF Bit
<1> DEFINE s1 == SeedXor(SeedXor(o0.s[c], o1.s[c]), r.s[c])
           t1 == BitXor(BitXor(r.t[c], BitXor(o0.t[c], o1.t[c])), IF c = a THEN 1 ELSE 0)
<1>3. /\ seeds[0][c] = [s |-> r.s[c], t |-> r.t[c]]
      /\ seeds[1][c] = [s |-> IF c = a THEN r.s1 ELSE s1, t |-> t1]
  BY <1>2 DEF seeds, CorrectSeeds
<1> HIDE DEF s1, t1
<1>4. /\ seeds[0][c].s = r.s[c] /\ seeds[0][c].t = r.t[c]
      /\ seeds[1][c].s = IF c = a THEN r.s1 ELSE s1
      /\ seeds[1][c].t = t1
  BY <1>3
<1> QED BY <1>1, <1>2, <1>4 DEF s1, t1, values

(* What is drawn for one level *)
Draws(r) ==
  /\ r.s \in [Bit -> Seed] /\ r.s1 \in Seed
  /\ r.t \in [Bit -> Bit] /\ r.v \in [Bit -> Word]

(* Away from the hidden path both servers reach the same seed and t bit *)
LEMMA OffPath ==
  ASSUME NEW n0 \in Node, NEW n1 \in Node, n0.t # n1.t,
         NEW a \in Bit, NEW c \in Bit, c # a, NEW r, Draws(r)
  PROVE  LET word == Correction(Prg[n0.s], Prg[n1.s], n0.t, a, r)
         IN  Step(n0, word, c) = Step(n1, word, c)
<1> DEFINE o0 == Prg[n0.s]
           o1 == Prg[n1.s]
           word == Correction(o0, o1, n0.t, a, r)
<1>1. n0.t \in Bit /\ n1.t \in Bit
  BY DEF Node
<1>2. word[0][c].s = r.s[c] /\ word[0][c].t = r.t[c]
  BY Words
<1>3. /\ word[1][c].s = SeedXor(SeedXor(o0.s[c], o1.s[c]), r.s[c])
      /\ word[1][c].t = BitXor(BitXor(r.t[c], BitXor(o0.t[c], o1.t[c])), 0)
  BY Words
<1> HIDE DEF word
<1>4. o0 \in Expansion /\ o1 \in Expansion
  BY TreeAssumption DEF Node
<1>5. o0.t[c] \in Bit /\ o1.t[c] \in Bit /\ r.t[c] \in Bit
  BY <1>4 DEF Expansion, Draws
<1> HIDE DEF o0, o1
<1>6. CASE n0.t = 0 /\ n1.t = 1
  <2>1. SeedXor(o1.s[c], word[1][c].s) = SeedXor(o0.s[c], word[0][c].s)
    BY <1>2, <1>3, XorXor
  <2>2. BitXor(o1.t[c], word[1][c].t) = BitXor(o0.t[c], word[0][c].t)
    BY <1>2, <1>3, <1>5 DEF BitXor, Bit
  <2> QED BY <1>6, <2>1, <2>2 DEF Step, o0, o1, word
<1>7. CASE n0.t = 1 /\ n1.t = 0
  <2>1. SeedXor(o0.s[c], word[1][c].s) = SeedXor(o1.s[c], word[0][c].s)
    BY <1>2, <1>3 DEF SeedXor
  <2>2. BitXor(o0.t[c], word[1][c].t) = BitXor(o1.t[c], word[0][c].t)
    BY <1>2, <1>3, <1>5 DEF BitXor, Bit
  <2> QED BY <1>7, <2>1, <2>2 DEF Step, o0, o1, word
<1> QED BY <1>1, <1>6, <1>7 DEF Bit

(* On it the t bits stay apart *)
LEMMA OnPathBits ==
  ASSUME NEW n0 \in Node, NEW n1 \in Node, n0.t # n1.t,
         NEW a \in Bit, NEW r, Draws(r)
  PROVE  LET word == Correction(Prg[n0.s], Prg[n1.s], n0.t, a, r)
         IN  Step(n0, word, a).t # Step(n1, word, a).t
<1> DEFINE o0 == Prg[n0.s]
           o1 == Prg[n1.s]
           word == Correction(o0, o1, n0.t, a, r)
<1>1. n0.t \in Bit /\ n1.t \in Bit
  BY DEF Node
<1>2. /\ word[0][a].t = r.t[a]
      /\ word[1][a].t = BitXor(BitXor(r.t[a], BitXor(o0.t[a], o1.t[a])), 1)
  BY Words
<1> HIDE DEF word
<1>3. o0 \in Expansion /\ o1 \in Expansion
  BY TreeAssumption DEF Node
<1>4. o0.t[a] \in Bit /\ o1.t[a] \in Bit /\ r.t[a] \in Bit
  BY <1>3 DEF Expansion, Draws
<1> HIDE DEF o0, o1
<1>5. /\ BitXor(o0.t[a], word[0][a].t) # BitXor(o1.t[a], word[1][a].t)
      /\ BitXor(o0.t[a], word[1][a].t) # BitXor(o1.t[a], word[0][a].t)
  BY <1>2, <1>4 DEF BitXor, Bit
<1>6. CASE n0.t = 0 /\ n1.t = 1
  BY <1>5, <1>6 DEF Step, o0, o1, word
<1>7. CASE n0.t = 1 /\ n1.t = 0
  BY <1>5, <1>7 DEF Step, o0, o1, word
<1> QED BY <1>1, <1>6, <1>7 DEF Bit

(* What a step reaches depends on the seed and the t bit only *)
LEMMA StepSame ==
  ASSUME NEW n, NEW m, n.s = m.s, n.t = m.t, NEW word, NEW c
  PROVE  Step(n, word, c) = Step(m, word, c)
BY DEF Step

-------------------------------------------------------------------------------
(* Types *)

LEMMA ModWord == ASSUME NEW n \in Int PROVE n % M \in Word
BY TreeAssumption DEF Word

LEMMA LeadTypes ==
  ASSUME beta \in Word, NEW a \in Bit
  PROVE  Lead(a) \in Int
<1>1. beta \in Int
  BY DEF Word
<1>2. CASE a = 0
  BY <1>1, <1>2 DEF Lead
<1>3. CASE a = 1
  BY <1>1, <1>3 DEF Lead
<1> QED BY <1>2, <1>3 DEF Bit

LEMMA ValuesTypes == Values \subseteq Word
<1>1. 0 \in Word
  BY TreeAssumption DEF Word
<1> QED BY <1>1, TreeAssumption DEF Values

LEMMA StepTypes ==
  ASSUME NEW n, n.s \in Seed, n.t \in Bit,
         NEW word \in [Bit -> [Bit -> ValueNode]], NEW c \in Bit
  PROVE  Step(n, word, c) \in Node
<1>1. Prg[n.s].s[c] \in Seed
  BY TreeAssumption DEF Expansion
<1>2. word[n.t][c] \in ValueNode
  OBVIOUS
<1>3. word[n.t][c].s \in Seed
  BY <1>2 DEF ValueNode
<1> QED BY <1>1, <1>3, XorTypes, BitXorTypes DEF Step, Node

LEMMA CorrectionTypes ==
  ASSUME beta \in Word,
         NEW o0 \in Expansion, NEW o1 \in Expansion, NEW t0 \in Bit, NEW a \in Bit,
         NEW r, Draws(r)
  PROVE  Correction(o0, o1, t0, a, r) \in [Bit -> [Bit -> ValueNode]]
<1> DEFINE seeds == CorrectSeeds(o0, o1, a, r, 1)
           values == CorrectValues(o0, o1, t0, a, r)
<1>1. ASSUME NEW k \in Bit, NEW c \in Bit
      PROVE  seeds[k][c].s \in Seed /\ seeds[k][c].t \in Bit
  <2>1. r.s[c] \in Seed /\ r.t[c] \in Bit /\ o0.s[c] \in Seed /\ o1.s[c] \in Seed
    BY DEF Draws, Expansion
  <2>2. SeedXor(SeedXor(o0.s[c], o1.s[c]), r.s[c]) \in Seed
    BY <2>1, XorTypes
  <2> QED BY <2>1, <2>2, BitXorTypes DEF CorrectSeeds, Draws
<1>2. ASSUME NEW k \in Bit, NEW c \in Bit
      PROVE  values[k][c] \in Word
  <2>1. r.v[c] \in Word /\ r.v[c] \in Int /\ o0.v[c] \in Int /\ o1.v[c] \in Int
    BY DEF Draws, Expansion, Word
  <2>2. (IF c = a THEN 0 ELSE Lead(a)) \in Int
    BY LeadTypes
  <2>3. (r.v[c] + o0.v[c] - o1.v[c] - (IF c = a THEN 0 ELSE Lead(a))) % M \in Word
    BY <2>1, <2>2, ModWord
  <2> QED BY <2>1, <2>3 DEF CorrectValues
<1> HIDE DEF seeds, values
<1>3. Correction(o0, o1, t0, a, r) =
        [k \in Bit |-> [c \in Bit |->
           [s |-> seeds[k][c].s, t |-> seeds[k][c].t, v |-> values[k][c]]]]
  BY DEF Correction, CorrectionFor, seeds, values
<1> QED BY <1>1, <1>2, <1>3 DEF ValueNode

-------------------------------------------------------------------------------
(* The actions *)

LEMMA InitStep ==
  ASSUME Init
  PROVE  PInv
<1>1. beta \in Word /\ kind \in Kinds /\ point \in [1 .. N -> Bit]
  BY TreeAssumption DEF Init
<1>2. path = << >> /\ cw = << >> /\ x = << >> /\ done = FALSE
  BY DEF Init
<1>3. /\ path \in Seq([Server -> Node]) /\ Len(path) = 0
      /\ cw \in Seq([Bit -> [Bit -> ValueNode]]) /\ Len(cw) = 0
      /\ x \in Seq(Bit) /\ Len(x) = 0 /\ N \in Nat /\ N >= 1
  BY <1>2, TreeAssumption
<1>4. TypeOK
  <2>1. Len(path) <= N /\ Len(x) <= N /\ Len(cw) = IF path = << >> THEN 0 ELSE Len(path) - 1
    BY <1>2, <1>3
  <2>2. done \in BOOLEAN /\ ~done
    BY <1>2
  <2>3. ~(path # << >>) /\ ~(x # << >>)
    BY <1>2
  <2> QED BY <1>1, <1>3, <2>1, <2>2, <2>3, Zenon DEF TypeOK
<1> QED BY <1>2, <1>3, <1>4 DEF PInv, Follows, Agree

LEMMA GenRootStep ==
  ASSUME PInv, GenRoot
  PROVE  PInv'
<1> DEFINE a == point[1]
<1>1. a \in Bit /\ 1 - a \in Bit /\ N >= 1
  <2>1. point \in [1 .. N -> Bit] /\ 1 \in 1 .. N
    BY TreeAssumption DEF PInv, TypeOK
  <2> QED BY <2>1, TreeAssumption DEF Bit
<1>2. path = << >> /\ cw = << >> /\ x = << >> /\ ~done
  BY TreeAssumption DEF PInv, TypeOK, GenRoot
<1>3. PICK s \in [Server -> RandomSeeds], sn \in RandomSeeds, t \in RandomBits, tn \in RandomBits,
           v \in Values, vn \in Values :
        /\ root' = [b \in Server |-> [c \in Bit |->
                      [s |-> RootSeeds(a, s, sn, t, tn)[b][c].s,
                       t |-> RootSeeds(a, s, sn, t, tn)[b][c].t,
                       v |-> RootValues(a, v, vn)[b][c]]]]
        /\ path' = << [b \in Server |-> RootSeeds(a, s, sn, t, tn)[b][a]] >>
  BY DEF GenRoot
<1>4. UNCHANGED <<kind, point, beta, cw, w, done, x, node>>
  BY DEF GenRoot
<1> DEFINE nodes == RootSeeds(a, s, sn, t, tn)
           values == RootValues(a, v, vn)
<1>5. /\ t \in Bit /\ tn \in Bit /\ 1 - t \in Bit /\ 1 - t # t /\ sn \in Seed
      /\ \A b \in Server : s[b] \in Seed
  BY TreeAssumption DEF Bit
<1>6. /\ \A b \in Server : nodes[b][a] = [s |-> s[b], t |-> nodes[b][a].t]
      /\ nodes[0][a].t = t /\ nodes[1][a].t = 1 - t
  <2>1. ASSUME NEW b \in Server
        PROVE  /\ nodes[b][a].s = s[b] /\ nodes[b][a] = [s |-> s[b], t |-> nodes[b][a].t]
               /\ nodes[b][a].t = IF b = 0 THEN t ELSE 1 - t
    <3> DEFINE bit == IF b = 0 THEN t ELSE 1 - t
    <3>1. nodes[b][a] = [s |-> s[b], t |-> bit]
      BY <1>1 DEF RootSeeds
    <3> HIDE DEF bit, nodes
    <3>2. nodes[b][a].s = s[b] /\ nodes[b][a].t = bit
      BY <3>1
    <3> QED BY <3>1, <3>2 DEF bit
  <2> HIDE DEF nodes
  <2>2. 0 \in Server /\ 1 \in Server
    BY DEF Server
  <2>3. nodes[0][a].t = t
    BY <2>1, <2>2
  <2>4. nodes[1][a].t = 1 - t
    <3>1. nodes[1][a].t = IF 1 = 0 THEN t ELSE 1 - t
      BY <2>1, <2>2, Zenon
    <3>2. 1 # 0
      OBVIOUS
    <3> QED BY <3>1, <3>2, Zenon
  <2>5. \A b \in Server : nodes[b][a] = [s |-> s[b], t |-> nodes[b][a].t]
    BY <2>1, Zenon
  <2> QED BY <2>3, <2>4, <2>5, Zenon
<1>7. \A b \in Server, c \in Bit : c # a => nodes[b][c] = [s |-> sn, t |-> tn]
  BY DEF RootSeeds
<1>8. \A b \in Server, c \in Bit : nodes[b][c].s \in Seed /\ nodes[b][c].t \in Bit /\ nodes[b][c] \in Node
  <2> SUFFICES ASSUME NEW b \in Server, NEW c \in Bit
               PROVE  nodes[b][c].s \in Seed /\ nodes[b][c].t \in Bit /\ nodes[b][c] \in Node
    OBVIOUS
  <2> HIDE DEF nodes
  <2>1. CASE c = a
    <3>1. nodes[b][a].t \in Bit
      BY <1>5, <1>6 DEF Server
    <3>2. nodes[b][a] = [s |-> s[b], t |-> nodes[b][a].t]
      BY <1>6
    <3>3. nodes[b][a] \in Node /\ nodes[b][a].s = s[b]
      <4> DEFINE bit == nodes[b][a].t
      <4>1. nodes[b][a] = [s |-> s[b], t |-> bit] /\ bit \in Bit
        BY <3>1, <3>2
      <4> HIDE DEF bit
      <4> QED BY <4>1, <1>5 DEF Node
    <3> QED BY <2>1, <3>1, <3>3, <1>5
  <2>2. CASE c # a
    BY <2>2, <1>5, <1>7 DEF Node
  <2> QED BY <2>1, <2>2
<1>9. \A b \in Server, c \in Bit : values[b][c] \in Word
  <2>1. v \in Word /\ vn \in Word /\ vn \in Int
    BY ValuesTypes DEF Word
  <2>2. (vn - Lead(a)) % M \in Word
    BY <2>1, <1>1, LeadTypes, ModWord DEF PInv, TypeOK
  <2> QED BY <2>1, <2>2 DEF RootValues
<1> HIDE DEF a, nodes, values
<1>10. /\ root' = [b \in Server |-> [c \in Bit |->
                     [s |-> nodes[b][c].s, t |-> nodes[b][c].t, v |-> values[b][c]]]]
       /\ path' = << [b \in Server |-> nodes[b][a]] >>
  BY <1>3 DEF nodes, values, a
<1>11. root' \in [Server -> [Bit -> ValueNode]]
  BY <1>8, <1>9, <1>10 DEF ValueNode
<1>12. path' \in Seq([Server -> Node]) /\ Len(path') = 1 /\ path' # << >>
  BY <1>1, <1>8, <1>10
<1>13. TypeOK'
  BY <1>1, <1>2, <1>4, <1>11, <1>12 DEF PInv, TypeOK
<1>14. 0 \in Server /\ 1 \in Server
  BY DEF Server
<1>15. RootOK'
  <2>1. \A b \in Server : path'[1][b] = nodes[b][a]
    BY <1>10
  <2>2. \A b \in Server, c \in Bit : root'[b][c].s = nodes[b][c].s /\ root'[b][c].t = nodes[b][c].t
    BY <1>10
  <2>3. point'[1] = a
    BY <1>4 DEF a
  <2>4. path'[1][0].t # path'[1][1].t
    <3>1. nodes[0][a].t = t /\ nodes[1][a].t = 1 - t
      BY <1>6, <1>14
    <3> QED BY <2>1, <3>1, <1>5, <1>14
  <2>5. \A c \in Bit \ {a} : root'[0][c].s = root'[1][c].s /\ root'[0][c].t = root'[1][c].t
    BY <2>2, <1>7, <1>14
  <2> QED BY <1>1, <2>1, <2>2, <2>3, <2>4, <2>5 DEF RootOK, a
<1> QED BY <1>2, <1>4, <1>13, <1>15 DEF PInv, Follows, Agree

(* The client's two nodes have different t bits *)
LEMMA TopApart ==
  ASSUME PInv, path # << >>
  PROVE  path[Len(path)][0].t # path[Len(path)][1].t
<1> DEFINE n == Len(path)
<1>1. n \in Nat \ {0} /\ Len(cw) = n - 1
  BY DEF PInv, TypeOK
<1>2. CASE n = 1
  BY <1>2 DEF PInv, RootOK
<1>3. CASE n # 1
  <2>1. n - 1 \in 1 .. Len(cw) /\ (n - 1) + 1 = n
    BY <1>1, <1>3
  <2> HIDE DEF n
  <2>2. LevelOK(n - 1)
    BY <2>1 DEF PInv
  <2> QED BY <2>1, <2>2 DEF LevelOK, n
<1> QED BY <1>2, <1>3

LEMMA GenLevelStep ==
  ASSUME PInv, GenLevel
  PROVE  PInv'
<1> DEFINE n == Len(path)
           a == point[n + 1]
           n0 == path[n][0]
           n1 == path[n][1]
<1>1. /\ n \in 1 .. (N - 1) /\ n + 1 \in 1 .. N /\ ~done /\ x = << >>
      /\ a \in Bit /\ path \in Seq([Server -> Node]) /\ beta \in Word
      /\ cw \in Seq([Bit -> [Bit -> ValueNode]]) /\ Len(cw) = n - 1 /\ path # << >>
  BY TreeAssumption DEF PInv, TypeOK, GenLevel
<1>2. n0 \in Node /\ n1 \in Node /\ \A b \in Server : path[n][b] \in Node
  BY <1>1 DEF Server
<1>3. n0.t # n1.t
  BY <1>1, TopApart
<1>4. PICK s \in [Bit -> RandomSeeds], s1 \in RandomSeeds, t \in [Bit -> RandomBits],
           v \in [Bit -> Values] :
        LET word == Correction(Prg[n0.s], Prg[n1.s], n0.t, a,
                               [s |-> s, s1 |-> s1, t |-> t, v |-> v])
        IN  /\ cw' = Append(cw, word)
            /\ path' = Append(path, [b \in Server |-> Step(path[n][b], word, a)])
  BY DEF GenLevel
<1>5. UNCHANGED <<kind, point, beta, root, w, done, x, node>>
  BY DEF GenLevel
<1> DEFINE r == [s |-> s, s1 |-> s1, t |-> t, v |-> v]
           word == Correction(Prg[n0.s], Prg[n1.s], n0.t, a, r)
           new == [b \in Server |-> Step(path[n][b], word, a)]
<1>6. Draws(r)
  <2>1. s \in [Bit -> Seed] /\ s1 \in Seed /\ t \in [Bit -> Bit] /\ v \in [Bit -> Word]
    BY TreeAssumption, ValuesTypes
  <2> QED BY <2>1 DEF Draws
<1> HIDE DEF r
<1>7. Step(n0, word, a).t # Step(n1, word, a).t
  BY <1>1, <1>2, <1>3, <1>6, OnPathBits
<1>8. \A c \in Bit \ {a} : Step(n0, word, c) = Step(n1, word, c)
  <2> SUFFICES ASSUME NEW c \in Bit, c # a
               PROVE  Step(n0, word, c) = Step(n1, word, c)
    OBVIOUS
  <2> HIDE DEF n0, n1, a
  <2> QED BY <1>1, <1>2, <1>3, <1>6, OffPath DEF word
<1>9. word \in [Bit -> [Bit -> ValueNode]]
  <2>1. Prg[n0.s] \in Expansion /\ Prg[n1.s] \in Expansion /\ n0.t \in Bit
    BY <1>2, TreeAssumption DEF Node
  <2> QED BY <2>1, <1>1, <1>6, CorrectionTypes
<1>10. cw' = Append(cw, word) /\ path' = Append(path, new)
  BY <1>4 DEF r
<1> HIDE DEF word
<1>11. new \in [Server -> Node]
  BY <1>1, <1>2, <1>9, StepTypes DEF Node
<1>12. /\ new[0] = Step(n0, word, a) /\ new[1] = Step(n1, word, a)
       /\ \A b \in Server : new[b] = Step(path[n][b], word, a)
  BY DEF Server
<1> HIDE DEF new, n0, n1
<1>13. /\ path' \in Seq([Server -> Node]) /\ Len(path') = n + 1 /\ path' # << >>
       /\ path'[n + 1] = new /\ \A j \in 1 .. n : path'[j] = path[j]
  BY <1>1, <1>10, <1>11
<1>14. /\ cw' \in Seq([Bit -> [Bit -> ValueNode]]) /\ Len(cw') = n
       /\ cw'[n] = word /\ \A j \in 1 .. (n - 1) : cw'[j] = cw[j]
  BY <1>1, <1>9, <1>10
<1> HIDE DEF n
<1>15. TypeOK'
  BY <1>1, <1>5, <1>13, <1>14 DEF PInv, TypeOK
<1>16. RootOK'
  BY <1>1, <1>5, <1>13 DEF PInv, RootOK
<1>17. ASSUME NEW j \in 1 .. Len(cw')
       PROVE  LevelOK(j)'
  <2>1. CASE j = n
    <3>1. /\ path'[j] = path[n] /\ path'[j + 1] = new /\ cw'[j] = word
          /\ point'[j + 1] = a
      BY <2>1, <1>1, <1>5, <1>13, <1>14
    <3>2. /\ path'[j][0] = n0 /\ path'[j][1] = n1
      BY <3>1 DEF n0, n1
    <3>3. \A b \in Server : path'[j + 1][b] = Step(path'[j][b], cw'[j], point'[j + 1])
      BY <3>1, <1>12
    <3>4. path'[j + 1][0].t # path'[j + 1][1].t
      BY <3>1, <1>7, <1>12
    <3>5. \A c \in Bit \ {point'[j + 1]} :
            Step(path'[j][0], cw'[j], c) = Step(path'[j][1], cw'[j], c)
      BY <3>1, <3>2, <1>8
    <3> QED BY <3>3, <3>4, <3>5 DEF LevelOK
  <2>2. CASE j # n
    <3>1. j \in 1 .. Len(cw) /\ j \in 1 .. n /\ j + 1 \in 1 .. n /\ j \in 1 .. (n - 1)
      BY <2>2, <1>1, <1>14
    <3>2. path'[j] = path[j] /\ path'[j + 1] = path[j + 1] /\ cw'[j] = cw[j] /\ point' = point
      BY <3>1, <1>5, <1>13, <1>14
    <3>3. LevelOK(j)
      BY <3>1 DEF PInv
    <3> QED BY <3>2, <3>3 DEF LevelOK
  <2> QED BY <2>1, <2>2
<1> QED BY <1>1, <1>5, <1>15, <1>16, <1>17 DEF PInv, Follows, Agree

LEMMA FinishStep ==
  ASSUME PInv, Finish
  PROVE  PInv'
<1>1. UNCHANGED <<kind, point, beta, root, path, cw, x, node>>
  BY DEF Finish
<1>2. done' = TRUE /\ Len(path) = N
  BY DEF Finish
<1>3. TypeOK'
  BY <1>1, <1>2 DEF PInv, TypeOK
<1> QED BY <1>1, <1>3 DEF PInv, RootOK, LevelOK, Follows, OnPath, Agree

LEMMA EvalRootStep ==
  ASSUME PInv, EvalRoot
  PROVE  PInv'
<1>1. PICK c \in Bit : x' = << c >> /\ node' = [b \in Server |-> root[b][c]]
  BY DEF EvalRoot
<1>2. done /\ UNCHANGED <<kind, point, beta, root, path, cw, w, done>>
  BY DEF EvalRoot
<1>3. Len(path) = N /\ N \in Nat \ {0} /\ path # << >>
  BY <1>2, TreeAssumption DEF PInv, TypeOK
<1>4. RootOK /\ root \in [Server -> [Bit -> ValueNode]]
  BY <1>3 DEF PInv, TypeOK
<1>5. x' \in Seq(Bit) /\ Len(x') = 1 /\ x'[1] = c /\ x' # << >>
  BY <1>1
<1>6. \A b \in Server : node'[b] = root[b][c]
  BY <1>1
<1>7. 0 \in Server /\ 1 \in Server
  BY DEF Server
<1>8. TypeOK'
  <2>1. node' \in [Server -> ValueNode]
    BY <1>1, <1>4
  <2> QED BY <2>1, <1>2, <1>3, <1>5 DEF PInv, TypeOK
<1>9. OnPath' <=> c = point[1]
  BY <1>2, <1>5 DEF OnPath
<1>10. Follows'
  <2> SUFFICES ASSUME c = point[1], NEW b \in Server
               PROVE  /\ node'[b].s = path[1][b].s /\ node'[b].t = path[1][b].t
    BY <1>2, <1>5, <1>9 DEF Follows
  <2> QED BY <1>4, <1>6 DEF RootOK
<1>11. Agree'
  <2>1. CASE c = point[1]
    <3>1. node'[0].t # node'[1].t
      BY <2>1, <1>4, <1>6, <1>7 DEF RootOK
    <3> QED BY <2>1, <3>1, <1>9 DEF Agree
  <2>2. CASE c # point[1]
    <3>1. node'[0].s = node'[1].s /\ node'[0].t = node'[1].t
      BY <2>2, <1>4, <1>6, <1>7 DEF RootOK
    <3> QED BY <2>2, <3>1, <1>9 DEF Agree
  <2> QED BY <2>1, <2>2
<1>12. RootOK' /\ \A j \in 1 .. Len(cw) : LevelOK(j)'
  BY <1>2, <1>4 DEF PInv, RootOK, LevelOK
<1> QED BY <1>2, <1>8, <1>10, <1>11, <1>12 DEF PInv

LEMMA EvalLevelStep ==
  ASSUME PInv, EvalLevel
  PROVE  PInv'
<1> DEFINE n == Len(x)
           word == cw[n]
<1>1. /\ n \in 1 .. (N - 1) /\ x \in Seq(Bit) /\ x # << >>
      /\ done /\ node \in [Server -> ValueNode]
  BY TreeAssumption DEF PInv, TypeOK, EvalLevel
<1>2. Len(path) = N /\ path # << >> /\ Len(cw) = N - 1 /\ N \in Nat
  BY <1>1, TreeAssumption DEF PInv, TypeOK
<1>3. n \in 1 .. Len(cw) /\ word \in [Bit -> [Bit -> ValueNode]]
  BY <1>1, <1>2 DEF PInv, TypeOK
<1>4. LevelOK(n)
  BY <1>3 DEF PInv
<1>5. PICK c \in Bit :
        /\ x' = Append(x, c)
        /\ node' = [b \in Server |-> [s |-> Step(node[b], word, c).s,
                                     t |-> Step(node[b], word, c).t,
                                     v |-> Gain(node[b], word, c)]]
  BY DEF EvalLevel
<1>6. UNCHANGED <<kind, point, beta, root, path, cw, w, done>>
  BY DEF EvalLevel
<1> HIDE DEF word
<1>7. /\ x' \in Seq(Bit) /\ Len(x') = n + 1 /\ x'[n + 1] = c /\ x' # << >>
      /\ \A k \in 1 .. n : x'[k] = x[k]
  BY <1>1, <1>5
<1>8. ASSUME NEW b \in Server
      PROVE  /\ Step(node[b], word, c) \in Node
             /\ Gain(node[b], word, c) \in Word
  <2>1. node[b].s \in Seed /\ node[b].t \in Bit /\ node[b].v \in Int
    BY <1>1 DEF ValueNode, Word
  <2>2. Prg[node[b].s].v[c] \in Int
    BY <2>1, TreeAssumption DEF Expansion, Word
  <2>3. word[node[b].t][c] \in ValueNode
    BY <2>1, <1>3
  <2>4. word[node[b].t][c].v \in Int
    BY <2>3 DEF ValueNode, Word
  <2> QED BY <2>1, <2>2, <2>4, <1>3, StepTypes, ModWord DEF Gain
<1>9. \A b \in Server : /\ node'[b].s = Step(node[b], word, c).s
                        /\ node'[b].t = Step(node[b], word, c).t
  BY <1>5
<1>10. TypeOK'
  <2>1. node' \in [Server -> ValueNode]
    BY <1>5, <1>8 DEF Node, ValueNode
  <2> QED BY <2>1, <1>1, <1>2, <1>6, <1>7 DEF PInv, TypeOK
<1> HIDE DEF n
<1>11. OnPath' <=> (OnPath /\ c = point[n + 1])
  <2>1. OnPath <=> \A k \in 1 .. n : x[k] = point[k]
    BY DEF OnPath, n
  <2>2. OnPath' <=> \A k \in 1 .. (n + 1) : x'[k] = point[k]
    BY <1>6, <1>7 DEF OnPath
  <2>3. \A k : k \in 1 .. (n + 1) <=> (k \in 1 .. n \/ k = n + 1)
    BY <1>1
  <2> QED BY <2>1, <2>2, <2>3, <1>7
<1>12. 0 \in Server /\ 1 \in Server
  BY DEF Server
<1>13. ASSUME OnPath, NEW b \in Server
       PROVE  Step(node[b], word, c) = Step(path[n][b], word, c)
  <2>1. node[b].s = path[n][b].s /\ node[b].t = path[n][b].t
    BY <1>1, <1>13 DEF PInv, Follows, n
  <2> QED BY <2>1, StepSame
<1>14. CASE OnPath /\ c = point[n + 1]
  <2>1. \A b \in Server : Step(node[b], word, c) = path[n + 1][b]
    BY <1>4, <1>13, <1>14 DEF LevelOK, word
  <2>2. \A b \in Server : node'[b].s = path[n + 1][b].s /\ node'[b].t = path[n + 1][b].t
    BY <2>1, <1>9
  <2>3. path[n + 1][0].t # path[n + 1][1].t
    BY <1>4 DEF LevelOK
  <2>4. Follows'
    BY <2>2, <1>6, <1>7 DEF Follows
  <2>5. Agree'
    BY <2>2, <2>3, <1>11, <1>12, <1>14 DEF Agree
  <2> QED BY <2>4, <2>5, <1>6, <1>10 DEF PInv, RootOK, LevelOK
<1>15. CASE ~(OnPath /\ c = point[n + 1])
  <2>1. Step(node[0], word, c) = Step(node[1], word, c)
    <3>1. CASE OnPath
      <4>1. Step(path[n][0], word, c) = Step(path[n][1], word, c)
        BY <3>1, <1>4, <1>15 DEF LevelOK, word
      <4> QED BY <3>1, <4>1, <1>12, <1>13
    <3>2. CASE ~OnPath
      <4>1. node[0].s = node[1].s /\ node[0].t = node[1].t
        BY <3>2, <1>1 DEF PInv, Agree
      <4> QED BY <4>1, StepSame
    <3> QED BY <3>1, <3>2
  <2>2. node'[0].s = node'[1].s /\ node'[0].t = node'[1].t
    BY <2>1, <1>9, <1>12
  <2>3. Follows' /\ Agree'
    BY <2>2, <1>11, <1>15 DEF Follows, Agree
  <2> QED BY <2>3, <1>6, <1>10 DEF PInv, RootOK, LevelOK
<1> QED BY <1>14, <1>15

-------------------------------------------------------------------------------
(* Theorems *)

(* On the hidden path the servers are where the client was, off it they    *)
(* are in one state, for every number of levels.                           *)
THEOREM Inductive == Spec => []PInv
<1>1. PInv /\ [Next]_vars => PInv'
  <2> SUFFICES ASSUME PInv, [Next]_vars
               PROVE  PInv'
    OBVIOUS
  <2>1. CASE UNCHANGED vars
    BY <2>1 DEF vars, PInv, TypeOK, RootOK, LevelOK, Follows, OnPath, Agree
  <2> QED BY <2>1, GenRootStep, GenLevelStep, FinishStep, EvalRootStep, EvalLevelStep
          DEF Next, Returned
<1> QED BY InitStep, <1>1, PTL DEF Spec

(* Off the hidden path the servers' states are the same and stay so; on it *)
(* their t bits differ.                                                    *)
THEOREM Agreement == Spec => []Agree
<1>1. PInv => Agree
  BY DEF PInv
<1> QED BY <1>1, Inductive, PTL

(* Every variable of the client and the servers keeps its type.            *)
THEOREM TypeCorrect == Spec => []TypeOK
<1>1. PInv => TypeOK
  BY DEF PInv
<1> QED BY <1>1, Inductive, PTL

-------------------------------------------------------------------------------
(* The values *)

LEMMA Sizes == M \in Nat \ {0} /\ N \in Nat \ {0} /\ (\A y \in Word : y \in Int) /\ 0 \in Server /\ 1 \in Server
BY TreeAssumption DEF Word, Server

(* What leaves the hidden path differs by the value the path leads to *)
LEMMA Gains ==
  ASSUME NEW n0 \in Node, NEW n1 \in Node, n0.t # n1.t, beta \in Word,
         NEW a \in Bit, NEW c \in Bit, NEW r, Draws(r)
  PROVE  LET word == Correction(Prg[n0.s], Prg[n1.s], n0.t, a, r)
         IN  /\ Prg[n0.s].v[c] \in Int /\ Prg[n1.s].v[c] \in Int
             /\ word[n0.t][c].v \in Int /\ word[n1.t][c].v \in Int
             /\ (Prg[n0.s].v[c] + word[n0.t][c].v - Prg[n1.s].v[c] - word[n1.t][c].v) % M
                  = (IF c = a THEN 0 ELSE Lead(a)) % M
<1> DEFINE o0 == Prg[n0.s]
           o1 == Prg[n1.s]
           word == Correction(o0, o1, n0.t, a, r)
           lead == IF c = a THEN 0 ELSE Lead(a)
           u0 == o0.v[c]
           u1 == o1.v[c]
           rv == r.v[c]
           z == rv + u0 - u1 - lead
           y == z % M
<1>1. n0.t \in Bit /\ n1.t \in Bit /\ n1.t # n0.t
  BY DEF Node
<1>2. \A k \in Bit : word[k][c].v = CorrectValues(o0, o1, n0.t, a, r)[k][c]
  <2> DEFINE seeds == CorrectSeeds(o0, o1, a, r, 1)
             values == CorrectValues(o0, o1, n0.t, a, r)
  <2> HIDE DEF seeds, values
  <2>1. word = [k \in Bit |-> [b \in Bit |->
                  [s |-> seeds[k][b].s, t |-> seeds[k][b].t, v |-> values[k][b]]]]
    BY DEF Correction, CorrectionFor, seeds, values
  <2> HIDE DEF word
  <2>2. \A k \in Bit : word[k][c].v = values[k][c]
    BY <2>1
  <2> QED BY <2>2 DEF values
<1> HIDE DEF word
<1>3. o0 \in Expansion /\ o1 \in Expansion
  BY TreeAssumption DEF Node
<1>4. u0 \in Int /\ u1 \in Int /\ rv \in Int
  BY <1>3, Sizes DEF Expansion, Draws
<1>5. lead \in Int
  BY LeadTypes
<1>6. word[n0.t][c].v = rv /\ word[n1.t][c].v = y
  BY <1>1, <1>2 DEF CorrectValues
<1> HIDE DEF o0, o1, u0, u1, rv, lead
<1>7. z \in Int
  BY <1>4, <1>5
<1> HIDE DEF z
<1>8. y \in Int /\ Same(M, y, z)
  BY <1>7, Sizes, SameMod
<1> HIDE DEF y
<1> DEFINE d == u0 + rv - u1
<1>9. d \in Int /\ d - y \in Int /\ d - z = lead /\ d - y = u0 + rv - u1 - y
  BY <1>4, <1>5, <1>8 DEF z
<1> HIDE DEF d
<1>10. Same(M, d, d)
  BY DEF Same
<1>11. Same(M, d - y, d - z)
  BY <1>7, <1>8, <1>9, <1>10, Sizes, SameMinus
<1>12. (u0 + rv - u1 - y) % M = lead % M
  BY <1>9, <1>11 DEF Same
<1> QED BY <1>4, <1>6, <1>8, <1>12 DEF word, o0, o1, u0, u1, lead

-------------------------------------------------------------------------------
(* The values, action by action *)

LEMMA InitValues ==
  ASSUME Init
  PROVE  VInv
<1>1. PInv
  BY InitStep
<1>2. path = << >> /\ cw = << >> /\ x = << >> /\ done = FALSE
  BY DEF Init
<1> QED BY <1>1, <1>2 DEF VInv, Difference

LEMMA GenRootValues ==
  ASSUME VInv, GenRoot
  PROVE  VInv'
<1> DEFINE a == point[1]
<1>1. a \in Bit /\ beta \in Word
  BY TreeAssumption DEF VInv, PInv, TypeOK
<1>2. PInv'
  BY GenRootStep DEF VInv
<1>3. path = << >> /\ cw = << >> /\ x = << >> /\ ~done
  BY TreeAssumption DEF VInv, PInv, TypeOK, GenRoot
<1>4. PICK s \in [Server -> RandomSeeds], sn \in RandomSeeds, t \in RandomBits, tn \in RandomBits,
           v \in Values, vn \in Values :
        /\ root' = [b \in Server |-> [c \in Bit |->
                      [s |-> RootSeeds(a, s, sn, t, tn)[b][c].s,
                       t |-> RootSeeds(a, s, sn, t, tn)[b][c].t,
                       v |-> RootValues(a, v, vn)[b][c]]]]
        /\ path' = << [b \in Server |-> RootSeeds(a, s, sn, t, tn)[b][a]] >>
  BY DEF GenRoot
<1>5. UNCHANGED <<kind, point, beta, cw, w, done, x, node>>
  BY DEF GenRoot
<1>6. v \in Int /\ vn \in Int /\ Lead(a) \in Int
  BY <1>1, ValuesTypes, LeadTypes, Sizes
<1>7. ASSUME NEW c \in Bit
      PROVE  (root'[0][c].v - root'[1][c].v) % M = (IF c = a THEN 0 ELSE Lead(a)) % M
  <2>1. \A b \in Server : root'[b][c].v = RootValues(a, v, vn)[b][c]
    BY <1>4
  <2>2. CASE c = a
    <3>1. root'[0][c].v = v /\ root'[1][c].v = v
      BY <2>1, <2>2, Sizes DEF RootValues
    <3>2. v - v = 0
      BY <1>6
    <3> QED BY <2>2, <3>1, <3>2
  <2>3. CASE c # a
    <3> DEFINE z == vn - Lead(a)
               y == z % M
    <3>1. root'[0][c].v = vn /\ root'[1][c].v = y
      BY <2>1, <2>3, Sizes DEF RootValues
    <3>2. z \in Int /\ vn - z = Lead(a)
      BY <1>6
    <3> HIDE DEF z
    <3>3. y \in Int /\ Same(M, y, z)
      BY <3>2, Sizes, SameMod
    <3> HIDE DEF y
    <3>4. Same(M, vn, vn)
      BY DEF Same
    <3>5. Same(M, vn - y, vn - z)
      BY <1>6, <3>2, <3>3, <3>4, Sizes, SameMinus
    <3> QED BY <2>3, <3>1, <3>2, <3>5 DEF Same
  <2> QED BY <2>2, <2>3
<1>8. RootGain'
  BY <1>5, <1>7 DEF RootGain, Lead
<1> QED BY <1>2, <1>3, <1>5, <1>8 DEF VInv, Difference

LEMMA WordIs ==
  ASSUME NEW a \in Int, NEW b \in Word, Same(M, a, b)
  PROVE  a % M = b
<1>1. b \in Int /\ a % M \in 0 .. (M - 1) /\ Same(M, a % M, a)
  BY Sizes, SameMod
<1>2. Same(M, a % M, b)
  BY <1>1, SameTrans
<1> QED BY <1>1, <1>2, Sizes, SameEqual DEF Word

LEMMA GenLevelValues ==
  ASSUME VInv, GenLevel
  PROVE  VInv'
<1> DEFINE n == Len(path)
           a == point[n + 1]
           n0 == path[n][0]
           n1 == path[n][1]
<1>1. /\ n \in 1 .. (N - 1) /\ n + 1 \in 1 .. N /\ ~done /\ x = << >>
      /\ a \in Bit /\ path \in Seq([Server -> Node]) /\ beta \in Word
      /\ cw \in Seq([Bit -> [Bit -> ValueNode]]) /\ Len(cw) = n - 1 /\ path # << >>
  BY TreeAssumption DEF VInv, PInv, TypeOK, GenLevel
<1>2. PInv'
  BY GenLevelStep DEF VInv
<1>3. n0 \in Node /\ n1 \in Node /\ n0.t # n1.t
  BY <1>1, TopApart, Sizes DEF VInv
<1>4. PICK s \in [Bit -> RandomSeeds], s1 \in RandomSeeds, t \in [Bit -> RandomBits],
           v \in [Bit -> Values] :
        LET word == Correction(Prg[n0.s], Prg[n1.s], n0.t, a,
                               [s |-> s, s1 |-> s1, t |-> t, v |-> v])
        IN  /\ cw' = Append(cw, word)
            /\ path' = Append(path, [b \in Server |-> Step(path[n][b], word, a)])
  BY DEF GenLevel
<1>5. UNCHANGED <<kind, point, beta, root, w, done, x, node>>
  BY DEF GenLevel
<1> DEFINE r == [s |-> s, s1 |-> s1, t |-> t, v |-> v]
           word == Correction(Prg[n0.s], Prg[n1.s], n0.t, a, r)
           new == [b \in Server |-> Step(path[n][b], word, a)]
<1>6. Draws(r)
  <2>1. s \in [Bit -> Seed] /\ s1 \in Seed /\ t \in [Bit -> Bit] /\ v \in [Bit -> Word]
    BY TreeAssumption, ValuesTypes
  <2> QED BY <2>1 DEF Draws
<1> HIDE DEF r
<1>7. \A c \in Bit : (Prg[n0.s].v[c] + word[n0.t][c].v - Prg[n1.s].v[c] - word[n1.t][c].v) % M
                       = (IF c = a THEN 0 ELSE Lead(a)) % M
  <2> SUFFICES ASSUME NEW c \in Bit
               PROVE  (Prg[n0.s].v[c] + word[n0.t][c].v - Prg[n1.s].v[c] - word[n1.t][c].v) % M
                       = (IF c = a THEN 0 ELSE Lead(a)) % M
    OBVIOUS
  <2> HIDE DEF n0, n1, a
  <2> QED BY <1>1, <1>3, <1>6, Gains DEF word
<1>8. cw' = Append(cw, word) /\ path' = Append(path, new)
  BY <1>4 DEF r
<1> HIDE DEF word, new
<1>9. /\ path'[n] = path[n] /\ \A j \in 1 .. n : path'[j] = path[j]
  BY <1>1, <1>8
<1>10. /\ Len(cw') = n /\ cw'[n] = word /\ \A j \in 1 .. (n - 1) : cw'[j] = cw[j]
  BY <1>1, <1>8
<1> HIDE DEF n
<1>11. ASSUME NEW j \in 1 .. Len(cw')
       PROVE  LevelGain(j)'
  <2>1. CASE j = n
    <3>1. path'[j] = path[n] /\ cw'[j] = word /\ point'[j + 1] = a
      BY <2>1, <1>5, <1>9, <1>10
    <3> QED BY <3>1, <1>5, <1>7 DEF LevelGain, Lead, n0, n1
  <2>2. CASE j # n
    <3>1. j \in 1 .. Len(cw) /\ j \in 1 .. n /\ j \in 1 .. (n - 1)
      BY <2>2, <1>1, <1>10
    <3>2. path'[j] = path[j] /\ cw'[j] = cw[j] /\ point' = point /\ kind' = kind /\ beta' = beta
      BY <3>1, <1>5, <1>9, <1>10
    <3>3. LevelGain(j)
      BY <3>1 DEF VInv
    <3> QED BY <3>2, <3>3 DEF LevelGain, Lead
  <2> QED BY <2>1, <2>2
<1>12. RootGain'
  BY <1>1, <1>5 DEF VInv, RootGain, Lead
<1> QED BY <1>1, <1>2, <1>5, <1>11, <1>12 DEF VInv, Difference

LEMMA FinishValues ==
  ASSUME VInv, Finish
  PROVE  VInv'
<1>1. PInv'
  BY FinishStep DEF VInv
<1>2. w' \in Finals /\ UNCHANGED <<kind, point, beta, root, path, cw, x, node>>
  BY DEF Finish
<1>3. Finals' = Finals
  BY <1>2 DEF Finals, FinalEq, FinalEq_32
<1> QED BY <1>1, <1>2, <1>3 DEF VInv, RootGain, LevelGain, Lead, Difference, Below

LEMMA EvalRootValues ==
  ASSUME VInv, EvalRoot
  PROVE  VInv'
<1>1. PInv'
  BY EvalRootStep DEF VInv
<1>2. PICK c \in Bit : x' = << c >> /\ node' = [b \in Server |-> root[b][c]]
  BY DEF EvalRoot
<1>3. done /\ UNCHANGED <<kind, point, beta, root, path, cw, w, done>>
  BY DEF EvalRoot
<1>4. /\ path # << >> /\ beta \in Word /\ point[1] \in Bit
      /\ root \in [Server -> [Bit -> ValueNode]]
  BY <1>3, TreeAssumption DEF VInv, PInv, TypeOK
<1> DEFINE a == point[1]
           lead == IF c = a THEN 0 ELSE Lead(a)
<1>5. (root[0][c].v - root[1][c].v) % M = lead % M
  BY <1>4 DEF VInv, RootGain
<1>6. node'[0] = root[0][c] /\ node'[1] = root[1][c]
  BY <1>2, Sizes
<1>7. /\ Len(x') = 1 /\ x'[1] = c
  BY <1>2
<1>8. Below' <=> c < a
  <2>1. \A k : k \in 1 .. 1 <=> k = 1
    OBVIOUS
  <2>2. \A j : j \notin 1 .. (1 - 1)
    OBVIOUS
  <2> QED BY <1>3, <1>7, <2>1, <2>2 DEF Below
<1>9. lead = IF kind = "Lt" /\ Below' THEN beta ELSE 0
  <2>1. beta \in Int
    BY <1>4, Sizes
  <2> QED BY <1>4, <1>8, <2>1 DEF Lead, Bit
<1>10. lead \in Word /\ lead \in Int /\ root[0][c].v - root[1][c].v \in Int
  <2>1. 0 \in Word
    BY TreeAssumption DEF Word
  <2>2. root[0][c] \in ValueNode /\ root[1][c] \in ValueNode
    BY <1>4, Sizes
  <2>3. root[0][c].v \in Int /\ root[1][c].v \in Int
    BY <2>2, Sizes DEF ValueNode
  <2> QED BY <1>4, <1>9, <2>1, <2>3, Sizes
<1> HIDE DEF lead
<1>11. (root[0][c].v - root[1][c].v) % M = lead
  BY <1>5, <1>10, WordIs DEF Same
<1>12. Difference'
  BY <1>3, <1>6, <1>9, <1>11 DEF Difference
<1>13. Finals' = Finals
  BY <1>3 DEF Finals, FinalEq, FinalEq_32
<1> QED BY <1>1, <1>3, <1>12, <1>13 DEF VInv, RootGain, LevelGain, Lead

(* The point followed so far is below the hidden one if it was before, or   *)
(* leaves the path to the left                                              *)
LEMMA BelowStep ==
  ASSUME x \in Seq(Bit), NEW c, x' = Append(x, c), point' = point
  PROVE  /\ Below' <=> Below \/ (OnPath /\ c < point[Len(x) + 1])
         /\ Below => ~OnPath
<1> DEFINE n == Len(x)
<1>1. /\ n \in Nat /\ Len(x') = n + 1 /\ x'[n + 1] = c
      /\ \A k \in 1 .. n : x'[k] = x[k]
  OBVIOUS
<1>2. Below => ~OnPath
  <2> SUFFICES ASSUME Below, OnPath PROVE FALSE
    OBVIOUS
  <2>1. PICK k \in 1 .. n : x[k] < point[k]
    BY DEF Below
  <2>2. x[k] = point[k] /\ x[k] \in Int
    BY DEF OnPath, Bit
  <2> QED BY <2>1, <2>2
<1>3. Below' <=> \E k \in 1 .. (n + 1) : x'[k] < point[k] /\ \A j \in 1 .. (k - 1) : x'[j] = point[j]
  BY <1>1 DEF Below
<1>4. Below <=> \E k \in 1 .. n : x[k] < point[k] /\ \A j \in 1 .. (k - 1) : x[j] = point[j]
  BY DEF Below
<1>5. OnPath <=> \A j \in 1 .. n : x[j] = point[j]
  BY DEF OnPath
<1> HIDE DEF n
<1>6. ASSUME NEW k \in 1 .. n
      PROVE  /\ x'[k] = x[k]
             /\ (\A j \in 1 .. (k - 1) : x'[j] = point[j]) <=> (\A j \in 1 .. (k - 1) : x[j] = point[j])
  <2>1. \A j \in 1 .. (k - 1) : j \in 1 .. n
    BY <1>1
  <2> QED BY <1>1, <2>1
<1>7. (\A j \in 1 .. ((n + 1) - 1) : x'[j] = point[j]) <=> OnPath
  <2>1. (n + 1) - 1 = n
    BY <1>1
  <2> QED BY <1>1, <1>5, <2>1
<1>8. \A k : k \in 1 .. (n + 1) <=> (k \in 1 .. n \/ k = n + 1)
  BY <1>1
<1>9. Below' <=> Below \/ (x'[n + 1] < point[n + 1] /\ OnPath)
  BY <1>3, <1>4, <1>6, <1>7, <1>8
<1> QED BY <1>1, <1>2, <1>9 DEF n

(* A step the servers make together: on the hidden path what they gain      *)
(* differs by the lead of the level, off it they gain the same.             *)
LEMMA EvalLevelValues ==
  ASSUME VInv, EvalLevel
  PROVE  VInv'
<1> DEFINE n == Len(x)
           word == cw[n]
           a == point[n + 1]
<1>1. /\ n \in 1 .. (N - 1) /\ n + 1 \in 1 .. N /\ x \in Seq(Bit) /\ x # << >>
      /\ done /\ node \in [Server -> ValueNode] /\ a \in Bit /\ beta \in Word
  BY TreeAssumption DEF VInv, PInv, TypeOK, EvalLevel
<1>2. Len(path) = N /\ path # << >> /\ Len(cw) = N - 1 /\ N \in Nat
      /\ path \in Seq([Server -> Node])
  BY <1>1, TreeAssumption DEF VInv, PInv, TypeOK
<1>3. n \in 1 .. Len(cw) /\ word \in [Bit -> [Bit -> ValueNode]]
  BY <1>1, <1>2 DEF VInv, PInv, TypeOK
<1>4. LevelGain(n)
  BY <1>3 DEF VInv
<1>5. PInv'
  BY EvalLevelStep DEF VInv
<1>6. PICK c \in Bit :
        /\ x' = Append(x, c)
        /\ node' = [b \in Server |-> [s |-> Step(node[b], word, c).s,
                                     t |-> Step(node[b], word, c).t,
                                     v |-> Gain(node[b], word, c)]]
  BY DEF EvalLevel
<1>7. UNCHANGED <<kind, point, beta, root, path, cw, w, done>>
  BY DEF EvalLevel
<1> DEFINE p == node[0]
           q == node[1]
           pr == Prg[p.s].v[c]
           pw == word[p.t][c].v
           qr == Prg[q.s].v[c]
           qw == word[q.t][c].v
           g == pr + pw
           h == qr + qw
           old == IF kind = "Lt" /\ Below THEN beta ELSE 0
           new == IF kind = "Lt" /\ Below' THEN beta ELSE 0
           lead == IF c = a THEN 0 ELSE Lead(a)
<1>8. node'[0].v = Gain(p, word, c) /\ node'[1].v = Gain(q, word, c)
  BY <1>6, Sizes
<1>9. ASSUME NEW b \in Server
      PROVE  /\ node[b].v \in Int /\ Prg[node[b].s].v[c] \in Int
             /\ word[node[b].t][c].v \in Int
  <2>1. node[b].s \in Seed /\ node[b].t \in Bit /\ node[b].v \in Int
    BY <1>1, Sizes DEF ValueNode
  <2>2. Prg[node[b].s].v[c] \in Int
    BY <2>1, TreeAssumption, Sizes DEF Expansion
  <2>3. word[node[b].t][c] \in ValueNode
    BY <2>1, <1>3
  <2>4. word[node[b].t][c].v \in Int
    BY <2>3, Sizes DEF ValueNode
  <2> QED BY <2>1, <2>2, <2>4
<1>10. p.v \in Int /\ q.v \in Int /\ g \in Int /\ h \in Int
  BY <1>9, Sizes
<1>11. 0 \in Word /\ beta \in Int /\ Lead(a) \in Int
  BY <1>1, TreeAssumption, Sizes, LeadTypes DEF Word
<1>12. old \in Word /\ old \in Int /\ new \in Word /\ new \in Int /\ lead \in Int
  BY <1>1, <1>11, Sizes
<1>13. (p.v - q.v) % M = old
  BY <1>1 DEF VInv, Difference
<1>14. /\ Below' <=> Below \/ (OnPath /\ c < a)
       /\ Below => ~OnPath
  BY <1>1, <1>6, <1>7, BelowStep
<1> DEFINE pv == p.v
           qv == q.v
           y == pv + pr + pw
           z == qv + qr + qw
<1>15. /\ y = pv + g /\ z = qv + h
       /\ node'[0].v = y % M /\ node'[1].v = z % M
  <2>1. pv \in Int /\ qv \in Int /\ pr \in Int /\ pw \in Int /\ qr \in Int /\ qw \in Int
    BY <1>9, Sizes
  <2>2. node'[0].v = y % M /\ node'[1].v = z % M
    BY <1>8 DEF Gain
  <2> HIDE DEF pv, qv, pr, pw, qr, qw
  <2>3. y = pv + g /\ z = qv + h
    BY <2>1
  <2> QED BY <2>2, <2>3
<1>16. Same(M, old + (g - h), new) /\ g - h \in Int
  <2>1. CASE OnPath
    <3>1. p.s = path[n][0].s /\ p.t = path[n][0].t /\ q.s = path[n][1].s /\ q.t = path[n][1].t
      BY <1>1, <2>1, Sizes DEF VInv, PInv, Follows
    <3>2. (pr + pw - qr - qw) % M = lead % M
      BY <3>1, <1>4 DEF LevelGain
    <3>3. pr \in Int /\ pw \in Int /\ qr \in Int /\ qw \in Int
      BY <1>9, Sizes
    <3>4. pr + pw - qr - qw = g - h /\ g - h \in Int
      <4> HIDE DEF pr, pw, qr, qw
      <4> QED BY <3>3
    <3>5. old = 0 /\ new = lead
      <4>1. old = 0
        BY <2>1, <1>14
      <4>2. new = lead
        BY <2>1, <1>1, <1>11, <1>14 DEF Lead, Bit
      <4> QED BY <4>1, <4>2
    <3> HIDE DEF g, h, old, new, lead, pr, pw, qr, qw
    <3>6. old + (g - h) = g - h
      BY <3>4, <3>5
    <3> QED BY <3>2, <3>4, <3>5, <3>6 DEF Same
  <2>2. CASE ~OnPath
    <3>1. p.s = q.s /\ p.t = q.t
      BY <1>1, <2>2 DEF VInv, PInv, Agree
    <3>2. g = h
      BY <3>1
    <3>3. old = new
      BY <2>2, <1>14
    <3> HIDE DEF g, h, old, new, p, q
    <3>4. old + (g - h) = new /\ g - h \in Int
      BY <1>10, <1>12, <3>2, <3>3
    <3> QED BY <3>4 DEF Same
  <2> QED BY <2>1, <2>2
<1> HIDE DEF pr, pw, qr, qw, old, new, lead
<1>17. pv \in Int /\ qv \in Int /\ (pv - qv) % M = old /\ pv - qv \in Int
  BY <1>10, <1>13
<1>18. y \in Int /\ z \in Int /\ y - z = (pv - qv) + (g - h) /\ y - z \in Int
  <2> HIDE DEF g, h, pv, qv, y, z
  <2> QED BY <1>10, <1>15, <1>17
<1> HIDE DEF g, h
<1> HIDE DEF y, z, p, q, pv, qv
<1>19. /\ y % M \in Int /\ Same(M, y % M, y) /\ z % M \in Int /\ Same(M, z % M, z)
  BY <1>18, Sizes, SameMod
<1> DEFINE yy == y % M
           zz == z % M
           d == pv - qv
<1>20. yy \in Int /\ Same(M, yy, y) /\ zz \in Int /\ Same(M, zz, z) /\ d \in Int /\ d % M = old
       /\ node'[0].v = yy /\ node'[1].v = zz /\ y - z = d + (g - h) /\ yy - zz \in Int
  BY <1>15, <1>17, <1>18, <1>19
<1> HIDE DEF yy, zz, d
<1>21. Same(M, yy - zz, y - z)
  BY <1>18, <1>20, Sizes, SameMinus
<1>22. Same(M, old, d)
  <2>1. Same(M, d % M, d)
    BY <1>20, Sizes, SameMod
  <2> QED BY <2>1, <1>20
<1>23. Same(M, d, old)
  BY <1>22, SameSym
<1>24. Same(M, g - h, g - h)
  BY DEF Same
<1>25. Same(M, d + (g - h), old + (g - h))
  BY <1>12, <1>16, <1>20, <1>23, <1>24, Sizes, SamePlus
<1>26. Same(M, yy - zz, new)
  <2>1. Same(M, yy - zz, d + (g - h))
    BY <1>20, <1>21
  <2>2. Same(M, yy - zz, old + (g - h))
    BY <2>1, <1>25, SameTrans
  <2> QED BY <2>2, <1>16, SameTrans
<1>27. (yy - zz) % M = new
  BY <1>12, <1>20, <1>26, WordIs
<1>28. Difference'
  BY <1>7, <1>20, <1>27 DEF Difference, new
<1>29. Finals' = Finals
  BY <1>7 DEF Finals, FinalEq, FinalEq_32
<1> QED BY <1>5, <1>7, <1>28, <1>29 DEF VInv, RootGain, LevelGain, Lead

(* What the two servers' sums differ by at every level of the walk is kept  *)
(* by every step.                                                           *)
THEOREM ValuesInductive == Spec => []VInv
<1>1. VInv /\ [Next]_vars => VInv'
  <2> SUFFICES ASSUME VInv, [Next]_vars
               PROVE  VInv'
    OBVIOUS
  <2>1. CASE UNCHANGED vars
    <3>1. PInv'
      BY <2>1 DEF vars, VInv, PInv, TypeOK, RootOK, LevelOK, Follows, OnPath, Agree
    <3>2. Finals' = Finals
      BY <2>1 DEF vars, Finals, FinalEq, FinalEq_32
    <3> QED BY <2>1, <3>1, <3>2 DEF vars, VInv, RootGain, LevelGain, Lead, Difference, Below
  <2> QED BY <2>1, GenRootValues, GenLevelValues, FinishValues, EvalRootValues, EvalLevelValues
          DEF Next, Returned
<1> QED BY InitValues, <1>1, PTL DEF Spec

(* The servers' results of an Lt key differ by the value below the hidden   *)
(* point, and nowhere else.                                                 *)
THEOREM Comparison == Spec => []LessThan
<1>1. VInv => LessThan
  <2> SUFFICES ASSUME VInv, Evaluated, kind = "Lt"
               PROVE  (Result(0) - Result(1)) % M = IF Below THEN beta ELSE 0
    BY DEF LessThan
  <2>1. x # << >>
    BY TreeAssumption DEF Evaluated
  <2>2. Result(0) = node[0].v /\ Result(1) = node[1].v
    BY DEF Result
  <2> QED BY <2>1, <2>2 DEF VInv, Difference
<1> QED BY <1>1, ValuesInductive, PTL

-------------------------------------------------------------------------------
(* The final correction *)

(* The product with an inverse of the difference is the value *)
LEMMA EqCorrection ==
  ASSUME NEW p \in Residue, NEW q \in Residue, p # q, NEW b \in Int
  PROVE  LET f == (Invert[(p - q) % Prime] * b) % Prime
         IN  (((p * f) % Prime) - ((q * f) % Prime)) % Prime = b % Prime
<1> DEFINE P == Prime
           d == (p - q) % P
           i == Invert[d]
           f == (i * b) % P
<1>1. P \in Nat \ {0, 1} /\ P \in Nat \ {0} /\ p \in Int /\ q \in Int /\ p - q \in Int
      /\ p \in 0 .. (P - 1) /\ q \in 0 .. (P - 1)
  BY TreeAssumption DEF Residue
<1>2. d \in Int /\ d \in 0 .. (P - 1) /\ Same(P, d, p - q) /\ d \in Residue
  BY <1>1, SameMod DEF Residue
<1>3. d # 0
  <2> SUFFICES ASSUME d = 0 PROVE FALSE
    OBVIOUS
  <2>1. Same(P, 0, p - q)
    BY <1>2
  <2>2. Same(P, q, q) /\ 0 \in Int
    BY DEF Same
  <2>3. Same(P, 0 + q, (p - q) + q)
    BY <1>1, <2>1, <2>2, SamePlus
  <2>4. 0 + q = q /\ (p - q) + q = p
    BY <1>1
  <2>5. Same(P, q, p)
    BY <2>3, <2>4
  <2> QED BY <1>1, <2>5, SameEqual
<1>4. i \in Int /\ (d * i) % P = 1
  <2> HIDE DEF d
  <2>1. \E e \in Residue : (d * e) % Prime = 1
    BY <1>2, <1>3, PrimeAssumption
  <2>2. (d * Invert[d]) % Prime = 1 /\ Invert[d] \in Residue
    BY <1>2, <2>1, InvertAssumption
  <2> QED BY <1>1, <2>2 DEF Residue
<1> HIDE DEF d, i, P
<1>5. i * b \in Int
  BY <1>4
<1>6. f \in Int /\ Same(P, f, i * b)
  BY <1>1, <1>5, SameMod
<1> HIDE DEF f
<1>7. p * f \in Int /\ q * f \in Int
  BY <1>1, <1>6
<1> DEFINE u == (p * f) % P
           v == (q * f) % P
<1>8. u \in Int /\ v \in Int /\ Same(P, u, p * f) /\ Same(P, v, q * f)
  BY <1>1, <1>7, SameMod
<1> HIDE DEF u, v
<1>9. Same(P, u - v, p * f - q * f)
  BY <1>1, <1>7, <1>8, SameMinus
<1>10. p * f - q * f = f * (p - q) /\ f * (p - q) \in Int /\ f * d \in Int
  BY <1>1, <1>2, <1>6
<1>11. Same(P, f * d, f * (p - q))
  BY <1>1, <1>2, <1>6, SameTimes
<1>12. Same(P, d * f, d * (i * b))
  BY <1>1, <1>2, <1>5, <1>6, SameTimes
<1>13. d * f = f * d /\ d * (i * b) = b * (d * i) /\ d * i \in Int /\ b * 1 = b /\ b * (d * i) \in Int
  BY <1>2, <1>4, <1>6
<1>14. Same(P, d * i, 1)
  <2>1. (d * i) % P = 1 /\ Same(P, (d * i) % P, d * i)
    BY <1>1, <1>4, <1>13, SameMod
  <2>2. Same(P, 1, d * i)
    BY <2>1
  <2> QED BY <2>2, SameSym
<1>15. Same(P, b * (d * i), b * 1)
  <2> DEFINE m == d * i
  <2>1. m \in Int /\ 1 \in Int /\ Same(P, m, 1)
    BY <1>13, <1>14
  <2> HIDE DEF m
  <2>2. Same(P, b * m, b * 1)
    BY <1>1, <2>1, SameTimes
  <2> QED BY <2>2 DEF m
<1>16. Same(P, f * (p - q), f * d)
  BY <1>11, SameSym
<1>17. Same(P, u - v, f * d)
  BY <1>9, <1>10, <1>16, SameTrans
<1>18. Same(P, f * d, b)
  BY <1>12, <1>13, <1>15, SameTrans
<1>19. Same(P, u - v, b)
  BY <1>17, <1>18, SameTrans
<1> QED BY <1>19 DEF Same, u, v, f, i, d, P

(* The server whose t bit is 1 adds the correction, and the sign of the     *)
(* correction is chosen by the t bit of server 0                            *)
LEMMA Eq_32Correction ==
  ASSUME NEW p \in Word, NEW q \in Word, NEW b \in Int, NEW t0 \in Bit, NEW t1 \in Bit, t0 # t1
  PROVE  LET diff == b - p + q
             f == IF t0 = 0 THEN (-diff) % M ELSE diff % M
         IN  (((p + t0 * f) % M) - ((q + t1 * f) % M)) % M = b % M
<1> DEFINE diff == b - p + q
           shift == IF t0 = 0 THEN -diff ELSE diff
           f == IF t0 = 0 THEN (-diff) % M ELSE diff % M
           y == p + t0 * f
           z == q + t1 * f
<1>1. p \in Int /\ q \in Int /\ diff \in Int /\ shift \in Int
  BY Sizes
<1>2. f = shift % M
  OBVIOUS
<1> HIDE DEF shift
<1>3. f \in Int /\ Same(M, f, shift)
  BY <1>1, <1>2, Sizes, SameMod
<1>4. (t0 = 0 /\ t1 = 1) \/ (t0 = 1 /\ t1 = 0)
  BY DEF Bit
<1> HIDE DEF f
<1>5. y \in Int /\ z \in Int /\ y - z = (IF t0 = 0 THEN (p - q) - f ELSE (p - q) + f)
  BY <1>1, <1>3, <1>4
<1> DEFINE u == y % M
           v == z % M
<1>6. u \in Int /\ v \in Int /\ Same(M, u, y) /\ Same(M, v, z)
  BY <1>5, Sizes, SameMod
<1> HIDE DEF y, z, u, v
<1>7. Same(M, u - v, y - z)
  BY <1>5, <1>6, Sizes, SameMinus
<1>8. Same(M, p - q, p - q) /\ p - q \in Int
  BY <1>1 DEF Same
<1>9. CASE t0 = 0
  <2>1. Same(M, (p - q) - f, (p - q) - shift)
    BY <1>1, <1>3, <1>8, Sizes, SameMinus
  <2>2. (p - q) - shift = b
    BY <1>1, <1>9 DEF shift
  <2>3. y - z = (p - q) - f
    BY <1>5, <1>9
  <2>4. Same(M, u - v, b)
    BY <1>7, <2>1, <2>2, <2>3, SameTrans
  <2> QED BY <2>4 DEF Same, u, v, y, z, f
<1>10. CASE t0 # 0
  <2>1. Same(M, (p - q) + f, (p - q) + shift)
    BY <1>1, <1>3, <1>8, Sizes, SamePlus
  <2>2. (p - q) + shift = b
    BY <1>1, <1>10 DEF shift
  <2>3. y - z = (p - q) + f
    BY <1>5, <1>10
  <2>4. Same(M, u - v, b)
    BY <1>7, <2>1, <2>2, <2>3, SameTrans
  <2> QED BY <2>4 DEF Same, u, v, y, z, f
<1> QED BY <1>9, <1>10

(* At the end of the hidden path the final correction does its work, unless *)
(* what it would have to tell apart has collided.                           *)
LEMMA PointReached ==
  ASSUME VInv, Evaluated, kind # "Lt", OnPath, ~Collision
  PROVE  (Result(0) - Result(1)) % Size = beta % Size
<1>1. x # << >> /\ Len(x) = N /\ done /\ kind \in {"Eq", "Eq_32"} /\ beta \in Int
      /\ path \in Seq([Server -> Node]) /\ Len(path) = N /\ N \in 1 .. N
  BY TreeAssumption, Sizes DEF Evaluated, VInv, PInv, TypeOK
<1> DEFINE p == path[N][0]
           q == path[N][1]
<1>2. path[N] \in [Server -> Node]
  BY <1>1
<1>3. p.s \in Seed /\ q.s \in Seed /\ p.t \in Bit /\ q.t \in Bit
  BY <1>2, Sizes DEF Node
<1>4. /\ node[0].s = p.s /\ node[0].t = p.t
      /\ node[1].s = q.s /\ node[1].t = q.t
  BY <1>1, Sizes DEF VInv, PInv, Follows
<1>5. p.t # q.t
  BY <1>1, <1>4 DEF VInv, PInv, Agree
<1>6. w \in Finals
  BY <1>1 DEF VInv
<1>7. CASE kind = "Eq"
  <2>1. Prg[p.s].whole # Prg[q.s].whole
    BY <1>7 DEF Collision
  <2> DEFINE a == Prg[p.s].whole
             b == Prg[q.s].whole
  <2>2. a \in Residue /\ b \in Residue
    BY <1>3, TreeAssumption DEF Expansion
  <2>3. ~(Prg[p.s].s = Prg[q.s].s /\ Prg[p.s].t = Prg[q.s].t)
    BY <1>3, <2>1, WholeAssumption
  <2>4. (a - b) % Prime # 0
    <3> HIDE DEF a, b
    <3> SUFFICES ASSUME (a - b) % Prime = 0 PROVE FALSE
      OBVIOUS
    <3>1. /\ Prime \in Nat \ {0} /\ a \in Int /\ b \in Int /\ a - b \in Int
          /\ a \in 0 .. (Prime - 1) /\ b \in 0 .. (Prime - 1)
      BY <2>2, TreeAssumption DEF Residue
    <3>2. Same(Prime, 0, a - b) /\ Same(Prime, b, b) /\ 0 \in Int
      <4> DEFINE d == a - b
      <4>1. Same(Prime, d % Prime, d)
        <5>1. d \in Int
          BY <3>1
        <5> HIDE DEF d
        <5> QED BY <3>1, <5>1, SameMod
      <4> QED BY <4>1 DEF Same
    <3>3. Same(Prime, 0 + b, (a - b) + b)
      BY <3>1, <3>2, SamePlus
    <3>4. 0 + b = b /\ (a - b) + b = a
      BY <3>1
    <3>5. Same(Prime, b, a)
      BY <3>3, <3>4
    <3>6. a = b
      BY <3>1, <3>5, SameEqual
    <3> QED BY <3>6, <2>1 DEF a, b
  <2>5. w = (Invert[(a - b) % Prime] * beta) % Prime
    <3>1. w \in FinalEq(path[N])
      BY <1>6, <1>7 DEF Finals
    <3> QED BY <3>1, <2>3, <2>4 DEF FinalEq
  <2>6. (((a * w) % Prime) - ((b * w) % Prime)) % Prime = beta % Prime
    <3> HIDE DEF a, b
    <3>1. a # b
      BY <2>1 DEF a, b
    <3> QED BY <1>1, <2>2, <2>5, <3>1, EqCorrection
  <2>7. Result(0) = (a * w) % Prime /\ Result(1) = (b * w) % Prime
    BY <1>4, <1>7 DEF Result
  <2>8. Size = Prime
    BY <1>7 DEF Size
  <2> QED BY <2>6, <2>7, <2>8
<1>8. CASE kind = "Eq_32"
  <2> DEFINE a == FirstBytes[p.s]
             b == FirstBytes[q.s]
             diff == beta - a + b
  <2>1. a \in Word /\ b \in Word
    BY <1>3, TreeAssumption
  <2>2. a # b
    BY <1>8 DEF Collision
  <2>3. w = IF p.t = 0 THEN (-diff) % M ELSE diff % M
    <3>1. w \in FinalEq_32(path[N])
      BY <1>6, <1>8 DEF Finals
    <3> QED BY <3>1, <2>2 DEF FinalEq_32
  <2>4. (((a + p.t * w) % M) - ((b + q.t * w) % M)) % M = beta % M
    <3> DEFINE t0 == p.t
               t1 == q.t
    <3>1. t0 \in Bit /\ t1 \in Bit /\ t0 # t1
      BY <1>3, <1>5
    <3> HIDE DEF a, b, t0, t1
    <3>2. w = IF t0 = 0 THEN (-diff) % M ELSE diff % M
      BY <2>3 DEF t0
    <3>3. (((a + t0 * w) % M) - ((b + t1 * w) % M)) % M = beta % M
      BY <1>1, <2>1, <3>1, <3>2, Eq_32Correction
    <3> QED BY <3>3 DEF t0, t1
  <2>5. Result(0) = (a + p.t * w) % M /\ Result(1) = (b + q.t * w) % M
    BY <1>4, <1>8 DEF Result
  <2>6. Size = M
    BY <1>8 DEF Size
  <2> QED BY <2>4, <2>5, <2>6
<1> QED BY <1>1, <1>7, <1>8

(* The servers' results of an Eq key differ by the value at the hidden      *)
(* point and are the same everywhere else: for every expansion, modulus     *)
(* and depth.                                                               *)
THEOREM PointEquality == Spec => []PointEq
<1>1. VInv => PointEq
  <2> SUFFICES ASSUME VInv, Evaluated, kind # "Lt"
               PROVE  IF OnPath THEN Collision \/ (Result(0) - Result(1)) % Size = beta % Size
                                ELSE Result(0) = Result(1)
    BY DEF PointEq
  <2>1. CASE OnPath
    BY <2>1, PointReached
  <2>2. CASE ~OnPath
    <3>1. x # << >> /\ kind \in {"Eq", "Eq_32"}
      BY TreeAssumption DEF Evaluated, VInv, PInv, TypeOK
    <3>2. node[0].s = node[1].s /\ node[0].t = node[1].t
      BY <2>2, <3>1 DEF VInv, PInv, Agree
    <3>3. Result(0) = Result(1)
      BY <3>1, <3>2 DEF Result
    <3> QED BY <2>2, <3>3
  <2> QED BY <2>1, <2>2
<1> QED BY <1>1, ValuesInductive, PTL
===============================================================================
