---------------------------- MODULE PointFunction ----------------------------
(***************************************************************************)
(* The two-server function secret sharing of src/fss: the client hides a   *)
(* point and a value in a pair of keys (fss-client.cpp), and each server   *)
(* evaluates its key on its own (fss-server.cpp).  What the two evaluations *)
(* differ by is the value at the hidden point, or below it, and 0 anywhere *)
(* else.                                                                   *)
(*                                                                         *)
(* A key is a binary tree of seeds, one bit of the point for each level.   *)
(* The client walks down the hidden path and chooses for every level the   *)
(* correction words that make the two trees agree off the path; a server   *)
(* walks down the path of the point it is asked for.  The servers exchange *)
(* no message, so the model lets them walk side by side, and chooses the   *)
(* bits of their point as they go.                                         *)
(*                                                                         *)
(* A seed is the set of its bits that are 1.  Words are modulo M, the      *)
(* residues of generateTreeEq modulo Prime.                                *)
(***************************************************************************)
EXTENDS Integers, Sequences

CONSTANTS
  N,            \* numBits, the levels of the tree
  SeedBits,     \* the bits of a seed, 128
  M,            \* number of words: 2^32 for Eq_32, 2^64 for Lt
  Prime,        \* prime, the first above 2^32
  Prg,          \* prf: what a seed expands to
  FirstBytes,   \* the first four bytes of a seed, as a word
  Invert,       \* mpz_invert modulo Prime
  RandomSeeds,  \* the seeds RAND_bytes returns in a run (a bound)
  RandomBits,   \* the t bits RAND_bytes returns in a run (a bound)
  RandomWords,  \* the words RAND_bytes returns in a run (a bound)
  Betas,        \* the values hidden in a run (a bound)
  Kinds         \* which of generateTreeEq, generateTreeEq_32, generateTreeLt

Bit == 0 .. 1
Server == 0 .. 1
Seed == SUBSET SeedBits
Word == 0 .. (M - 1)
Residue == 0 .. (Prime - 1)
Node == [s : Seed, t : Bit]
ValueNode == [s : Seed, t : Bit, v : Word]

(* whole: the 34 bytes of seeds and t bits as a number, modulo Prime *)
Expansion == [s : [Bit -> Seed], t : [Bit -> Bit], v : [Bit -> Word], whole : Residue]

ASSUME TreeAssumption ==
  /\ N \in Nat \ {0} /\ M \in Nat \ {0} /\ Prime \in Nat \ {0, 1}
  /\ Prg \in [Seed -> Expansion]
  /\ FirstBytes \in [Seed -> Word]
  /\ RandomSeeds \subseteq Seed
  /\ RandomBits \subseteq Bit
  /\ RandomWords \subseteq Word
  /\ Betas \subseteq Word
  /\ Kinds \subseteq {"Eq", "Eq_32", "Lt"}

(* What mpz_invert promises: an inverse, where there is one.  There is one  *)
(* for every number but 0: mpz_nextprime has found the modulus.             *)
ASSUME InvertAssumption ==
  /\ Invert \in [Residue -> Residue]
  /\ \A d \in Residue :
       (\E e \in Residue : (d * e) % Prime = 1) => (d * Invert[d]) % Prime = 1
ASSUME PrimeAssumption ==
  \A d \in Residue \ {0} : \E e \in Residue : (d * e) % Prime = 1

(* The number is read from the bytes of the seeds and t bits *)
ASSUME WholeAssumption ==
  \A p, q \in Seed :
    Prg[p].s = Prg[q].s /\ Prg[p].t = Prg[q].t => Prg[p].whole = Prg[q].whole

SeedXor(a, b) == (a \ b) \cup (b \ a)
BitXor(a, b) == IF a = b THEN 0 ELSE 1

-------------------------------------------------------------------------------
VARIABLES
  kind, point, beta,  \* what the client is asked for; point is its bits
  root,    \* root[b][c]: seed, t bit and v of server b for the first bit c
  path,    \* key0, key1, tbit0 and tbit1 of the client, level by level
  cw,      \* correction words: cw[i][t][c] for the bit after level i
  w,       \* the final correction of an Eq key
  done,    \* the keys are complete
  x,       \* the bits the servers have followed
  node     \* node[b]: where server b is

vars == <<kind, point, beta, root, path, cw, w, done, x, node>>

Init ==
  /\ kind \in Kinds
  /\ point \in [1 .. N -> Bit]
  /\ beta \in Betas
  /\ root = [b \in Server |-> << >>]
  /\ path = << >> /\ cw = << >> /\ w = 0 /\ done = FALSE
  /\ x = << >> /\ node = [b \in Server |-> << >>]

(* Only the keys of generateTreeLt have values *)
Values == IF kind = "Lt" THEN RandomWords ELSE {0}

(* What server 0 gets and server 1 does not when the walk leaves the hidden *)
(* path where its bit is a                                                  *)
Lead(a) == IF kind = "Lt" THEN beta * a ELSE 0

-------------------------------------------------------------------------------
(* The client *)

(* The first bit: on the hidden path, where the bit is a, the seeds are     *)
(* independent and the t bits differ; off it the servers get the same.      *)
RootSeeds(a, s, sn, t, tn) ==
  [b \in Server |-> [c \in Bit |->
     IF c = a THEN [s |-> s[b], t |-> IF b = 0 THEN t ELSE 1 - t]
              ELSE [s |-> sn, t |-> tn]]]

(* Definitions named Bug... are variants of the one that follows, each with *)
(* a mistake the code could have had; no specification here uses them.      *)
BugRootValues(a, v, vn) == [b \in Server |-> [c \in Bit |-> IF c = a THEN v ELSE vn]]

(* The values at the first bit: what server 1 gets off the path is less by  *)
(* the value where the path goes to the right                               *)
RootValues(a, v, vn) ==
  [b \in Server |-> [c \in Bit |->
     IF c = a THEN v ELSE IF b = 0 THEN vn ELSE (vn - Lead(a)) % M]]

GenRoot ==
  /\ path = << >>
  /\ LET a == point[1] IN
     \E s \in [Server -> RandomSeeds], sn \in RandomSeeds, t, tn \in RandomBits, v, vn \in Values :
       LET nodes == RootSeeds(a, s, sn, t, tn)
           values == RootValues(a, v, vn)
       IN  /\ root' = [b \in Server |-> [c \in Bit |->
                         [s |-> nodes[b][c].s, t |-> nodes[b][c].t, v |-> values[b][c]]]]
           /\ path' = << [b \in Server |-> nodes[b][a]] >>
  /\ UNCHANGED <<kind, point, beta, cw, w, done, x, node>>

(* cs and ct of one level: o0 and o1 are the expansions of key0 and key1, a *)
(* is the next bit of the point, r the random choices and flip the 1 that   *)
(* keeps the t bits on the path apart                                       *)
CorrectSeeds(o0, o1, a, r, flip) ==
  [k \in Bit |-> [c \in Bit |->
     [s |-> IF k = 0 THEN r.s[c]
            ELSE IF c = a THEN r.s1
            ELSE SeedXor(SeedXor(o0.s[c], o1.s[c]), r.s[c]),
      t |-> IF k = 0 THEN r.t[c]
            ELSE BitXor(BitXor(r.t[c], BitXor(o0.t[c], o1.t[c])), IF c = a THEN flip ELSE 0)]]]

(* cv of one level, where server 0 takes the word t0 *)
CorrectValues(o0, o1, t0, a, r) ==
  [k \in Bit |-> [c \in Bit |->
     IF k = t0 THEN r.v[c]
     ELSE (r.v[c] + o0.v[c] - o1.v[c] - (IF c = a THEN 0 ELSE Lead(a))) % M]]

CorrectionFor(o0, o1, t0, a, r, flip) ==
  LET seeds == CorrectSeeds(o0, o1, a, r, flip)
      values == CorrectValues(o0, o1, t0, a, r)
  IN  [k \in Bit |-> [c \in Bit |->
         [s |-> seeds[k][c].s, t |-> seeds[k][c].t, v |-> values[k][c]]]]

BugCorrection(o0, o1, t0, a, r) == CorrectionFor(o0, o1, t0, a, r, 0)

Correction(o0, o1, t0, a, r) == CorrectionFor(o0, o1, t0, a, r, 1)

(* A step down the tree on both sides: the expansion, corrected by the word *)
(* the t bit selects                                                        *)
Step(nd, word, c) ==
  [s |-> SeedXor(Prg[nd.s].s[c], word[nd.t][c].s),
   t |-> BitXor(Prg[nd.s].t[c], word[nd.t][c].t)]

(* One turn of the loop over the levels *)
GenLevel ==
  /\ Len(path) \in 1 .. (N - 1)
  /\ LET top == path[Len(path)]
         a == point[Len(path) + 1]
     IN  \E s \in [Bit -> RandomSeeds], s1 \in RandomSeeds, t \in [Bit -> RandomBits], v \in [Bit -> Values] :
           LET word == Correction(Prg[top[0].s], Prg[top[1].s], top[0].t, a,
                                  [s |-> s, s1 |-> s1, t |-> t, v |-> v])
           IN  /\ cw' = Append(cw, word)
               /\ path' = Append(path, [b \in Server |-> Step(top[b], word, a)])
  /\ UNCHANGED <<kind, point, beta, root, w, done, x, node>>

(* The end of generateTreeEq: one more expansion.  If the numbers differ,   *)
(* but not modulo Prime, mpz_invert has no result to give.                  *)
FinalEq(top) ==
  LET o0 == Prg[top[0].s]
      o1 == Prg[top[1].s]
      diff == (o0.whole - o1.whole) % Prime
  IN  IF o0.s = o1.s /\ o0.t = o1.t THEN {0}
      ELSE IF diff = 0 THEN Residue
      ELSE { (Invert[diff] * beta) % Prime }

BugFinalEq_32(top) == { (beta - FirstBytes[top[0].s] + FirstBytes[top[1].s]) % M }

(* The end of generateTreeEq_32.  With equal heads it reports an error and  *)
(* gives up, although the correction would be right.                        *)
FinalEq_32(top) ==
  LET diff == beta - FirstBytes[top[0].s] + FirstBytes[top[1].s]
  IN  IF FirstBytes[top[0].s] = FirstBytes[top[1].s] THEN {0}
      ELSE IF top[0].t = 0 THEN { (-diff) % M }
      ELSE { diff % M }

(* The final corrections a key of this kind may get; one for values has none *)
Finals ==
  CASE kind = "Eq"    -> FinalEq(path[N])
    [] kind = "Eq_32" -> FinalEq_32(path[N])
    [] kind = "Lt"    -> {0}

Finish ==
  /\ Len(path) = N /\ ~done
  /\ done' = TRUE
  /\ w' \in Finals
  /\ UNCHANGED <<kind, point, beta, root, path, cw, x, node>>

-------------------------------------------------------------------------------
(* The servers *)

EvalRoot ==
  /\ done /\ x = << >>
  /\ \E c \in Bit :
       /\ x' = << c >>
       /\ node' = [b \in Server |-> root[b][c]]
  /\ UNCHANGED <<kind, point, beta, root, path, cw, w, done>>

(* v += temp_v, and the correction the t bit selected before this step *)
Gain(nd, word, c) == (nd.v + Prg[nd.s].v[c] + word[nd.t][c].v) % M

EvalLevel ==
  /\ Len(x) \in 1 .. (N - 1)
  /\ \E c \in Bit :
       LET word == cw[Len(x)]
           Down(nd) == [s |-> Step(nd, word, c).s, t |-> Step(nd, word, c).t,
                        v |-> Gain(nd, word, c)]
       IN  /\ x' = Append(x, c)
           /\ node' = [b \in Server |-> Down(node[b])]
  /\ UNCHANGED <<kind, point, beta, root, path, cw, w, done>>

(* What evaluateEq(x), evaluateEq into a list of 32-bit words, and          *)
(* evaluateLt return to server b                                            *)
Result(b) ==
  CASE kind = "Eq"    -> (Prg[node[b].s].whole * w) % Prime
    [] kind = "Eq_32" -> (FirstBytes[node[b].s] + node[b].t * w) % M
    [] kind = "Lt"    -> node[b].v

Evaluated == Len(x) = N

(* An evaluation has ended *)
Returned == Evaluated /\ UNCHANGED vars

Next == GenRoot \/ GenLevel \/ Finish \/ EvalRoot \/ EvalLevel \/ Returned

Spec == Init /\ [][Next]_vars

-------------------------------------------------------------------------------
(* Properties *)

TypeOK ==
  /\ kind \in Kinds /\ beta \in Word /\ point \in [1 .. N -> Bit]
  /\ path \in Seq([Server -> Node]) /\ Len(path) <= N
  /\ cw \in Seq([Bit -> [Bit -> ValueNode]])
  /\ Len(cw) = IF path = << >> THEN 0 ELSE Len(path) - 1
  /\ path # << >> => root \in [Server -> [Bit -> ValueNode]]
  /\ done \in BOOLEAN /\ (done => Len(path) = N)
  /\ x \in Seq(Bit) /\ Len(x) <= N
  /\ x # << >> => done /\ node \in [Server -> ValueNode]

OnPath == \A k \in 1 .. Len(x) : x[k] = point[k]

(* As long as the servers follow the hidden path their t bits differ, so    *)
(* that each takes the other correction word; once they have left it they   *)
(* are in the same state and stay in it.                                    *)
Agree ==
  x # << >> =>
    IF OnPath THEN node[0].t # node[1].t
              ELSE node[0].s = node[1].s /\ node[0].t = node[1].t

(* One level of the client's walk: its two nodes are what the two servers   *)
(* reach from the nodes above, their t bits differ, and a server that takes *)
(* the other bit reaches the same as the other server.                      *)
LevelOK(j) ==
  /\ \A b \in Server : path[j + 1][b] = Step(path[j][b], cw[j], point[j + 1])
  /\ path[j + 1][0].t # path[j + 1][1].t
  /\ \A c \in Bit \ {point[j + 1]} :
       Step(path[j][0], cw[j], c) = Step(path[j][1], cw[j], c)

RootOK ==
  LET a == point[1] IN
    /\ \A b \in Server : root[b][a].s = path[1][b].s /\ root[b][a].t = path[1][b].t
    /\ path[1][0].t # path[1][1].t
    /\ \A c \in Bit \ {a} : root[0][c].s = root[1][c].s /\ root[0][c].t = root[1][c].t

(* On the hidden path the servers are where the client was *)
Follows ==
  x # << >> /\ OnPath =>
    \A b \in Server : node[b].s = path[Len(x)][b].s /\ node[b].t = path[Len(x)][b].t

(* The inductive invariant behind Agree *)
PInv ==
  /\ TypeOK
  /\ path # << >> => RootOK
  /\ \A j \in 1 .. Len(cw) : LevelOK(j)
  /\ Follows
  /\ Agree

(* The keys of a point function are of no use if the last expansions, or    *)
(* the first bytes of the last seeds, happen to agree: chance one in 2^32.  *)
Collision ==
  CASE kind = "Eq"    -> Prg[path[N][0].s].whole = Prg[path[N][1].s].whole
    [] kind = "Eq_32" -> FirstBytes[path[N][0].s] = FirstBytes[path[N][1].s]
    [] kind = "Lt"    -> FALSE

Size == IF kind = "Eq" THEN Prime ELSE M

(* evaluateEq: the servers' results differ by the value at the hidden point *)
(* and are the same everywhere else                                         *)
PointEq ==
  Evaluated /\ kind # "Lt" =>
    IF OnPath THEN Collision \/ (Result(0) - Result(1)) % Size = beta % Size
              ELSE Result(0) = Result(1)

(* The point the servers have followed so far is below the hidden one *)
Below ==
  \E k \in 1 .. Len(x) : x[k] < point[k] /\ \A j \in 1 .. (k - 1) : x[j] = point[j]

(* evaluateLt: the servers' results differ by the value below the hidden    *)
(* point, and are the same at it and above it                               *)
LessThan ==
  Evaluated /\ kind = "Lt" =>
    (Result(0) - Result(1)) % M = IF Below THEN beta ELSE 0

(* What server 0 gains over server 1 at one level of the hidden path: the   *)
(* value where a server that leaves it to the left is below the point       *)
LevelGain(j) ==
  \A c \in Bit :
    LET p == path[j][0]
        q == path[j][1]
    IN  (Prg[p.s].v[c] + cw[j][p.t][c].v - Prg[q.s].v[c] - cw[j][q.t][c].v) % M
          = (IF c = point[j + 1] THEN 0 ELSE Lead(point[j + 1])) % M

RootGain ==
  \A c \in Bit :
    (root[0][c].v - root[1][c].v) % M = (IF c = point[1] THEN 0 ELSE Lead(point[1])) % M

(* The difference of the servers' values is settled where they leave the    *)
(* hidden path                                                              *)
Difference ==
  x # << >> =>
    (node[0].v - node[1].v) % M = IF kind = "Lt" /\ Below THEN beta ELSE 0

(* The inductive invariant behind PointEq and LessThan *)
VInv ==
  /\ PInv
  /\ done => w \in Finals
  /\ path # << >> => RootGain
  /\ \A j \in 1 .. Len(cw) : LevelGain(j)
  /\ Difference
===============================================================================
