----------------------------- MODULE MaskedShares -----------------------------
(***************************************************************************)
(* Three-party computation on masked values (protocol/malicious_ppml:      *)
(* semi.h and verification.h).  A value v is kept as m = v + r, known to   *)
(* players 1 and 2, and a mask r, known to player 0 and shared between the *)
(* two others.  set_up works on the masks alone and online on the m's.     *)
(*                                                                         *)
(* A step is one call made by all three players (set_up and the online     *)
(* call that follows it are one step): within a call nobody waits for a    *)
(* message that is not sent before.                                        *)
(*                                                                         *)
(* Words are modulo 2^L.  The polynomials of AShareRing, PolyRingVerify    *)
(* and DotForRing are words here, too: only that they are added and        *)
(* multiplied matters.                                                     *)
(***************************************************************************)
EXTENDS Integers, Sequences, Functions

CONSTANTS
  L,            \* bits of a T
  IntBits,      \* bits of an int, 32
  P,            \* 67, the modulus of [[x]]
  Rand,         \* what random_T gives: the same at every player, every time
  Prec,         \* prec of Trunc
  Delta,        \* delta of PolyRingVerify
  Memories,     \* what a declared AShare may hold (a bound)
  Values,       \* the values given to ShareA (a bound)
  Factors,      \* the factors w_j and w'_j of Sign in a run (a bound)
  MaxRegs       \* number of registers in a run (a bound)

W == 2 ^ L
Half == W \div 2
Word == 0 .. (W - 1)
Bit == 0 .. 1
Place == 1 .. (L + 1)

(* r1 and r2 are r_1 and r_2 at players 1 and 2; r is r at player 0 *)
AShare == [r1 : [1 .. 2 -> Word], r2 : [1 .. 2 -> Word], r : Word]

ASSUME MaskedAssumption ==
  /\ L \in Nat \ {0} /\ IntBits \in Nat \ {0} /\ P \in Nat /\ P > L + 2
  /\ Rand \in Word /\ Prec \in 0 .. (L - 1) /\ Delta \in Word
  /\ Memories \subseteq AShare /\ Values \subseteq Word
  /\ Factors \subseteq 1 .. (P - 1) /\ MaxRegs \in Nat

(* 67 is a prime *)
ASSUME PrimeAssumption == \A a, b \in 1 .. (P - 1) : (a * b) % P # 0

VARIABLES
  regs,         \* the registers
  out           \* what the last call did: its operands and its result

vars == << regs, out >>

None == [op |-> "none"]

Init == regs = << >> /\ out = None

-------------------------------------------------------------------------------
(* A register stands for a value when the players agree on it *)
Consistent(x) == x.r1[1] = x.r1[2] /\ (x.r2[1] + x.r2[2]) % W = x.r
ValueOf(x) == (x.r1[1] - x.r) % W

(* [x]: what player 2 draws player 0 draws too, and takes from the value    *)
ShareB(v) == << (v - Rand) % W, Rand >>

RevealB(s) == LET sum == (s[1] + s[2]) % W IN << sum, sum >>

(* A result's mask: both shares are drawn *)
Masked == [r2 |-> << Rand, Rand >>, r |-> (2 * Rand) % W]

SumOf(S, f(_)) == SumFunctionOnSet([k \in S |-> f(k)], S)

(* set_up of Dot and DotForRing: what player 0 shares.  ismalicious adds 1. *)
Gamma(xs, ys, malicious) ==
  SumOf(DOMAIN xs, LAMBDA j : xs[j].r * ys[j].r) + Masked.r + (IF malicious THEN 1 ELSE 0)

(* online of Dot: player 1 adds the products of the m's, both take off the  *)
(* products of m's and masks.  Definitions named Bug... are variants of the  *)
(* one that follows, each with a mistake the code could have had; no         *)
(* specification here uses them.                                            *)
BugOnline(p, s, xs, ys) ==
  (s + SumOf(DOMAIN xs, LAMBDA j :
         xs[j].r1[p] * ys[j].r1[p] - xs[j].r1[p] * ys[j].r2[p] - xs[j].r2[p] * ys[j].r1[p])) % W

Online(p, s, xs, ys) ==
  (s + SumOf(DOMAIN xs, LAMBDA j :
         (IF p = 1 THEN xs[j].r1[p] * ys[j].r1[p] ELSE 0)
         - xs[j].r1[p] * ys[j].r2[p] - xs[j].r2[p] * ys[j].r1[p])) % W

DotOf(xs, ys, malicious) ==
  LET s == ShareB(Gamma(xs, ys, malicious))
  IN  [r1 |-> RevealB([p \in 1 .. 2 |-> Online(p, s[p], xs, ys)]), r2 |-> Masked.r2, r |-> Masked.r]

(* Trunc: masks and m's are shifted as signed numbers *)
Signed(x) == IF x >= Half THEN x - W ELSE x

BugShift(x) == x \div 2 ^ Prec

Shift(x) == (Signed(x) \div (2 ^ Prec)) % W

Truncated(x) ==
  [r1 |-> [p \in 1 .. 2 |-> Shift(x.r1[p])], r2 |-> ShareB(Shift(x.r)), r |-> Shift(x.r)]

(* inter, on every part of its operands *)
Inter(d, hs) ==
  [r1 |-> [p \in 1 .. 2 |-> SumOf(DOMAIN hs, LAMBDA k : d[k] * hs[k].r1[p]) % W],
   r2 |-> [p \in 1 .. 2 |-> SumOf(DOMAIN hs, LAMBDA k : d[k] * hs[k].r2[p]) % W],
   r  |-> SumOf(DOMAIN hs, LAMBDA k : d[k] * hs[k].r) % W]

(* verify: the lines through pairs of operands at Delta, and the parabola   *)
(* through the products at 0, 1 and 2, of which that at 1 is what is left   *)
(* of z.  dot1.ismalicious is set.                                          *)
Lagrange == << ((Delta - 1) * (Delta - 2)) \div 2, Delta * (2 - Delta), ((Delta - 1) * Delta) \div 2 >>

BugFold(xs, ys, z) ==
  LET at2(f) == Inter(<< -1, 2 >>, f)
      h0 == DotOf(<< xs[1] >>, << ys[1] >>, TRUE)
      h2 == DotOf(<< at2(xs) >>, << at2(ys) >>, FALSE)
  IN  Inter(Lagrange, << h0, z, h2 >>)

Fold(xs, ys, z) ==
  LET at2(f) == Inter(<< -1, 2 >>, f)
      h0 == DotOf(<< xs[1] >>, << ys[1] >>, TRUE)
      h2 == DotOf(<< at2(xs) >>, << at2(ys) >>, FALSE)
  IN  Inter(Lagrange, << h0, Inter(<< 1, -1 >>, << z, h0 >>), h2 >>)

OnLine(f) == Inter(<< 1 - Delta, Delta >>, f)

-------------------------------------------------------------------------------
(* Sign: compares m - Half + 1 with r, bit by bit from the highest.  Half   *)
(* is written 1 << (L - 1), an int; for a T wider than an int that is       *)
(* undefined, and 0 or the lowest int is what compilers make of it.         *)
Halves == IF L <= IntBits THEN { Half } ELSE { 0, (-(2 ^ (IntBits - 1))) % W }

(* chop, and a place below the lowest bit for equal numbers                 *)
Chop(x, last) == [j \in Place |-> IF j <= L THEN (x \div 2 ^ (L - j)) % 2 ELSE last]

(* [[x]]: like [x], modulo P *)
ShareC(b) == << [j \in Place |-> (b[j] - Rand) % P], [j \in Place |-> Rand % P] >>

(* What player p makes of its share c of the bits of r: its share of the    *)
(* exclusive or with the bits s of m, of the sum of those up to j, and of   *)
(* what is 0 at the first place where the two differ, and only there        *)
Differs(p, c, s, j) == (c[j] + P - 2 * s[j] * c[j] + (IF p = 1 THEN s[j] ELSE 0)) % P

BugFirst(p, c, s, j) ==
  ((SumOf(1 .. j, LAMBDA k : Differs(p, c, s, k)) - Differs(p, c, s, j)) % P)
  + (IF p = 1 THEN 1 ELSE 0)

First(p, c, s, j) ==
  ((SumOf(1 .. j, LAMBDA k : Differs(p, c, s, k)) - 2 * Differs(p, c, s, j)) % P)
  + (IF p = 1 THEN 1 ELSE 0)

(* u and v as player 0 adds them up, for the players' delta and factors *)
U(c, s, delta, w, j) ==
  (First(1, c[1], s, j) * w + First(2, c[2], s, j) * w + ((1 + delta + s[j]) % 2)) % P
V(c, s, w, w2, j) == ((First(1, c[1], s, j) * w + 1) * w2 + First(2, c[2], s, j) * w * w2) % P

(* check_list *)
SomeZero(u, v) == \E j \in Place : u[j] = 0 /\ v[j] # 0

(* What player 0 sends back is masked, and turned over when delta is 1 *)
SignOf(x, half, delta, w, w2) ==
  LET c == ShareC(Chop(x.r, 1))
      s == Chop((x.r1[1] - half + 1) % W, 0)
      zp == (2 * Rand) % W
      gammas == (zp * (1 - 2 * delta) + Masked.r + delta) % W
      back == (IF SomeZero([j \in Place |-> U(c, s, delta, w, j)], [j \in Place |-> V(c, s, w, w2, j)])
               THEN 0 ELSE 1) - zp
      r1 == (back - 2 * delta * back + gammas) % W
  IN  [r1 |-> << r1, r1 >>, r2 |-> Masked.r2, r |-> Masked.r]

-------------------------------------------------------------------------------
Write(x) == Len(regs) < MaxRegs /\ regs' = Append(regs, x)

(* A declared AShare holds whatever its memory did *)
Declare ==
  /\ \E x \in Memories : Write(x)
  /\ out' = None

(* ShareA: its AShare is passed by value, so that the caller's keeps what   *)
(* it had                                                                   *)
ShareA(i, v) ==
  /\ out' = [op |-> "share", reg |-> i, v |-> v]
  /\ UNCHANGED regs

RevealA(i) ==
  /\ out' = [op |-> "reveal", reg |-> i, v |-> ValueOf(regs[i])]
  /\ UNCHANGED regs

(* operator+ and operator*; operator- is minus the difference *)
Linear ==
  /\ \E i, j \in DOMAIN regs, d \in { << 1, 1 >>, << -1, 1 >>, << 3, 0 >> } : Write(Inter(d, << regs[i], regs[j] >>))
  /\ out' = None

Mult(i, j) ==
  LET z == DotOf(<< regs[i] >>, << regs[j] >>, FALSE)
  IN  /\ Write(z)
      /\ out' = [op |-> "mult", x |-> << regs[i] >>, y |-> << regs[j] >>, z |-> z]

Dot(xs, ys) ==
  LET z == DotOf(xs, ys, FALSE)
  IN  /\ Write(z)
      /\ out' = [op |-> "dot", x |-> xs, y |-> ys, z |-> z]

Trunc(i) ==
  LET z == Truncated(regs[i])
  IN  /\ Write(z)
      /\ out' = [op |-> "trunc", x |-> << regs[i] >>, z |-> z]

Sign(i) ==
  /\ \E half \in Halves, delta \in Bit, w, w2 \in Factors :
       out' = [op |-> "sign", x |-> << regs[i] >>, half |-> half, z |-> SignOf(regs[i], half, delta, w, w2)]
  /\ UNCHANGED regs

Verify(xs, ys, z) ==
  /\ out' = [op |-> "verify", x |-> << OnLine(xs) >>, y |-> << OnLine(ys) >>, z |-> Fold(xs, ys, z),
             xs |-> xs, ys |-> ys, claim |-> z]
  /\ UNCHANGED regs

Next ==
  \/ Declare \/ Linear
  \/ \E i \in DOMAIN regs : RevealA(i) \/ Trunc(i) \/ Sign(i) \/ \E v \in Values : ShareA(i, v)
  \/ \E i, j \in DOMAIN regs : Mult(i, j)
  \/ \E i, j, k \in DOMAIN regs :
       \/ Dot(<< regs[i], regs[j] >>, << regs[k], regs[i] >>)
       \/ Verify(<< regs[i], regs[j] >>, << regs[k], regs[i] >>, regs[Len(regs)])

Spec == Init /\ [][Next]_vars

-------------------------------------------------------------------------------
AllConsistent(xs) == \A i \in DOMAIN xs : Consistent(xs[i])
DotValue(xs, ys) == SumOf(DOMAIN xs, LAMBDA i : ValueOf(xs[i]) * ValueOf(ys[i])) % W

(* Products of registers the players agree on are such registers again, of  *)
(* the product of the values, whatever the masks and the sharing of them    *)
ProductRight ==
  out.op \in {"mult", "dot"} /\ AllConsistent(out.x) /\ AllConsistent(out.y)
    => Consistent(out.z) /\ ValueOf(out.z) = DotValue(out.x, out.y)

(* Trunc shifts m and r, not the value: what comes out is one more than the *)
(* shifted value at most, if the difference of the signed m and r is the    *)
(* signed value; where it overflows (c is not 0) the result is besides a    *)
(* whole W / 2^Prec away                                                    *)
TruncNear ==
  LET x == out.x[1]   d == Signed(x.r1[1]) - Signed(x.r)
  IN  out.op = "trunc" /\ Consistent(x) =>
        /\ Consistent(out.z)
        /\ \E e \in Bit, c \in -1 .. 1 :
             /\ d = Signed(ValueOf(x)) + c * W
             /\ ValueOf(out.z) = ((d \div 2 ^ Prec) + e) % W

(* Sign is a share of 0 where v - half + 1, as a word, is not 0 and does    *)
(* not wrap when the mask r is added, and of 1 otherwise: whatever delta,   *)
(* the factors and the shares of r's bits are.  This is the sign of v only  *)
(* for half = W \div 2, and a mask with which v + r - half + 1 has the sign  *)
(* of v (v signed).                                                         *)
SignTells ==
  LET x == out.x[1]   n == (ValueOf(x) - out.half + 1) % W
  IN  out.op = "sign" /\ Consistent(x) =>
        /\ Consistent(out.z)
        /\ ValueOf(out.z) = (IF n \in 1 .. (W - 1 - x.r) THEN 0 ELSE 1)

(* A claim z that is off by e folds to one that is off by the middle        *)
(* coefficient times e, plus what ismalicious puts in: even coefficients    *)
(* hide errors from the check                                               *)
FoldTells ==
  LET e == ValueOf(out.claim) - DotValue(out.xs, out.ys)
  IN  out.op = "verify" /\ AllConsistent(out.xs) /\ AllConsistent(out.ys) /\ Consistent(out.claim) =>
        /\ Consistent(out.z)
        /\ (ValueOf(out.z) - DotValue(out.x, out.y)) % W
             = (Lagrange[1] - Lagrange[2] + Lagrange[2] * e) % W
===============================================================================
