------------------------------- MODULE RamShares -------------------------------
(***************************************************************************)
(* The values behind OramRounds: Ram<T> (include/preliminaries.hpp) and    *)
(* Convert (protocol/convert.h) in the loop of ORAM_TEST and of the        *)
(* machine's load and store.  An element is the sum of two shares; player0 *)
(* and player1 hold the first, player2 and player3 the second.  A read     *)
(* leaves its result in four additive shares, Convert turns them into two  *)
(* replicated ones, and a write adds the difference to the old value.      *)
(*                                                                         *)
(* The four players run the same sequence of operations, and what one of   *)
(* them computes depends only on its own state and on the messages of the  *)
(* operation (OramRounds has their order): an operation is one step.  A    *)
(* function secret sharing key pair is the pair of value lists it expands  *)
(* to: they are equal except at the hidden point, where they differ by the *)
(* payload.                                                                *)
(***************************************************************************)
EXTENDS Integers, Functions

CONSTANTS
  L,        \* data_len
  W,        \* words of the indices are 0 .. W - 1; uint32_t
  V,        \* elements are 0 .. V - 1; the template parameter T
  Itr,      \* zero shares and iterations
  Deals,    \* the hidden points and index shares the helper may draw
  Lists,    \* the value lists a first key may expand to
  Splits,   \* the index shares of the first three players
  Payloads, \* the payloads v of a write
  Random    \* random elements

Address == 0 .. L - 1
Word == 0 .. W - 1
Value == 0 .. V - 1

ASSUME SizeAssumption ==
  /\ L \in Nat /\ L >= 3          \* evaluateEq needs two bits of index
  /\ W \in Nat /\ V \in Nat \ {0}
  /\ W % 2 = 0 /\ 3 * (L - 1) <= W \div 2
ASSUME RandomAssumption ==
  /\ Itr \in Nat
  /\ Deals \subseteq (Address \X Address)
  /\ Lists \subseteq [Address -> Value]
  /\ Splits \subseteq (Word \X Word \X Word)
  /\ Payloads \subseteq Value /\ Random \subseteq Value

Player == 0 .. 3

-------------------------------------------------------------------------------
(* Arithmetic *)

(* uint32_t sub(a, b, c): a - b, with the length added if it is negative *)
Sub(a, b) == IF a >= b THEN a - b ELSE a + L - b

(* The two index shares of the hidden point r, given the first *)
SecondShare(r, d) == Sub(r, d)

(* while(delta_r > (1<<31)) delta_r += data_len; delta_r % data_len: the    *)
(* number of turns is the first that brings delta_r into the lower half     *)
Low(d) == d <= W \div 2
Turns(d) == CHOOSE k \in 0 .. W :
              Low((d + k * L) % W) /\ \A j \in 0 .. (k - 1) : ~Low((d + j * L) % W)

(* Definitions named Bug... are variants of the one that follows, each with *)
(* a mistake the code could have had; no specification here uses them.      *)
(* Here the opened word is reduced without the loop.                        *)
BugNormalise(d) == d % L

Normalise(d) == ((d + Turns(d) * L) % W) % L

(* Two players subtract their share of r from their share of the index,     *)
(* the others add theirs, if the index is shared between four               *)
OpenIndex(x, y, others, deal) ==
  Normalise((Sub(x, deal[2]) + Sub(y, SecondShare(deal[1], deal[2])) + others) % W)

(* The lists the two keys for payload v at the point r expand to *)
FirstList(list) == list
BugSecondList(list, r, v) == [list EXCEPT ![r] = (@ + v) % V]
SecondList(list, r, v) == [list EXCEPT ![r] = (@ - v) % V]

(* The shares of idx of the four players: additive between all of them, or, *)
(* if is_rep, between each two of a pairing                                 *)
Additive(idx, s) == <<s[1], s[2], s[3], (idx - s[1] - s[2] - s[3]) % W>>
RepRead(idx, s) == <<s[1], (idx - s[1]) % W, s[3], (idx - s[3]) % W>>
RepWrite(idx, s) == <<s[1], s[2], (idx - s[1]) % W, (idx - s[2]) % W>>

(* The inner product of the data and the turned list, as an element of T;   *)
(* the variant is not reduced                                               *)
BugDot(d, list, delta) == SumFunction([i \in Address |-> d[i] * list[Sub(i, delta)]])

Dot(d, list, delta) ==
  SumFunction([i \in Address |-> d[i] * list[Sub(i, delta)]]) % V

-------------------------------------------------------------------------------
VARIABLES
  data,      \* data[p]: p's data_ptr
  tmp,       \* tmp[p]: p's share of the last element read
  at,        \* address of the last read
  asked,     \* the last target a write was called with
  ptr,       \* zero shares Convert has used
  left,      \* iterations to come
  next       \* the operation to come: "read", "convert" or "write"

vars == <<data, tmp, at, asked, ptr, left, next>>

(* replicated_share; nothing has been read yet *)
Init ==
  /\ \E mem \in Lists, d0 \in Lists :
       data = [p \in Player |->
                 IF p < 2 THEN d0 ELSE [i \in Address |-> (mem[i] - d0[i]) % V]]
  /\ at = 0 /\ asked = 0
  /\ tmp = [p \in Player |-> 0]
  /\ ptr = 0
  /\ left = Itr
  /\ next = "read"

(* Ram::read.  Each pair of players opens the distance of the index to its  *)
(* hidden point and multiplies its data with the list turned by it; player1 *)
(* and player3 negate the result, as every caller does (oram_rw_test.cpp,   *)
(* line 158; operation.h, line 421).                                        *)
Read ==
  /\ next = "read" /\ left > 0
  /\ \E a \in Address, s \in Splits, rep \in BOOLEAN,
        f, g \in Deals, e, h \in Lists :
       LET x == IF rep THEN RepRead(a, s) ELSE Additive(a, s)
           rest(u) == IF rep THEN 0 ELSE u
           d01 == OpenIndex(x[1], x[2], rest(x[3] + x[4]), f)
           d23 == OpenIndex(x[3], x[4], rest(x[1] + x[2]), g)
       IN  /\ tmp' = [p \in Player |->
                CASE p = 0 -> Dot(data[0], FirstList(e), d01)
                  [] p = 1 -> (-Dot(data[1], SecondList(e, f[1], 1), d01)) % V
                  [] p = 2 -> Dot(data[2], FirstList(h), d23)
                  [] p = 3 -> (-Dot(data[3], SecondList(h, g[1], 1), d23)) % V]
           /\ at' = a
  /\ next' = "convert"
  /\ UNCHANGED <<data, asked, ptr, left>>

(* The first part of fourpc_share_2_replicated_share adds a zero share, the *)
(* two-party reveal of the second adds both of a pair                       *)
ConvertWith(z0, z1, z2) ==
  LET zero == <<z0, z1, z2, (0 - z0 - z1 - z2) % V>>
      data2 == [p \in Player |-> (tmp[p] + zero[p + 1]) % V]
  IN  tmp' = [p \in Player |->
        IF p < 2 THEN (data2[0] + data2[1]) % V ELSE (data2[2] + data2[3]) % V]

(* Without a zero share the function returns and leaves the shares as they  *)
(* are; enough says whether there is one.                                   *)
ConvertIf(enough) ==
  /\ next = "convert"
  /\ IF enough
       THEN /\ \E z0, z1, z2 \in Random : ConvertWith(z0, z1, z2)
            /\ ptr' = ptr + 1
       ELSE UNCHANGED <<tmp, ptr>>
  /\ next' = "write"
  /\ UNCHANGED <<data, at, asked, left>>

(* The last zero share is never used *)
BugConvert == ConvertIf(ptr + 1 < Itr)

Convert == ConvertIf(ptr + 1 <= Itr)

(* The shares of the index of a write, and the distance p opens: player0    *)
(* and player2 open it together, and so do player1 and player3.             *)
WriteIndex(a, s, rep) == IF rep THEN RepWrite(a, s) ELSE Additive(a, s)
Distance(p, x, rep, deal) ==
  IF p \in {0, 2} THEN OpenIndex(x[1], x[3], IF rep THEN 0 ELSE x[2] + x[4], deal)
                  ELSE OpenIndex(x[2], x[4], IF rep THEN 0 ELSE x[1] + x[3], deal)

(* The payload of the first tuple is not taken off *)
BugPlus(p, org, target, t0, v, v0) ==
  IF p < 2 THEN t0 - org[p] ELSE (target - t0) - org[p]

(* p's share of what the first tuple leaves to add of target - org, and its *)
(* sum, opened between the same two players; t0 and v0 are the first shares *)
(* of target and of the payload v.                                          *)
Plus(p, org, target, t0, v, v0) ==
  IF p < 2 THEN t0 - org[p] - v0 ELSE (target - t0) - org[p] - (v - v0)
DeltaV(p, org, target, t0, v, v0) ==
  IF p \in {0, 2} THEN (Plus(0, org, target, t0, v, v0) + Plus(2, org, target, t0, v, v0)) % V
                  ELSE (Plus(1, org, target, t0, v, v0) + Plus(3, org, target, t0, v, v0)) % V

(* The list p's key expands to *)
KeyList(p, list, r, v) == IF p < 2 THEN FirstList(list) ELSE SecondList(list, r, v)

(* Ram::write(idex, target, org) with org = tmp: the first tuple adds v,    *)
(* the second the rest of the difference.                                   *)
WriteWith(target, t0, v, v0, s, rep, f, g, e, h) ==
  LET x == WriteIndex(at, s, rep)
      df == [p \in Player |-> Distance(p, x, rep, f)]
      dg == [p \in Player |-> Distance(p, x, rep, g)]
      dv == [p \in Player |-> DeltaV(p, tmp, target, t0, v, v0)]
      change(p, i) == KeyList(p, e, f[1], v)[Sub(i, df[p])]
                        + dv[p] * KeyList(p, h, g[1], 1)[Sub(i, dg[p])]
  IN  data' = [p \in Player |-> [i \in Address |->
        IF p < 2 THEN (data[p][i] + change(p, i)) % V
                 ELSE (data[p][i] - change(p, i)) % V]]

Write ==
  /\ next = "write"
  /\ \E target \in Value, t0, v0 \in Random, v \in Payloads, s \in Splits, rep \in BOOLEAN,
        f, g \in Deals, e, h \in Lists :
       /\ WriteWith(target, t0, v, v0, s, rep, f, g, e, h)
       /\ asked' = target
  /\ next' = "read"
  /\ left' = left - 1
  /\ UNCHANGED <<tmp, at, ptr>>

(* ORAM_TEST has made its iterations *)
Terminated == next = "read" /\ left = 0 /\ UNCHANGED vars

Next == Read \/ Convert \/ Write \/ Terminated

Spec == Init /\ [][Next]_vars

-------------------------------------------------------------------------------
(* Properties *)

TypeOK ==
  /\ data \in [Player -> [Address -> Value]]
  /\ tmp \in [Player -> Value]
  /\ at \in Address /\ asked \in Value
  /\ ptr \in 0 .. Itr /\ left \in 0 .. Itr
  /\ next \in {"read", "convert", "write"}

(* The shared element and the shared result *)
Mem == [i \in Address |-> (data[0][i] + data[2][i]) % V]
Out == IF next = "convert" THEN (tmp[0] + tmp[1] + tmp[2] + tmp[3]) % V
                           ELSE (tmp[0] + tmp[2]) % V

(* The two copies of each share never part, whichever index each pair of    *)
(* players opened and however it wrapped around.                            *)
Replicas ==
  /\ data[0] = data[1] /\ data[2] = data[3]
  /\ next # "convert" => tmp[0] = tmp[1] /\ tmp[2] = tmp[3]

(* Every conversion finds a zero share: as many are made as there are       *)
(* iterations, and an iteration uses one.  Why Replicas holds of tmp.       *)
Counting ==
  /\ left \in 0 .. Itr
  /\ next # "read" => left > 0
  /\ ptr = Itr - left + (IF next = "write" THEN 1 ELSE 0)

RInv ==
  /\ at \in Address
  /\ next \in {"read", "convert", "write"}
  /\ Counting
  /\ Replicas

(* The players together implement an array: a read returns what the last    *)
(* write to its address was asked to store, a write changes no other        *)
(* element, and the conversion changes nothing.                             *)
Array == INSTANCE Memory WITH mem <- Mem, at <- at, out <- Out, asked <- asked
ImplementsMemory == Array!Spec

(* What was read stays what is there until it is written over: org of       *)
(* Ram::write is the current element, so that target - org is the right     *)
(* difference.                                                              *)
OrgIsCurrent == next # "read" => Out = Mem[at]
===============================================================================
