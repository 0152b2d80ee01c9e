----------------------------------- MODULE Sot -----------------------------------
(***************************************************************************)
(* Oblivious selection from replicated shares between three players        *)
(* (protocol/3_parties/sot.hpp): the steps of class SOT.                   *)
(*                                                                         *)
(* A list of len elements is the sum of three lists Y[0], Y[1] and Y[2];   *)
(* player p has Y[Suc(p)], its data0, and Y[Pre(p)], its data1.  The       *)
(* position is the sum of three numbers modulo len.  Every player also     *)
(* deals a pair of point keys for a hidden position, the fili, to the two  *)
(* others.  The players tell each other by how much the position is away   *)
(* from the filis, under masks which add up to nothing; then the two       *)
(* holders of the keys of d turn Y[d] by that distance and each add up     *)
(* what the key gives times the elements.                                  *)
(*                                                                         *)
(* An element is a function from its fields to numbers below the modulus   *)
(* of the field: a word has one field, a Node_el of outsource_dt.h six.    *)
(***************************************************************************)
EXTENDS Interval, ThreeParty, Functions

CONSTANTS
  Random(_, _),    \* what a run draws: a seed of the run, and what it is for
  LeafSeed(_, _),  \* the 16 bytes a point key has at a position, corrected
  Factor(_, _),    \* w of a pair of point keys
  Prime            \* the prime of the Fss

PointKey(lead, at, pad) == [lead |-> lead, at |-> at, pad |-> pad]

(* What the correction words give (PointFunction, Agree): off the hidden *)
(* position the two keys have come to the same seed.  At the hidden position *)
(* they have two seeds, of which nothing is said: w is the inverse of the    *)
(* difference of the 34 bytes that a further prf makes of them               *)
(* (generateTreeEq), and the evaluation of a whole list does not make those. *)
ASSUME PointAssumption ==
  /\ Prime \in Nat \ {0}
  /\ \A at, i, pad \in Word :
       /\ Factor(at, pad) \in Nat
       /\ \A lead \in BOOLEAN : LeafSeed(PointKey(lead, at, pad), i) \in Nat
       /\ i # at => LeafSeed(PointKey(TRUE, at, pad), i) = LeafSeed(PointKey(FALSE, at, pad), i)

(* evaluateEq for a list, as far as one position of it: the corrected seed  *)
(* times w, of which the element's operators take a word                    *)
EqEval(key, i) == ((LeafSeed(key, i) * Factor(key.at, key.pad)) % Prime) % W

-------------------------------------------------------------------------------
(* The numbers of prf under the seeds of the pairs: what p draws with the   *)
(* next player is what that one draws with the player before it             *)
MaskW0(seed, obj, p, t, i) == Random(seed, << obj, "pair", p, t, i >>)
MaskW1(seed, obj, p, t, i) == MaskW0(seed, obj, Pre(p), t, i)

Fili(seed, obj, p, t, len) == Random(seed, << obj, "fili", p, t, 0 >>) % len

(* offline: for each turn a key to the player after and one to the player   *)
(* before                                                                   *)
Keys(seed, obj, p, times, len, lead) ==
  [t \in 1 .. times |->
     PointKey(lead, Fili(seed, obj, p, t, len), Random(seed, << obj, "pad", p, t, 0 >>) % W)]

(* Definitions named Bug... are variants of the one that follows, each with *)
(* a mistake the code could have had; no specification here uses them.      *)
BugMyDelta(seed, obj, p, i, idx, t, len) ==
  (idx + len - (MaskW0(seed, obj, p, t, i) % len) + (MaskW1(seed, obj, p, t, i) % len)) % len

(* p's part of how far the position is from the fili of i *)
MyDelta(seed, obj, p, i, idx, t, len) ==
  (idx + len - (MaskW0(seed, obj, p, t, i) % len) + (MaskW1(seed, obj, p, t, i) % len)
     - (IF i = p THEN Fili(seed, obj, p, t, len) ELSE 0)) % len

MyDeltas(deltas, seed, obj, p, idx, t, len) ==
  [i \in Player |-> [deltas[i] EXCEPT ![p] = MyDelta(seed, obj, p, i, idx, t, len)]]

(* What each of the others misses of p *)
WordsForPre(deltas, p) == << deltas[p][p], deltas[Suc(p)][p] >>
WordsForSuc(deltas, p) == << deltas[p][p], deltas[Pre(p)][p] >>

(* The four words p receives, at their places *)
WithReceived(deltas, p, fromSuc, fromPre) ==
  [deltas EXCEPT ![Suc(p)][Suc(p)] = fromSuc[1], ![Pre(p)][Suc(p)] = fromSuc[2],
                 ![Pre(p)][Pre(p)] = fromPre[1], ![Suc(p)][Pre(p)] = fromPre[2]]

Delta(deltas, i, len) == (deltas[i][0] + deltas[i][1] + deltas[i][2]) % len

(* The elements of one list, turned, times what the key gives: a product is *)
(* a word before it is reduced                                              *)
Turned(data, key, shift, len, f, modulus) ==
  SumFunctionOnSet([i \in 0 .. (len - 1) |-> ((data[(i + shift) % len][f] * EqEval(key, i)) % W) % modulus],
                   0 .. (len - 1))

(* online_2, after the words have come in; mod gives the fields' moduli *)
Answer(p, data0, data1, gk, sk, deltas, len, mod) ==
  [f \in DOMAIN mod |->
     (Turned(data1, sk, Delta(deltas, Pre(p), len), len, f, mod[f])
        - Turned(data0, gk, Delta(deltas, Suc(p), len), len, f, mod[f])) % mod[f]]
===============================================================================
