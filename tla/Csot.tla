---------------------------------- MODULE Csot ----------------------------------
(***************************************************************************)
(* Comparison and choice between three players (protocol/3_parties/        *)
(* csot.hpp): the steps of class CSOT.  Each player has a part of two      *)
(* words and of two blocks; the parts that come out add up to the first    *)
(* block if the second word is not less than the first, and to the second  *)
(* block otherwise.  The words' difference is masked by the rou of one     *)
(* player and compared by the two others; the block of every player is     *)
(* known to it and to the player before it.                                *)
(***************************************************************************)
EXTENDS Sot

(* tao = (T)1 << (L - 1) - 1 is a quarter of the words: the minus goes first *)
Tao == W \div 4

Rou(seed, obj, p) == Random(seed, << obj, "rou", p, 0, 0 >>) % W

(* offline_1: the keys p deals for its rou, one for either side *)
DealtIc(seed, obj, p, side) ==
  IcKey(side, 0, Tao, Rou(seed, obj, p),
        Random(seed, << obj, "pad", p, 0, 0 >>) % W, Random(seed, << obj, "z", p, 0, 0 >>) % W)

(* p's part of the words' difference, under the masks and its own rou *)
Differences(deltas, seed, obj, p, m) ==
  [i \in Player |-> [deltas[i] EXCEPT ![p] =
     (m[2] - m[1] - MaskW0(seed, obj, p, 0, i) + MaskW1(seed, obj, p, 0, i)
        + (IF i = p THEN Rou(seed, obj, p) ELSE 0)) % W]]

Zeta(seed, obj, p, k) == Random(seed, << obj, "zeta", p, 0, k >>)

(* p's part of the blocks, under masks that add up to nothing; mod 0 in the *)
(* code stands for words, W here                                            *)
MaskedBlocks(seed, obj, p, block, mod) ==
  [k \in 1 .. 2 |->
     (block[k] + (Zeta(seed, obj, p, k) % mod) + mod - (Zeta(seed, obj, Pre(p), k) % mod)) % mod]

(* Definitions named Bug... are variants of the one that follows, each with *)
(* a mistake the code could have had; no specification here uses them.      *)
BugChoice(own, next, betaSuc, betaPre, mod) ==
  (own[2] + (own[1] - own[2]) * (betaPre % mod) + (next[1] - next[2]) * (betaSuc % mod)) % mod

(* The second block, plus the difference of the blocks where the comparison *)
(* is 1: the share of the comparison under the next player's rou goes with  *)
(* the own block, the one under the previous player's with the next's.      *)
(* The products are of numbers below mod, which is a uint16_t (the          *)
(* data_lens of SOT, the size of what is selected from): no word wraps.     *)
Choice(own, next, betaSuc, betaPre, mod) ==
  (own[2] + (own[1] - own[2]) * (betaSuc % mod) + (next[1] - next[2]) * (betaPre % mod)) % mod
===============================================================================
