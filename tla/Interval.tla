-------------------------------- MODULE Interval --------------------------------
(***************************************************************************)
(* Interval containment between three players (Thr_pc_ic_id of             *)
(* include/scmp.hpp).  The dealer hides a word r in a pair of comparison   *)
(* keys and sends one to the player after it, the other to the player      *)
(* before it.  From the masked word x + r these two compute words that add *)
(* up to 1 if p <= x <= q, and to 0 otherwise.                             *)
(*                                                                         *)
(* The code also takes a modulus.  Its callers pass (uint32_t)1 << 32,     *)
(* which C++ leaves undefined and compilers fold to 0, and 0 stands for    *)
(* words that wrap around: the branch modelled here.                       *)
(***************************************************************************)
EXTENDS Integers

CONSTANT W  \* words are the numbers below W (2^32)

ASSUME WidthAssumption == W \in Nat /\ W >= 4

Word == 0 .. (W - 1)
Side == {"suc", "pre"}
Bool(b) == IF b THEN 1 ELSE 0

-------------------------------------------------------------------------------
(* evaluateLt: what the holder of the first key gets is more by one below   *)
(* the hidden point                                                         *)
LtEval(key, x) == (key.pad + x + Bool(key.side = "suc" /\ x < key.at)) % W

(* What the turn of the interval by r adds to the comparisons: it may wrap  *)
(* around, and so may either of its ends                                    *)
Carry(p, q, r) ==
  Bool((p + r) % W > (q + r) % W) - Bool((p + r) % W > p)
    + Bool((q + 1 + r) % W > (q + 1) % W) + Bool((q + r) % W = W - 1)

(* twopc_ic_off: the dealer's two messages *)
IcKey(side, p, q, r, pad, z0) ==
  [side |-> side, at |-> (r - 1) % W, pad |-> pad,
   z |-> IF side = "suc" THEN z0 ELSE (Carry(p, q, r) - z0) % W]

(* twopc_ic: the player before the dealer negates what it evaluates and     *)
(* adds the comparisons both can make                                       *)
IcShare(key, p, q, R) ==
  LET q_pl == (q + 1) % W
      s_p == LtEval(key, (R - 1 - p) % W)
      s_q == LtEval(key, (R - 1 - q_pl) % W)
  IN  IF key.side = "pre"
      THEN (Bool(R > p) - Bool(R > q_pl) + s_p - s_q + key.z) % W
      ELSE (s_q - s_p + key.z) % W
===============================================================================
