---------------------------- MODULE MCMaskedShares ----------------------------
(***************************************************************************)
(* Words of four bits, one wider than an int, as uint64_t is: values behind *)
(* two masks, one of them shared unevenly, and one register the players    *)
(* disagree on.  P is the smallest prime that Sign can do with at this     *)
(* length.                                                                 *)
(***************************************************************************)
EXTENDS MaskedShares

Hidden(v, a, b) == [r1 |-> << (v + a + b) % W, (v + a + b) % W >>, r2 |-> << a, b >>, r |-> (a + b) % W]

MCMemories ==
  { Hidden(5, 3, 4), Hidden(13, 1, 0), [r1 |-> << 1, 2 >>, r2 |-> << 0, 0 >>, r |-> 5] }
===============================================================================
