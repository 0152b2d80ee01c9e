---------------------------- MODULE MCBlockChannel ----------------------------
(***************************************************************************)
(* BlockChannel with a block of 3 bytes.  The lengths cover a message       *)
(* shorter than, equal to, just above and more than twice the block.  Both  *)
(* ends flush after the last message, as ~HighSpeedNetIO does.              *)
(***************************************************************************)
EXTENDS BlockChannel

Lengths == {1, 2, 3, 4, 7}
MaxMessages == 3

MCScripts ==
  UNION { { s \in [1 .. n -> [len : Lengths, cut : BOOLEAN]] : s[n].cut }
          : n \in 1 .. MaxMessages }
===============================================================================
