------------------------------ MODULE MCRamShares ------------------------------
(***************************************************************************)
(* Three elements of two bits; four-bit index words, the smallest for which*)
(* the sums of index shares stay apart from their wrapped negatives.       *)
(***************************************************************************)
EXTENDS RamShares

MCDeals == { <<0, 2>>, <<1, 2>> }
MCLists == { [i \in Address |-> 0], [i \in Address |-> (i + 1) % V] }
MCSplits == { <<1, 0, 15>>, <<9, 2, 8>> }
===============================================================================
