--------------------------- MODULE MCPointFunction ---------------------------
(***************************************************************************)
(* Trees of three levels over seeds of two bits; prf is one function of the  *)
(* seeds, of which two have the same first bytes and two expand to numbers *)
(* that agree modulo the prime.                                            *)
(***************************************************************************)
EXTENDS PointFunction

MCSeedBits == {1, 2}

Number(s) == (IF 1 \in s THEN 1 ELSE 0) + (IF 2 \in s THEN 2 ELSE 0)
SeedOf(k) == CHOOSE s \in SUBSET MCSeedBits : Number(s) = k % 4

MCPrg ==
  [s \in SUBSET MCSeedBits |->
     LET k == Number(s) IN
     [s |-> [c \in 0 .. 1 |-> SeedOf(3 * k + 2 * c + 1)],
      t |-> [c \in 0 .. 1 |-> IF k = 3 * c THEN 1 ELSE 0],
      v |-> [c \in 0 .. 1 |-> (k + c) % 4],
      whole |-> << 1, 3, 4, 1 >>[k + 1]]]

MCFirstBytes == [s \in SUBSET MCSeedBits |-> << 2, 0, 3, 0 >>[Number(s) + 1]]

MCInvert ==
  [d \in 0 .. 4 |-> IF d = 0 THEN 0 ELSE CHOOSE e \in 0 .. 4 : (d * e) % 5 = 1]

MCRandomSeeds == { {}, {1} }
===============================================================================
