--------------------------------- MODULE MCBmr ---------------------------------
(***************************************************************************)
(* Two players and a circuit of two inputs with every kind of gate, an AND *)
(* gate behind an INV gate behind an XOR gate behind an AND gate; wires    *)
(* are not written in their order.  Masks that a gate overwrites are 0.    *)
(***************************************************************************)
EXTENDS Bmr

Gate(op, a, b, c) == [op |-> op, a |-> a, b |-> b, c |-> c]

MCGates == << Gate("AND", 0, 1, 3), Gate("XOR", 3, 0, 2), Gate("INV", 2, 0, 4), Gate("AND", 4, 1, 5) >>

MCHolder == [i \in 0 .. 1 |-> i]

(* Random masks of the inputs and of the AND gates' outputs, some of them   *)
(* alike                                                                    *)
MCMasks ==
  { m \in [0 .. (Lens * 6 - 1) -> 0 .. 1] :
      /\ m[1] = 1 - m[0] /\ m[5] = m[3]
      /\ \A s \in DOMAIN m : s \notin {0, 1, 3, 5} => m[s] = 0 }

MCInputs ==
  { d \in [0 .. (Lens - 1) -> [0 .. 1 -> 0 .. 1]] : \A w \in DOMAIN d : w > 0 => d[w][1] = 1 }
===============================================================================
