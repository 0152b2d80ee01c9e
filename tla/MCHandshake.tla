----------------------------- MODULE MCHandshake -----------------------------
(* Five processes with every order of five numbers: whichever of two        *)
(* processes listens, and however the order of the map and that of the      *)
(* numbers differ.                                                          *)
EXTENDS Handshake, Functions

MCNumberings == { f \in [0 .. 4 -> 1 .. 5] : IsInjective(f) }
===============================================================================
