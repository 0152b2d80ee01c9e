-------------------------------- MODULE Memory --------------------------------
(***************************************************************************)
(* What the distributed RAM promises: an array with a read that returns    *)
(* the element at an address, and a write that replaces the element last   *)
(* read with the one it is asked to store.                                 *)
(***************************************************************************)
EXTENDS Naturals

CONSTANTS Address, Value

VARIABLES
  mem,   \* the array
  at,    \* address of the last read
  out,   \* what it returned
  asked  \* what the last write was asked to store

Init ==
  /\ mem \in [Address -> Value]
  /\ at \in Address
  /\ out \in Value
  /\ asked \in Value

Read ==
  /\ at' \in Address
  /\ out' = mem[at']
  /\ UNCHANGED <<mem, asked>>

Write ==
  /\ asked' \in Value
  /\ mem' = [mem EXCEPT ![at] = asked']
  /\ UNCHANGED <<at, out>>

Next == Read \/ Write

Spec == Init /\ [][Next]_<<mem, at, out, asked>>
===============================================================================
