------------------------------- MODULE ThreeParty -------------------------------
(***************************************************************************)
(* Three players in a ring (get_suc and get_pre of include/config.hpp),    *)
(* each a process of its own, with a queue for each ordered pair: what     *)
(* BlockChannel shows SubChannel to be once everything is flushed.         *)
(***************************************************************************)
EXTENDS Integers, Sequences

VARIABLES
  pc,    \* pc[p]: the next step of p
  chan   \* chan[p][q]: sent by p to q and not received

Player == 0 .. 2
Suc(p) == (p + 1) % 3
Pre(p) == (p + 2) % 3

NoMessages == [p \in Player |-> [q \in Player |-> << >>]]

At(p, step) == pc[p] = step
Goto(p, step) == pc' = [pc EXCEPT ![p] = step]

Send(p, toSuc, toPre) ==
  chan' = [chan EXCEPT ![p][Suc(p)] = @ \o toSuc, ![p][Pre(p)] = @ \o toPre]

(* Definitions named Bug... are variants of the one that follows, each with *)
(* a mistake the code could have had; no specification here uses them.      *)
BugArrived(p, nSuc, nPre) == Len(chan[Suc(p)][p]) > nSuc /\ Len(chan[Pre(p)][p]) >= nPre

(* p has what it waits for: a receive blocks until it comes *)
Arrived(p, nSuc, nPre) == Len(chan[Suc(p)][p]) >= nSuc /\ Len(chan[Pre(p)][p]) >= nPre
FromSuc(p, n) == SubSeq(chan[Suc(p)][p], 1, n)
FromPre(p, n) == SubSeq(chan[Pre(p)][p], 1, n)

Dropped(queue, n) == SubSeq(queue, n + 1, Len(queue))
Receive(p, nSuc, nPre) ==
  chan' = [chan EXCEPT ![Suc(p)][p] = Dropped(@, nSuc), ![Pre(p)][p] = Dropped(@, nPre)]
===============================================================================
