------------------------------ MODULE Timetable ------------------------------
(***************************************************************************)
(* Times at which the processes of P2PChannel can make their calls: they   *)
(* run in rounds, and in each round every process makes its next call if   *)
(* what it reads has been flushed and what it flushes finds room after the *)
(* rounds before.  Sets of one element make TLC evaluate a round once.     *)
(***************************************************************************)
EXTENDS P2PChannel

(* p need not wait in its next call when each process has made done[q] *)
NeedNotWait(p, done) ==
  LET k == done[p] + 1
  IN  /\ k <= Len(Calls[p])
      /\ \A q \in Proc : /\ Opened[p][q][k] <= Ended[q][p][done[q]]
                         /\ Ended[p][q][k] <= Opened[q][p][done[q]] + Cap

NextRound(done) == [p \in Proc |-> IF NeedNotWait(p, done) THEN done[p] + 1 ELSE done[p]]

(* How many calls each process has made after each of n rounds.  Halving   *)
(* keeps the recursion shallow.                                             *)
RECURSIVE Rounds(_, _)
Rounds(done, n) ==
  IF n = 1 THEN << NextRound(done) >>
  ELSE CHOOSE rounds \in { half \o Rounds(Last(half), n - n \div 2) : half \in { Rounds(done, n \div 2) } } : TRUE

(* In every round but the last somebody makes a call *)
RoundsEnough == MapThenSumSet(LAMBDA p : Len(Calls[p]), Proc) + 1

(* The round in which p makes its k-th call *)
TimesIn(rounds) ==
  [p \in Proc |-> [k \in 1 .. Last(rounds)[p] |->
     CHOOSE i \in DOMAIN rounds : rounds[i][p] = k /\ (i = 1 \/ rounds[i - 1][p] < k)]]

(* Round by round the programs come to their ends, and never wait *)
RunsInRounds ==
  \E rounds \in { Rounds([p \in Proc |-> 0], RoundsEnough) } :
    \E time \in { TimesIn(rounds) } :
      (\A p \in Proc : DOMAIN time[p] = DOMAIN Calls[p]) /\ Scheduled(time)

(* Programs that come to their ends fit each other: batch by batch they     *)
(* read what the others send, however sends and receives are spread over    *)
(* the calls, and their calls can be made in rounds in which no fread and   *)
(* no fflush has to wait.  Nothing in the code checks it: each player's     *)
(* calls are written down in a branch of their own.  Where Termination      *)
(* holds, this is what the theorems of P2PChannelProofs assume.             *)
ProgramsFit == Done => Matched /\ RunsInRounds
===============================================================================
