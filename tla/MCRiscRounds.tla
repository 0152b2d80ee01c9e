----------------------------- MODULE MCRiscRounds -----------------------------
(***************************************************************************)
(* The four players run one instruction.  A socket holds two blocks:       *)
(* RetRes sends two to every player before it receives any, and with one   *)
(* block per socket all players block in fflush.                           *)
(***************************************************************************)
EXTENDS RiscRounds, Timetable

MCProcesses == << "player0", "player1", "player2", "player3" >>
===============================================================================
