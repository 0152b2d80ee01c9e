----------------------------- MODULE MCOramRounds -----------------------------
(***************************************************************************)
(* ORAM_TEST with one iteration and a tree of one level; the processes in  *)
(* the order of std::map<std::string, ..>.                                 *)
(***************************************************************************)
EXTENDS OramRounds, Timetable

MCProcesses == << "aid", "player0", "player1", "player2", "player3" >>
===============================================================================
