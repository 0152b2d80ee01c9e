---------------------------- MODULE MCAuditRounds ----------------------------
(***************************************************************************)
(* relu needs three players in the configuration the library's programs    *)
(* load, testAB two.                                                       *)
(***************************************************************************)
EXTENDS AuditRounds, Timetable

ThreePlayers == << "player0", "player1", "player2" >>
TwoPlayers == << "player0", "player1" >>
===============================================================================
