-------------------------------- MODULE Reveals --------------------------------
(***************************************************************************)
(* The message patterns of the four-party primitives as pieces of          *)
(* P2PChannel programs: sequences of sends and receives of process p.  A   *)
(* message is tagged with the operation and the value it carries.          *)
(***************************************************************************)
EXTENDS P2PChannel

Players == << "player0", "player1", "player2", "player3" >>

(* Who exchanges shares with whom in the two-party reveals *)
TwoPC == [player0 |-> "player1", player1 |-> "player0",
          player2 |-> "player3", player3 |-> "player2"]
Diag  == [player0 |-> "player2", player2 |-> "player0",
          player1 |-> "player3", player3 |-> "player1"]
Latt  == [player0 |-> "player3", player3 |-> "player0",
          player1 |-> "player2", player2 |-> "player1"]

(* twopc_reveal_1, diag_reveal_1, latt_reveal_1 and their second halves *)
Reveal1(pairing, p, tag) == << SendTo(pairing[p], tag) >>
Reveal2(pairing, p, tag) == << RecvFrom(pairing[p], tag) >>
Reveal(pairing, p, tag) == Reveal1(pairing, p, tag) \o Reveal2(pairing, p, tag)

(* fourpc_reveal: to all other players, then from all of them *)
Others(p) == SelectSeq(Players, LAMBDA q : q # p)
Fourpc1(p, tag) == [k \in DOMAIN Others(p) |-> SendTo(Others(p)[k], tag)]
Fourpc2(p, tag) == [k \in DOMAIN Others(p) |-> RecvFrom(Others(p)[k], tag)]
Fourpc(p, tag) == Fourpc1(p, tag) \o Fourpc2(p, tag)

(* Only the processes in ps take part *)
Of(ps, p, ops) == IF p \in ps THEN ops ELSE << >>

(* One call for all of them, if there are any *)
Together(ops) == IF ops = << >> THEN << >> ELSE << ops >>

(* In flush mode every send and receive is a call of its own; otherwise     *)
(* what a process does between two flushes is nobody else's business.       *)
CallsOf(ops) == IF IsFlush THEN [k \in DOMAIN ops |-> << ops[k] >>] ELSE Together(ops)

(* Several messages in a row between the same two processes *)
SendAll(q, tags) == [k \in DOMAIN tags |-> SendTo(q, tags[k])]
RecvAll(q, tags) == [k \in DOMAIN tags |-> RecvFrom(q, tags[k])]

Concat(f(_), n) == FlattenSeq([i \in 1 .. n |-> f(i)])

(* Pratical_OT::send and recv, for one block *)
OTSetup == << << "C", "size" >>, << "C", "point" >>, << "gr", "size" >>, << "gr", "point" >> >>
OTChoice == << << "pk0", "size" >>, << "pk0", "point" >> >>
OTData == << << "OT", "m" >> >>
OTSend(q) == SendAll(q, OTSetup) \o RecvAll(q, OTChoice) \o SendAll(q, OTData)
OTRecv(q) == RecvAll(q, OTSetup) \o SendAll(q, OTChoice) \o RecvAll(q, OTData)
===============================================================================
