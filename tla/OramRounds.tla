------------------------------ MODULE OramRounds ------------------------------
(***************************************************************************)
(* ORAM_TEST (src/oram_rw_test.cpp, one-word elements): which messages the *)
(* helper "aid" and the four players exchange, in which order, and where   *)
(* they flush.  The values are left out; RamShares has them.              *)
(*                                                                         *)
(* After the third flush_all the helper moves no message: the rest of its  *)
(* program is left out.                                                    *)
(***************************************************************************)
EXTENDS Reveals

CONSTANTS
  Itr,    \* iterations, -i
  Depth   \* levels of the tree FSS_MPC generates, get_bits(data_lens)

ASSUME RoundsAssumption == Itr \in Nat /\ Depth \in Nat \ {0}

-------------------------------------------------------------------------------
(* Offline: the helper sends, one player after the other; a player receives *)

(* The parts of send_fss_key and of send_eq_key, in order *)
FssParts == << "prime size", "prime", "Fss", "aes_keys" >>
KeyParts == << "w size", "w", "key", "cw0", "cw1" >>
Parts(name, parts) == [k \in DOMAIN parts |-> << name, parts[k] >>]
Key(name) == Parts(name, KeyParts)

(* One message to every player, in order *)
ToPlayers(tag) == [k \in DOMAIN Players |-> SendTo(Players[k], tag)]

(* fourpc_zeroshare, replicated_share, Ram::init *)
AidInit ==
  ToPlayers(<< "Convert", "zero_share" >>) \o ToPlayers(<< "Ram", "data" >>)
    \o FlattenSeq([k \in DOMAIN FssParts |-> ToPlayers(<< "Ram", FssParts[k] >>)])

(* prepare_read, one triple *)
AidPrepareRead(i) ==
  FlattenSeq([k \in DOMAIN Players |-> SendAll(Players[k], Key("read key"))])
    \o ToPlayers(<< "read", "delta" >>)

(* prepare_write, one tuple: two keys for each pair of players *)
AidPrepareWrite(i) ==
  LET Two(a, b, name) == SendAll(a, Key(name)) \o SendAll(b, Key(name))
  IN  Two("player0", "player1", "k_w") \o Two("player0", "player1", "k_d")
        \o Two("player2", "player3", "k_w") \o Two("player2", "player3", "k_d")
        \o ToPlayers(<< "write", "delta0" >>) \o ToPlayers(<< "write", "delta1" >>)
        \o ToPlayers(<< "write", "v" >>)

AidProgram ==
  CallsOf(AidInit) \o << FlushAll >>
    \o CallsOf(Concat(AidPrepareRead, Itr)) \o << FlushAll >>
    \o CallsOf(Concat(AidPrepareWrite, Itr)) \o << FlushAll >>

PrepareRead(i) == RecvAll("aid", Append(Key("read key"), << "read", "delta" >>))

(* Definitions named Bug... are variants of the one that follows, each with *)
(* a mistake the code could have had; no program uses them.  Here the two   *)
(* keys are read in the other order.                                        *)
BugPrepareWrite(i) ==
  RecvAll("aid", Key("k_d") \o Key("k_w")
                   \o << << "write", "delta0" >>, << "write", "delta1" >>, << "write", "v" >> >>)

PrepareWrite(i) ==
  RecvAll("aid", Key("k_w") \o Key("k_d")
                   \o << << "write", "delta0" >>, << "write", "delta1" >>, << "write", "v" >> >>)

-------------------------------------------------------------------------------
(* FSS_MPC: player0 with player2, player1 with player3.  The first of a     *)
(* pair is tarro.first.                                                     *)

First(p) == p \in {"player0", "player1"}

(* FSS_MPC::FSS_MPC *)
AesKeys(p) ==
  IF First(p) THEN Reveal1(Diag, p, << "FSS_MPC", "aes_keys" >>)
              ELSE Reveal2(Diag, p, << "FSS_MPC", "aes_keys" >>)

(* Both of a pair begin as the sender *)
BugSharedSelect(p) == OTSend(Diag[p]) \o OTRecv(Diag[p])

(* shared_select: an OT in each direction *)
SharedSelect(p) ==
  LET q == Diag[p]
  IN  IF First(p) THEN OTSend(q) \o OTRecv(q) ELSE OTRecv(q) \o OTSend(q)

RevealTags == << << "reveal", "zetta" >>, << "reveal", "tao0" >>, << "reveal", "tao1" >> >>

(* Flush mode is on again before the arrays are read *)
BugAddReveal3(p) ==
  LET q == Diag[p]
  IN  << SetFlush(FALSE), SendAll(q, RevealTags), FlushAll, SetFlush(TRUE) >>
        \o CallsOf(RecvAll(q, RevealTags)) \o << FlushAll >>

(* add_reveal of three arrays: flush mode is off in between, and always on  *)
(* afterwards                                                               *)
AddReveal3(p) ==
  LET q == Diag[p]
  IN  << SetFlush(FALSE), SendAll(q, RevealTags), FlushAll,
         RecvAll(q, RevealTags), FlushAll, SetFlush(TRUE) >>

MpcBlock1(p) == CallsOf(SharedSelect(p)) \o AddReveal3(p)

MpcBlock2(p) ==
  MpcBlock1(p) \o CallsOf(SharedSelect(p)) \o CallsOf(Reveal(Diag, p, << "reveal", "gamma" >>))

(* FSS_MPC::gen *)
Gen(p) ==
  FlattenSeq([i \in 1 .. Depth |-> IF i = Depth THEN MpcBlock2(p) ELSE MpcBlock1(p)])

-------------------------------------------------------------------------------
(* Online *)

(* Ram::read and Ram::write with additive index shares *)
RamRead(p) == Fourpc(p, << "read", "delta1" >>)
RamWrite(p) == Reveal(Diag, p, << "write", "deltaV_plus" >>) \o Fourpc(p, << "write", "delta" >>)

(* Oram::prepare_write and Oram::write *)
OramPrepareWrite(p) == Gen(p)
BugOramWrite(p) == Fourpc(p, << "Oram", "deltaV" >>) \o Fourpc1(p, << "Oram", "delta_r" >>)
OramWrite(p) == Fourpc(p, << "Oram", "deltaV" >>) \o Fourpc(p, << "Oram", "delta_r" >>)

(* The body of the loop *)
Iteration(p) ==
  CallsOf(RamRead(p)
        \o Fourpc(p, << "main", "tmp" >>)
        \o Reveal(TwoPC, p, << "Convert", "data2" >>)
        \o RamWrite(p))
    \o OramPrepareWrite(p) \o CallsOf(OramWrite(p)) \o << FlushAll >>

PlayerProgram(p) ==
  LET Body(i) == Iteration(p)
  IN  CallsOf(RecvAll("aid", << << "Convert", "zero_share" >>, << "Ram", "data" >> >>)
             \o AesKeys(p) \o RecvAll("aid", Parts("Ram", FssParts)))
        \o << FlushAll >>
        \o CallsOf(Concat(PrepareRead, Itr)) \o << FlushAll >>
        \o CallsOf(Concat(PrepareWrite, Itr)) \o << FlushAll >>
        \o Concat(Body, Itr)

OramProgram(p) == IF p = "aid" THEN AidProgram ELSE PlayerProgram(p)
===============================================================================
