------------------------------ MODULE RiscRounds ------------------------------
(***************************************************************************)
(* One instruction of the oblivious machine (Mechine::run_op and ret_res,  *)
(* protocol/src/risc.cpp): every operation of the instruction set is run,  *)
(* its rounds interleaved with the rounds of all others, so that a round   *)
(* of all of them costs one flush_all.  Which messages the four players    *)
(* exchange, in which order, and where they flush; the values are left     *)
(* out.  The build defines NEED_MUL, NEED_CMOV and Total_bitwise, and not  *)
(* THREE_ROUND_MSB.                                                        *)
(*                                                                         *)
(* The helper is left out: the offline part is done, and the players read  *)
(* nothing from it until prepare_write of ret_res.                         *)
(***************************************************************************)
EXTENDS Reveals

CONSTANT Instructions

ASSUME InstructionsAssumption == Instructions \in Nat

Quiet == << >>

-------------------------------------------------------------------------------
(* Compare: equality and overflow *)

(* equal_1, equal_2, equal_3: player1 and player3 evaluate the key and pass *)
(* the flag to player0 and player2.                                         *)
Equal(name, r, p) ==
  CASE r = 1 -> Fourpc1(p, << name, "delta" >>)
    [] r = 2 -> Fourpc2(p, << name, "delta" >>)
                  \o Of({"player1", "player3"}, p, Reveal1(TwoPC, p, << name, "flags" >>))
    [] r = 3 -> Of({"player0", "player2"}, p, Reveal2(TwoPC, p, << name, "flags" >>))
    [] r = 4 -> Quiet

(* overflow_1, overflow_2, overflow_3, overflow_end: two sign bits, then    *)
(* the sign of the result, then its conversion                              *)
Overflow(name, r, p) ==
  CASE r = 1 -> Fourpc1(p, << name, "msb R" >>) \o Fourpc1(p, << name, "msb A" >>)
    [] r = 2 -> Fourpc2(p, << name, "msb R" >>) \o Fourpc2(p, << name, "msb A" >>)
                  \o Fourpc1(p, << name, "msb" >>)
    [] r = 3 -> Fourpc2(p, << name, "msb" >>) \o Reveal1(TwoPC, p, << name, "flags" >>)
    [] r = 4 -> Reveal2(TwoPC, p, << name, "flags" >>)

-------------------------------------------------------------------------------
(* The operations of protocol/operation.h *)

AddSub(name, r, p) ==
  (CASE r = 1 -> Reveal1(TwoPC, p, << name, "res" >>)
     [] r = 2 -> Reveal2(TwoPC, p, << name, "res" >>)
     [] OTHER -> Quiet) \o Overflow(name, r, p)

MulMsbs == << "msb_33", "msb_34", "msb_33_diag", "msb_34_diag" >>
MulMsb1(p) == FlattenSeq([k \in DOMAIN MulMsbs |-> Fourpc1(p, << "mul", MulMsbs[k] >>)])

(* Definitions named Bug... are variants of the one that follows, each with *)
(* a mistake the code could have had; no program uses them.  Here the four  *)
(* signs are received in the reverse of the order they are sent in.         *)
BugMulMsb2(p) ==
  LET back == Reverse(MulMsbs)
  IN  FlattenSeq([k \in DOMAIN back |-> Fourpc2(p, << "mul", back[k] >>)])

MulMsb2(p) == FlattenSeq([k \in DOMAIN MulMsbs |-> Fourpc2(p, << "mul", MulMsbs[k] >>)])

Mul(r, p) ==
  CASE r = 1 -> Reveal1(TwoPC, p, << "mul", "R_64" >>)
                  \o Reveal1(Diag, p, << "mul", "A_64" >>) \o MulMsb1(p)
    [] r = 2 -> Reveal2(TwoPC, p, << "mul", "R_64" >>)
                  \o Reveal2(Diag, p, << "mul", "A_64" >>) \o MulMsb2(p)
                  \o Reveal1(TwoPC, p, << "mul", "total_mul" >>)
                  \o Fourpc1(p, << "mul", "gt_fp" >>)
    [] r = 3 -> Reveal2(TwoPC, p, << "mul", "total_mul" >>)
                  \o Fourpc2(p, << "mul", "gt_fp" >>) \o Fourpc1(p, << "mul", "msb_ans" >>)
    [] r = 4 -> Fourpc2(p, << "mul", "msb_ans" >>)

(* Both wait for the other's share before the flush that sends it *)
BugMov(r, p) == IF r = 1 THEN Reveal(TwoPC, p, << "mov", "res" >>) ELSE Quiet

Mov(r, p) ==
  CASE r = 1 -> Reveal1(TwoPC, p, << "mov", "res" >>)
    [] r = 2 -> Reveal2(TwoPC, p, << "mov", "res" >>)
    [] OTHER -> Quiet

(* cmov, cjump and cnjump: two words to the diagonal player, then one to    *)
(* the partner                                                              *)
Conditional(name, r, p) ==
  CASE r = 1 -> Reveal1(Diag, p, << name, "data_b" >>) \o Reveal1(Diag, p, << name, "old" >>)
    [] r = 2 -> Reveal2(Diag, p, << name, "data_b" >>) \o Reveal2(Diag, p, << name, "old" >>)
                  \o Reveal1(TwoPC, p, << name, "new" >>)
    [] r = 3 -> Reveal2(TwoPC, p, << name, "new" >>)
    [] r = 4 -> Quiet

Load(r, p) ==
  CASE r = 1 -> Fourpc1(p, << "load", "delta1" >>)
    [] r = 2 -> Fourpc2(p, << "load", "delta1" >>) \o Reveal1(TwoPC, p, << "load", "res" >>)
    [] r = 3 -> Reveal2(TwoPC, p, << "load", "res" >>)
    [] r = 4 -> Quiet

(* Ram::write_1 and write_2 with additive index and target *)
RamWrite1(name, p) ==
  Reveal1(Diag, p, << name, "deltaV" >>) \o Reveal1(TwoPC, p, << name, "target" >>)
    \o Reveal1(Latt, p, << name, "target" >>) \o Fourpc1(p, << name, "delta" >>)
RamWrite2(name, p) ==
  Reveal2(Diag, p, << name, "deltaV" >>) \o Reveal2(TwoPC, p, << name, "target" >>)
    \o Reveal2(Latt, p, << name, "target" >>) \o Fourpc2(p, << name, "delta" >>)

Store(r, p) ==
  CASE r = 1 -> Reveal1(TwoPC, p, << "store", "Ri" >>)
    [] r = 2 -> Reveal2(TwoPC, p, << "store", "Ri" >>)
    [] r = 3 -> RamWrite1("store", p)
    [] r = 4 -> RamWrite2("store", p)

Jump(r, p) ==
  CASE r = 1 -> Reveal1(TwoPC, p, << "jump", "tmp" >>)
    [] r = 2 -> Reveal2(TwoPC, p, << "jump", "tmp" >>)
    [] OTHER -> Quiet

Read(r, p) ==
  CASE r = 1 -> Fourpc1(p, << "read", "tape1" >>) \o Fourpc1(p, << "read", "tape2" >>)
    [] r = 2 -> Fourpc2(p, << "read", "tape1" >>) \o Fourpc2(p, << "read", "tape2" >>)
                  \o Reveal1(TwoPC, p, << "read", "delta" >>)
                  \o Reveal1(Diag, p, << "read", "data_a" >>)
    [] r = 3 -> Reveal2(TwoPC, p, << "read", "delta" >>)
                  \o Reveal2(Diag, p, << "read", "data_a" >>)
                  \o Reveal1(TwoPC, p, << "read", "res" >>)
                  \o Reveal1(Diag, p, << "read", "rc_up" >>)
                  \o Reveal1(TwoPC, p, << "read", "flag" >>)
    [] r = 4 -> Reveal2(TwoPC, p, << "read", "res" >>)
                  \o Reveal2(Diag, p, << "read", "rc_up" >>)
                  \o Reveal2(TwoPC, p, << "read", "flag" >>)

-------------------------------------------------------------------------------
(* Bitwise: player0 garbles, player2 evaluates; both pass results on *)

(* runs and to_As.  player0 sends the tables and the masked outputs in      *)
(* different rounds, player2 reads them in different rounds; the tables of  *)
(* all circuits are one message, and so are the outputs.                    *)
Bitwise(r, p) ==
  CASE p = "player0" /\ r = 1 -> << SendTo("player2", << "bitwise", "tables" >>) >>
    [] p = "player2" /\ r = 2 -> << RecvFrom("player0", << "bitwise", "tables" >>) >>
    [] p = "player0" /\ r = 2 -> << SendTo("player2", << "bitwise", "res_set" >>) >>
    [] p = "player2" /\ r = 3 -> << RecvFrom("player0", << "bitwise", "res_set" >>) >>
    [] OTHER -> Quiet

PassOnTags == << << "bitwise", "r" >>, << "bitwise", "r_flag" >> >>

(* The bitwise shares, from player0 to player1 and from player2 to player3 *)
PassOn(r, p) ==
  CASE r = 3 /\ p \in {"player0", "player2"} -> SendAll(TwoPC[p], PassOnTags)
    [] r = 4 /\ p \in {"player1", "player3"} -> RecvAll(TwoPC[p], PassOnTags)
    [] OTHER -> Quiet

(* Bitwise::to_Y, in flush mode up to the blocks.  The OT of one label.     *)
LabelTags == << << "to_Y", "R" >>, << "to_Y", "A" >>, << "to_Y", "R_plus" >>, << "to_Y", "Flag_plus" >> >>
ToY(p) ==
  CASE p = "player0" -> CallsOf(OTSend("player2"))
                          \o << SetFlush(FALSE), SendAll("player2", LabelTags), FlushAll >>
    [] p = "player2" -> CallsOf(OTRecv("player0"))
                          \o << SetFlush(FALSE), RecvAll("player0", LabelTags), FlushAll >>
    [] OTHER -> Quiet

-------------------------------------------------------------------------------
(* What process p sends and receives in round r, in the order of run_op *)
Round(r, p) ==
  Equal("read_flag", r, p) \o Load(r, p) \o Equal("eq_cmp", r, p)
    \o Overflow("ae_cmp", r, p) \o AddSub("add", r, p) \o AddSub("sub", r, p)
    \o Mul(r, p) \o Mov(r, p) \o Conditional("cmov", r, p) \o Store(r, p)
    \o Jump(r, p) \o Conditional("cjump", r, p) \o Conditional("cnjump", r, p)
    \o Bitwise(r, p) \o PassOn(r, p) \o Read(r, p)

(* The words player0 and player2 get for the bitwise operations *)
OldValue(p) ==
  IF p \in {"player1", "player3"} THEN Reveal1(TwoPC, p, << "run_op", "old_value" >>)
                                   ELSE Reveal2(TwoPC, p, << "run_op", "old_value" >>)

(* The online part of run_op *)
RunOp(p) ==
  LET OneRound(r) == << Round(r, p), FlushAll >>
  IN  CallsOf(OldValue(p)) \o ToY(p)
        \o << SetFlush(FALSE) >> \o Concat(OneRound, 4) \o << SetFlush(TRUE) >>

(* write_2 is forgotten *)
BugRetRes(p) == CallsOf(RamWrite1("ret_res", p))

(* The write back of ret_res, in flush mode *)
RetRes(p) == CallsOf(RamWrite1("ret_res", p) \o RamWrite2("ret_res", p))

RiscProgram(p) ==
  LET Instruction(i) == RunOp(p) \o RetRes(p)
  IN  Concat(Instruction, Instructions)
===============================================================================
