------------------------------ MODULE FifoStream ------------------------------
(***************************************************************************)
(* What a direction of a P2Pchannel link promises to the protocols above   *)
(* it: what the peer receives is, message by message and in order, what    *)
(* was sent.  A message is identified by the extent of the byte stream     *)
(* that carries it.                                                        *)
(***************************************************************************)
EXTENDS Naturals, Sequences

VARIABLES
  sent,   \* messages handed to send_data, in order
  got     \* messages handed back by recv_data, in order

Extent == [off : Nat, len : Nat]

Init == sent = << >> /\ got = << >>

Send ==
  /\ sent' \in Seq(Extent)
  /\ Len(sent') = Len(sent) + 1
  /\ SubSeq(sent', 1, Len(sent)) = sent
  /\ UNCHANGED got

Receive ==
  /\ Len(got) < Len(sent)
  /\ got' = Append(got, sent[Len(got) + 1])
  /\ UNCHANGED sent

Next == Send \/ Receive

Spec == Init /\ [][Next]_<<sent, got>>
===============================================================================
