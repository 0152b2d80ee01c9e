----------------------------- MODULE BlockChannel -----------------------------
(***************************************************************************)
(* One direction of a HighSpeedNetIO link (include/net.hpp): a             *)
(* SenderSubChannel at one end, a RecverSubChannel at the other, a TCP     *)
(* byte stream between them.  The sender collects messages in a buffer of  *)
(* one block and pads the stream to a multiple of the block size when it   *)
(* is flushed; the receiver always reads whole blocks and drops the rest   *)
(* of its block when it is flushed.  Nothing on the wire says where a      *)
(* message or a pad begins: both ends must flush between the same two      *)
(* messages.                                                               *)
(*                                                                         *)
(* Bytes are abstracted to their offset in the stream: message k is sent   *)
(* in the extent sent[k] and read from the extent got[k].                  *)
(***************************************************************************)
EXTENDS Integers, Sequences

CONSTANTS
  B,        \* NETWORK_BUFFER_SIZE2, the block size
  Scripts   \* the message sequences the two ends may have agreed on

(* A script says, for every message, its length and whether both ends      *)
(* flush between it and the next one.  recv_data(.., 0) moves nothing and  *)
(* is left out.                                                            *)
Step == [len : Nat \ {0}, cut : BOOLEAN]

ASSUME BAssumption == B \in Nat \ {0}
ASSUME ScriptsAssumption == Scripts \subseteq Seq(Step)

VARIABLES
  script,     \* the script of this run, never changes
  counter,    \* bytes handed to fwrite by the sender
  ptr,        \* bytes waiting in the sender's buf
  spilled,    \* history: an oversize message was sent since the last flush
  delivered,  \* bytes that left the sender's stdio buffer
  sent,       \* history: extents of the messages passed to send_data
  sflushed,   \* the sender was flushed after its last message
  rcounter,   \* bytes taken from the stream by the receiver
  rptr,       \* first unread byte of the receiver's block
  remain,     \* bytes recv_data still has to copy, 0 outside of its loop
  got,        \* history: extents recv_data has returned
  rflushed    \* the receiver was flushed after its last message

sendVars == <<counter, ptr, spilled, sent, sflushed>>
recvVars == <<rcounter, rptr, remain, got, rflushed>>
vars == <<script, sendVars, delivered, recvVars>>

-------------------------------------------------------------------------------
(* Derived values *)

(* Definitions named Bug... are variants of the one that follows, each with *)
(* a mistake the code could have had; no specification here uses them.      *)

(* A pad after every flush, also after a full block *)
BugRoundUp(n) == n + (B - (n % B))

(* What the padding in SenderSubChannel::flush makes of a stream of n bytes *)
RoundUp(n) == IF n % B = 0 THEN n ELSE n + (B - (n % B))

(* Bytes flush adds after the n bytes of the stream *)
Pad(n) == RoundUp(n) - n

(* The stream offset of the next byte each end writes or reads *)
SendPos == counter + ptr
RecvPos == (rcounter - B) + rptr

(* An end goes on without the flush that is due *)
BugDue(k, flushed) == k < Len(script)

(* May the end that has passed k messages pass the next one: it is in the   *)
(* script, and the flush due after message k has been made                  *)
Due(k, flushed) ==
  /\ k < Len(script)
  /\ (k > 0 /\ script[k].cut) => flushed

(* An end flushes where the other does not *)
BugMayFlush(k) == TRUE

(* May it be flushed: only where the other end will be flushed too          *)
MayFlush(k) == k > 0 => script[k].cut

-------------------------------------------------------------------------------
Init ==
  /\ script \in Scripts
  /\ counter = 0 /\ ptr = 0 /\ spilled = FALSE /\ delivered = 0
  /\ sent = << >> /\ sflushed = TRUE
  /\ rcounter = 0 /\ rptr = B /\ remain = 0
  /\ got = << >> /\ rflushed = TRUE

(* send_data, first branch: the message fits in what is left of buf *)
SendBuffered ==
  /\ Due(Len(sent), sflushed)
  /\ LET n == script[Len(sent) + 1].len IN
       /\ n <= B - ptr
       /\ ptr' = ptr + n
       /\ sent' = Append(sent, [off |-> SendPos, len |-> n])
  /\ sflushed' = FALSE
  /\ UNCHANGED <<script, counter, spilled, delivered, recvVars>>

(* send_data, second branch: buf, then the message, go straight to fwrite *)
SendOversize ==
  /\ Due(Len(sent), sflushed)
  /\ LET n == script[Len(sent) + 1].len IN
       /\ n > B - ptr
       /\ counter' = counter + ptr + n
       /\ sent' = Append(sent, [off |-> SendPos, len |-> n])
  /\ ptr' = 0
  /\ spilled' = TRUE
  /\ sflushed' = FALSE
  /\ UNCHANGED <<script, delivered, recvVars>>

(* flush forgets to empty buf *)
BugSendFlushKeeps ==
  /\ MayFlush(Len(sent))
  /\ counter' = RoundUp(counter + ptr)
  /\ delivered' = counter'
  /\ spilled' = FALSE
  /\ sflushed' = TRUE
  /\ UNCHANGED <<script, ptr, sent, recvVars>>

(* flush forgets fflush *)
BugSendFlushLazy ==
  /\ MayFlush(Len(sent))
  /\ counter' = RoundUp(counter + ptr)
  /\ ptr' = 0
  /\ spilled' = FALSE
  /\ sflushed' = TRUE
  /\ UNCHANGED <<script, delivered, sent, recvVars>>

(* SenderSubChannel::flush: buf, the pad, fflush *)
SendFlush ==
  /\ MayFlush(Len(sent))
  /\ counter' = RoundUp(counter + ptr)
  /\ delivered' = counter'
  /\ ptr' = 0
  /\ spilled' = FALSE
  /\ sflushed' = TRUE
  /\ UNCHANGED <<script, sent, recvVars>>

(* stdio writes its buffer out on its own when it is full *)
StdioDrain ==
  /\ delivered < counter
  /\ delivered' \in (delivered + 1) .. counter
  /\ UNCHANGED <<script, sendVars, recvVars>>

(* recv_data, first branch: the message is in the block already read *)
RecvBuffered ==
  /\ remain = 0
  /\ Due(Len(got), rflushed)
  /\ LET n == script[Len(got) + 1].len IN
       /\ n <= B - rptr
       /\ rptr' = rptr + n
       /\ got' = Append(got, [off |-> RecvPos, len |-> n])
  /\ rflushed' = FALSE
  /\ UNCHANGED <<script, sendVars, delivered, rcounter, remain>>

(* recv_data, second branch: take what the block still has, then loop *)
RecvBegin ==
  /\ remain = 0
  /\ Due(Len(got), rflushed)
  /\ LET n == script[Len(got) + 1].len IN
       /\ n > B - rptr
       /\ remain' = n - (B - rptr)
  /\ UNCHANGED <<script, sendVars, delivered, rcounter, rptr, got, rflushed>>

(* One turn of that loop: recv_data_raw blocks for a whole block *)
RecvBlock ==
  /\ remain > 0
  /\ rcounter + B <= delivered
  /\ rcounter' = rcounter + B
  /\ \/ /\ remain > B
        /\ remain' = remain - B
        /\ UNCHANGED <<rptr, got, rflushed>>
     \/ /\ remain <= B
        /\ rptr' = remain
        /\ remain' = 0
        /\ LET n == script[Len(got) + 1].len IN
             got' = Append(got, [off |-> rcounter + remain - n, len |-> n])
        /\ rflushed' = FALSE
  /\ UNCHANGED <<script, sendVars, delivered>>

(* RecverSubChannel::flush *)
RecvFlush ==
  /\ remain = 0
  /\ MayFlush(Len(got))
  /\ rptr' = B
  /\ rflushed' = TRUE
  /\ UNCHANGED <<script, sendVars, delivered, rcounter, remain, got>>

Send == SendBuffered \/ SendOversize
Recv == RecvBuffered \/ RecvBegin \/ RecvBlock

Next == Send \/ SendFlush \/ StdioDrain \/ Recv \/ RecvFlush

Spec == Init /\ [][Next]_vars

(* Each end is a sequential program that goes on with its script; nothing   *)
(* obliges stdio to write early.                                            *)
Fairness ==
  /\ WF_vars(Send)
  /\ WF_vars(SendFlush)
  /\ WF_vars(Recv)
  /\ WF_vars(RecvFlush)

FairSpec == Spec /\ Fairness

-------------------------------------------------------------------------------
(* Properties *)

Extent == [off : Nat, len : Nat]

(* Every variable keeps its type; the receiver's ptr is never 0 because the *)
(* oversize branch of recv_data always leaves at least one byte consumed.   *)
TypeOK ==
  /\ script \in Scripts
  /\ counter \in Nat /\ ptr \in 0 .. B /\ spilled \in BOOLEAN
  /\ delivered \in Nat
  /\ sent \in Seq(Extent) /\ Len(sent) <= Len(script) /\ sflushed \in BOOLEAN
  /\ rcounter \in Nat /\ rptr \in 1 .. B /\ remain \in Nat
  /\ got \in Seq(Extent) /\ Len(got) <= Len(script) /\ rflushed \in BOOLEAN

(* recv_data returns, message by message, exactly the bytes send_data was   *)
(* given: block padding, the oversize path of either end and the blocks the *)
(* receiver drops on flush never shift the stream.                          *)
Faithful ==
  /\ Len(got) <= Len(sent)
  /\ \A k \in 1 .. Len(got) : got[k] = sent[k]

(* The pad that flush writes is read from buf + ptr: without an oversize    *)
(* message since the last flush it ends inside buf (net.hpp:58-59).         *)
PadStaysInBuffer == ~spilled => ptr + Pad(counter + ptr) <= B

(* Why Faithful holds: both ends agree, from the lengths and the cuts       *)
(* alone, on the offset at which every message starts.                      *)

(* Where message k ends, and where message k + 1 starts *)
End(k) == IF k = 0 THEN 0 ELSE sent[k].off + sent[k].len
NextOff(k) == IF k > 0 /\ script[k].cut THEN RoundUp(End(k)) ELSE End(k)

(* An end that has passed k messages is at the end of message k, or, once   *)
(* flushed, at the start of the next block                                  *)
At(k, flushed) == IF flushed THEN RoundUp(End(k)) ELSE End(k)

SenderInv ==
  /\ SendPos = At(Len(sent), sflushed)
  /\ Len(sent) > 0 /\ sflushed => script[Len(sent)].cut
  /\ Len(sent) = 0 => sflushed
  /\ ~spilled => counter % B = 0
  /\ \A k \in 1 .. Len(sent) :
       sent[k] = [off |-> NextOff(k - 1), len |-> script[k].len]

WireInv ==
  /\ rcounter <= delivered
  /\ delivered <= counter
  /\ rcounter % B = 0

ReceiverInv ==
  /\ Len(got) > 0 /\ rflushed => script[Len(got)].cut
  /\ Len(got) = 0 => rflushed
  /\ rflushed => rptr = B
  /\ remain = 0 => RecvPos = At(Len(got), rflushed)
  /\ remain > 0 =>
       /\ Due(Len(got), rflushed)
       /\ remain <= script[Len(got) + 1].len
       /\ rcounter + remain = NextOff(Len(got)) + script[Len(got) + 1].len

IInv == TypeOK /\ SenderInv /\ WireInv /\ ReceiverInv /\ Faithful

(* The link implements the FIFO stream of messages the protocols assume.    *)
Fifo == INSTANCE FifoStream
ImplementsFifo == Fifo!Spec

(* A message that the sender has flushed reaches the receiver, however many *)
(* blocks it spans.                                                         *)
FlushedArrives ==
  \A k \in 1 .. 3 : (Len(sent) >= k /\ sflushed) ~> (Len(got) >= k)

===============================================================================
