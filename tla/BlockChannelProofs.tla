-------------------------- MODULE BlockChannelProofs --------------------------
(***************************************************************************)
(* Proofs about BlockChannel, for every block size and every set of        *)
(* scripts.  The inductive invariant IInv says that both ends derive the   *)
(* offset of each message from the lengths and the flushes alone (End,     *)
(* NextOff, At); one lemma per action shows that it is kept, from two      *)
(* lemmas about a message sent (SendStep) and a message received           *)
(* (RecvStep).  The theorems are at the end.                               *)
(***************************************************************************)
EXTENDS BlockChannel, TLAPS

-------------------------------------------------------------------------------
(* Blocks *)

(* What the pad of flush makes of a stream is a whole number of blocks,    *)
(* less than one block longer.                                             *)
LEMMA RoundUpRange ==
  ASSUME NEW n \in Nat
  PROVE  /\ RoundUp(n) \in Nat
         /\ RoundUp(n) % B = 0
         /\ n <= RoundUp(n)
         /\ RoundUp(n) < n + B
<1> n % B \in 0 .. (B - 1)
  BY BAssumption
<1> DEFINE q == n \div B
<1>0. q \in Nat /\ n = B * q + (n % B)
  BY BAssumption
<1>1. CASE n % B = 0
  BY <1>1, BAssumption DEF RoundUp
<1>2. CASE n % B # 0
  <2>1. RoundUp(n) = B * (q + 1)
    BY <1>0, <1>2, BAssumption DEF RoundUp
  <2>2. (B * (q + 1)) % B = 0
    BY <1>0, BAssumption
  <2> QED BY <1>2, <2>1, <2>2, BAssumption DEF RoundUp
<1> QED BY <1>1, <1>2

(* A length without a rest is a number of whole blocks *)
LEMMA Multiple ==
  ASSUME NEW x \in Nat, x % B = 0
  PROVE  \E q \in Nat : x = B * q
BY BAssumption

(* One block after a whole number of blocks is a whole number of blocks *)
LEMMA NextBlock ==
  ASSUME NEW x \in Nat, x % B = 0
  PROVE  (x + B) % B = 0
<1>1. PICK q \in Nat : x = B * q
  BY Multiple
<1>2. x + B = B * (q + 1)
  BY <1>1, BAssumption
<1>3. (B * (q + 1)) % B = 0
  BY BAssumption
<1> QED BY <1>2, <1>3

(* The end of the block that y lies in is what flush pads y to: the only    *)
(* multiple of the block size at most one block further *)
LEMMA RoundUpUnique ==
  ASSUME NEW x \in Nat, x % B = 0, NEW y \in Nat, x - B < y, y <= x
  PROVE  RoundUp(y) = x
<1>1. /\ RoundUp(y) \in Nat /\ RoundUp(y) % B = 0
      /\ y <= RoundUp(y) /\ RoundUp(y) < y + B
  BY RoundUpRange
<1>2. PICK p \in Nat : x = B * p
  BY Multiple
<1>3. PICK q \in Nat : RoundUp(y) = B * q
  BY <1>1, Multiple
<1>4. B * p - B * q < B /\ B * q - B * p < B
  BY <1>1, <1>2, <1>3, BAssumption
<1>5. p = q
  <2>1. CASE p >= q + 1
    BY <1>4, <2>1, BAssumption
  <2>2. CASE q >= p + 1
    BY <1>4, <2>2, BAssumption
  <2> QED BY <2>1, <2>2
<1> QED BY <1>2, <1>3, <1>5

-------------------------------------------------------------------------------
(* Facts about a state of the channel *)

(* What the two ends have agreed on is a sequence of lengths and flushes *)
LEMMA ScriptType ==
  ASSUME script \in Scripts
  PROVE  /\ script \in Seq(Step)
         /\ Len(script) \in Nat
         /\ \A k \in 1 .. Len(script) :
              /\ script[k].len \in Nat \ {0}
              /\ script[k].cut \in BOOLEAN
<1>1. script \in Seq(Step)
  BY ScriptsAssumption
<1>2. ASSUME NEW k \in 1 .. Len(script)
      PROVE  script[k] \in Step
  BY <1>1
<1>3. ASSUME NEW k \in 1 .. Len(script)
      PROVE  script[k].len \in Nat \ {0} /\ script[k].cut \in BOOLEAN
  BY <1>2, <1>3 DEF Step
<1> QED BY <1>1, <1>3

(* The counters are numbers, and the sender stands at or after the end of   *)
(* what it has handed to fwrite.                                            *)
LEMMA Offsets ==
  ASSUME TypeOK
  PROVE  /\ script \in Scripts
         /\ counter \in Nat /\ ptr \in Nat /\ delivered \in Nat
         /\ SendPos \in Nat /\ counter <= SendPos
<1>1. script \in Scripts
  BY DEF TypeOK
<1>2. counter \in Nat /\ delivered \in Nat
  BY DEF TypeOK
<1>3. ptr \in 0 .. B
  BY DEF TypeOK
<1>4. ptr \in Nat
  BY <1>3, BAssumption
<1>5. SendPos \in Nat /\ counter <= SendPos
  BY <1>2, <1>4 DEF SendPos
<1> QED BY <1>1, <1>2, <1>4, <1>5

(* Message ends and starts are offsets, in that order *)
LEMMA Positions ==
  ASSUME TypeOK
  PROVE  /\ Len(sent) \in Nat /\ Len(got) \in Nat
         /\ \A k \in 0 .. Len(sent) :
              /\ End(k) \in Nat
              /\ NextOff(k) \in Nat
              /\ End(k) <= NextOff(k)
              /\ \A f \in BOOLEAN : At(k, f) \in Nat
<1>1. Len(sent) \in Nat /\ Len(got) \in Nat
  BY DEF TypeOK
<1>2. ASSUME NEW k \in 0 .. Len(sent)
      PROVE  End(k) \in Nat
  <2>1. CASE k = 0
    BY <2>1 DEF End
  <2>2. CASE k # 0
    <3>1. sent[k] \in Extent
      BY <1>2, <2>2 DEF TypeOK
    <3> QED BY <2>2, <3>1 DEF End, Extent
  <2> QED BY <2>1, <2>2
<1>3. ASSUME NEW k \in 0 .. Len(sent)
      PROVE  RoundUp(End(k)) \in Nat /\ End(k) <= RoundUp(End(k))
  BY <1>2, RoundUpRange
<1> QED BY <1>1, <1>2, <1>3 DEF NextOff, At

(* RoundUp leaves a whole number of blocks alone; the stream starts at one *)
LEMMA RoundUpZero == RoundUp(0) = 0
<1>1. 0 % B = 0
  BY BAssumption
<1> QED BY <1>1, RoundUpUnique, BAssumption

(* An end about to pass message k + 1 stands where that message starts *)
LEMMA DueAtStart ==
  ASSUME NEW k \in Nat, NEW f \in BOOLEAN, Due(k, f),
         script \in Scripts,
         k > 0 /\ f => script[k].cut,
         k = 0 => f
  PROVE  At(k, f) = NextOff(k)
BY RoundUpZero, ScriptType DEF At, NextOff, End, Due

(* What the sender has delivered past the start of message k + 1 belongs   *)
(* to a message it has sent                                                *)
LEMMA PastStartIsSent ==
  ASSUME TypeOK, SenderInv, Len(got) <= Len(sent),
         NextOff(Len(got)) < SendPos
  PROVE  Len(got) < Len(sent)
<1>1. SUFFICES ASSUME Len(got) = Len(sent) PROVE FALSE
  BY Positions
<1>2. SendPos = At(Len(sent), sflushed)
  BY DEF SenderInv
<1>3. SendPos \in Nat
  BY DEF SendPos, TypeOK
<1>4. At(Len(sent), sflushed) <= NextOff(Len(sent))
  <2>1. CASE sflushed
    <3>1. CASE Len(sent) = 0
      BY <2>1, <3>1, RoundUpZero, Positions DEF At, NextOff, End
    <3>2. CASE Len(sent) > 0
      BY <2>1, <3>2, Positions DEF At, NextOff, SenderInv
    <3> QED BY <3>1, <3>2, Positions
  <2>2. CASE ~sflushed
    BY <2>2, Positions DEF At, TypeOK
  <2> QED BY <2>1, <2>2
<1> QED BY <1>1, <1>2, <1>3, <1>4, Positions

-------------------------------------------------------------------------------
(* Preservation of the inductive invariant *)

(* A new message does not move the ones already sent *)
LEMMA AppendStable ==
  ASSUME TypeOK, script' = script,
         NEW e \in Extent, sent' = Append(sent, e)
  PROVE  /\ sent' \in Seq(Extent)
         /\ Len(sent') = Len(sent) + 1
         /\ sent'[Len(sent) + 1] = e
         /\ \A k \in 1 .. Len(sent) : sent'[k] = sent[k]
         /\ \A k \in 0 .. Len(sent) : End(k)' = End(k) /\ NextOff(k)' = NextOff(k)
<1>1. sent \in Seq(Extent) /\ Len(sent) \in Nat
  BY DEF TypeOK
<1>2. /\ sent' \in Seq(Extent)
      /\ Len(sent') = Len(sent) + 1
      /\ sent'[Len(sent) + 1] = e
      /\ \A k \in 1 .. Len(sent) : sent'[k] = sent[k]
  BY <1>1
<1>3. ASSUME NEW k \in 0 .. Len(sent)
      PROVE  End(k)' = End(k)
  BY <1>1, <1>2 DEF End
<1>4. ASSUME NEW k \in 0 .. Len(sent)
      PROVE  NextOff(k)' = NextOff(k)
  BY <1>3 DEF NextOff, RoundUp
<1> QED BY <1>2, <1>3, <1>4

(* send_data, whichever branch it takes *)
LEMMA SendStep ==
  ASSUME IInv, TypeOK', script' = script,
         Due(Len(sent), sflushed),
         sent' = Append(sent, [off |-> SendPos, len |-> script[Len(sent) + 1].len]),
         SendPos' = SendPos + script[Len(sent) + 1].len,
         sflushed' = FALSE,
         ~spilled' => counter' % B = 0,
         delivered' = delivered, counter <= counter',
         UNCHANGED recvVars
  PROVE  SenderInv' /\ WireInv' /\ ReceiverInv' /\ Faithful'
<1> DEFINE n == script[Len(sent) + 1].len
           e == [off |-> SendPos, len |-> n]
<1>0. TypeOK /\ SenderInv /\ WireInv /\ ReceiverInv /\ Faithful
  BY DEF IInv
<1>1. Len(sent) \in Nat /\ Len(got) \in Nat /\ Len(got) <= Len(sent)
  BY <1>0, Positions DEF Faithful
<1>2. n \in Nat /\ SendPos \in Nat
  <2>1. script \in Scripts /\ SendPos \in Nat
    BY <1>0, Offsets
  <2>2. Len(sent) + 1 \in 1 .. Len(script)
    BY <1>1, <2>1, ScriptType DEF Due
  <2> QED BY <2>1, <2>2, ScriptType
<1>3. e \in Extent
  BY <1>2 DEF Extent
<1>4. /\ Len(sent') = Len(sent) + 1
      /\ sent'[Len(sent) + 1] = e
      /\ \A k \in 1 .. Len(sent) : sent'[k] = sent[k]
      /\ \A k \in 0 .. Len(sent) : End(k)' = End(k) /\ NextOff(k)' = NextOff(k)
  BY <1>0, <1>3, AppendStable
<1>5. SendPos = NextOff(Len(sent))
  BY <1>0, <1>1, DueAtStart DEF TypeOK, SenderInv
<1>6. SenderInv'
  <2>1. SendPos' = At(Len(sent), sflushed)'
    BY <1>1, <1>2, <1>4 DEF At, End
  <2>2. ASSUME NEW k \in 1 .. Len(sent')
        PROVE  sent'[k] = [off |-> NextOff(k - 1)', len |-> script'[k].len]
    <3>1. CASE k \in 1 .. Len(sent)
      BY <1>0, <1>1, <1>4, <3>1 DEF SenderInv
    <3>2. CASE k = Len(sent) + 1
      BY <1>1, <1>4, <1>5, <3>2
    <3> QED BY <1>1, <1>4, <2>2, <3>1, <3>2
  <2> QED BY <1>1, <1>4, <2>1, <2>2 DEF SenderInv
<1>7. WireInv'
  BY <1>0 DEF WireInv, recvVars, TypeOK
<1>8. ReceiverInv'
  <2>1. got' = got /\ rflushed' = rflushed /\ remain' = remain
        /\ rcounter' = rcounter /\ rptr' = rptr
    BY DEF recvVars
  <2>2. End(Len(got))' = End(Len(got)) /\ NextOff(Len(got))' = NextOff(Len(got))
    <3>1. Len(got) \in 0 .. Len(sent)
      BY <1>1
    <3>2. /\ \A k \in 0 .. Len(sent) : End(k)' = End(k)
          /\ \A k \in 0 .. Len(sent) : NextOff(k)' = NextOff(k)
      BY <1>4
    <3> QED BY <1>1, <1>4, <2>1, <3>1, <3>2 DEF End, NextOff, RoundUp
  <2>3. At(Len(got), rflushed)' = At(Len(got), rflushed)
    BY <2>1, <2>2 DEF At, RoundUp
  <2>4. Due(Len(got), rflushed)' <=> Due(Len(got), rflushed)
    BY <2>1 DEF Due
  <2> QED BY <1>0, <2>1, <2>2, <2>3, <2>4 DEF ReceiverInv, RecvPos
<1>9. Faithful'
  BY <1>0, <1>1, <1>4 DEF Faithful, recvVars
<1> QED BY <1>6, <1>7, <1>8, <1>9

(* The sender's state as the receiver's actions see it: unchanged *)
LEMMA SenderStable ==
  ASSUME IInv, script' = script, UNCHANGED sendVars
  PROVE  /\ SenderInv'
         /\ sent' = sent /\ SendPos' = SendPos
         /\ \A k \in 0 .. Len(sent) :
              /\ End(k)' = End(k) /\ NextOff(k)' = NextOff(k)
              /\ \A f \in BOOLEAN : At(k, f)' = At(k, f)
<1>1. /\ sent' = sent /\ counter' = counter /\ ptr' = ptr
      /\ spilled' = spilled /\ sflushed' = sflushed
  BY DEF sendVars
<1>2. \A k \in 0 .. Len(sent) :
        /\ End(k)' = End(k) /\ NextOff(k)' = NextOff(k)
        /\ \A f \in BOOLEAN : At(k, f)' = At(k, f)
  BY <1>1 DEF End, NextOff, At, RoundUp
<1>3. SendPos' = SendPos
  BY <1>1 DEF SendPos
<1>4. SenderInv'
  BY <1>1, <1>3 DEF IInv, SenderInv, At, End, NextOff, RoundUp
<1> QED BY <1>1, <1>2, <1>3, <1>4

(* recv_data, when it returns, whichever branch it takes *)
LEMMA RecvStep ==
  ASSUME IInv, TypeOK', script' = script, UNCHANGED sendVars,
         delivered' = delivered,
         Due(Len(got), rflushed),
         got' = Append(got, [off |-> NextOff(Len(got)), len |-> script[Len(got) + 1].len]),
         RecvPos' = NextOff(Len(got)) + script[Len(got) + 1].len,
         rcounter' <= delivered, rcounter' % B = 0,
         remain' = 0, rflushed' = FALSE
  PROVE  SenderInv' /\ WireInv' /\ ReceiverInv' /\ Faithful'
<1> DEFINE m == script[Len(got) + 1].len
<1>0. TypeOK /\ SenderInv /\ WireInv /\ ReceiverInv /\ Faithful
  BY DEF IInv
<1>1. Len(sent) \in Nat /\ Len(got) \in Nat /\ Len(got) <= Len(sent)
  BY <1>0, Positions DEF Faithful
<1>2. m \in Nat \ {0}
  <2>1. script \in Scripts
    BY <1>0, Offsets
  <2>2. Len(got) + 1 \in 1 .. Len(script)
    BY <1>1, <2>1, ScriptType DEF Due
  <2> QED BY <2>1, <2>2, ScriptType
<1>3. /\ SenderInv'
      /\ sent' = sent /\ SendPos' = SendPos
      /\ \A k \in 0 .. Len(sent) :
           /\ End(k)' = End(k) /\ NextOff(k)' = NextOff(k)
           /\ \A f \in BOOLEAN : At(k, f)' = At(k, f)
  BY SenderStable
<1>4. NextOff(Len(got)) \in Nat
  BY <1>0, <1>1, Positions
<1>5. Len(got) < Len(sent)
  <2>0. rcounter' \in Nat /\ rptr' \in 1 .. B
    BY DEF TypeOK
  <2>1. RecvPos' <= rcounter'
    <3>1. RecvPos' = (rcounter' - B) + rptr'
      BY DEF RecvPos
    <3> DEFINE r == RecvPos'
               c == rcounter'
               p == rptr'
    <3>2. r = (c - B) + p /\ c \in Nat /\ p \in 1 .. B
      BY <2>0, <3>1
    <3> HIDE DEF r, c, p
    <3>3. r <= c
      BY <3>2, BAssumption
    <3> QED BY <3>3 DEF r, c
  <2>3. delivered \in Nat /\ counter \in Nat /\ SendPos \in Nat /\ counter <= SendPos
    BY <1>0, Offsets
  <2>1a. delivered <= counter
    BY <1>0 DEF WireInv
  <2>2. delivered <= SendPos
    BY <2>3, <2>1a
  <2>4. NextOff(Len(got)) < RecvPos'
    BY <1>2, <1>4
  <2>5. RecvPos' \in Nat
    BY <1>2, <1>4
  <2>6. NextOff(Len(got)) < SendPos
    BY <1>4, <2>0, <2>1, <2>2, <2>3, <2>4, <2>5
  <2> QED BY <1>0, <1>1, <2>6, PastStartIsSent
<1>6. /\ Len(got') = Len(got) + 1
      /\ got'[Len(got) + 1] = [off |-> NextOff(Len(got)), len |-> m]
      /\ \A k \in 1 .. Len(got) : got'[k] = got[k]
  BY <1>0 DEF TypeOK
<1>7. sent[Len(got) + 1] = [off |-> NextOff(Len(got)), len |-> m]
  BY <1>0, <1>1, <1>5 DEF SenderInv
<1>8. Faithful'
  BY <1>0, <1>1, <1>3, <1>5, <1>6, <1>7 DEF Faithful
<1>9. WireInv'
  BY <1>0 DEF WireInv, sendVars
<1>10. ReceiverInv'
  <2>1. Len(got') \in 0 .. Len(sent)
    BY <1>1, <1>5, <1>6
  <2>2. End(Len(got)) ' = End(Len(got')) /\ End(Len(got')) = NextOff(Len(got)) + m
    BY <1>1, <1>3, <1>6, <1>7, <2>1 DEF End
  <2>3. RecvPos' = At(Len(got), rflushed)'
    BY <2>2 DEF At
  <2> QED BY <1>1, <1>6, <2>3 DEF ReceiverInv
<1> QED BY <1>3, <1>8, <1>9, <1>10

-------------------------------------------------------------------------------
(* One lemma per action *)

(* send_data, first branch: a message copied to buf keeps the invariant *)
LEMMA SendBufferedKeeps ==
  ASSUME IInv, SendBuffered
  PROVE  IInv'
<1> DEFINE n == script[Len(sent) + 1].len
           e == [off |-> SendPos, len |-> n]
<1>1. /\ Due(Len(sent), sflushed) /\ n <= B - ptr /\ ptr' = ptr + n
      /\ sent' = Append(sent, e) /\ sflushed' = FALSE
      /\ UNCHANGED <<script, counter, spilled, delivered, recvVars>>
  BY DEF SendBuffered
<1>2. TypeOK /\ SenderInv
  BY DEF IInv
<1>3. n \in Nat /\ n > 0 /\ SendPos \in Nat
  <2>1. script \in Scripts /\ SendPos \in Nat /\ Len(sent) \in Nat
    BY <1>2 DEF TypeOK, SendPos
  <2>2. Len(sent) + 1 \in 1 .. Len(script)
    BY <1>1, <2>1, ScriptType DEF Due
  <2> QED BY <2>1, <2>2, ScriptType
<1>4. TypeOK'
  <2>1. sent' \in Seq(Extent) /\ Len(sent') <= Len(script)
    BY <1>1, <1>2, <1>3, AppendStable, ScriptType DEF Extent, TypeOK, Due
  <2>2. ptr' \in 0 .. B
    <3>1. ptr \in 0 .. B
      BY <1>2 DEF TypeOK
    <3> HIDE DEF n
    <3> QED BY <1>1, <1>3, <3>1, BAssumption
  <2> QED BY <1>1, <1>2, <2>1, <2>2 DEF TypeOK, recvVars
<1>5. SendPos' = SendPos + n
  BY <1>1, <1>2, <1>3 DEF SendPos, TypeOK
<1>6. (~spilled' => counter' % B = 0) /\ counter <= counter'
  BY <1>1, <1>2 DEF SenderInv, TypeOK
<1> QED BY <1>1, <1>4, <1>5, <1>6, SendStep DEF IInv

(* send_data, second branch: a message that goes past buf keeps it *)
LEMMA SendOversizeKeeps ==
  ASSUME IInv, SendOversize
  PROVE  IInv'
<1> DEFINE n == script[Len(sent) + 1].len
           e == [off |-> SendPos, len |-> n]
<1>1. /\ Due(Len(sent), sflushed) /\ counter' = counter + ptr + n /\ ptr' = 0
      /\ sent' = Append(sent, e) /\ sflushed' = FALSE /\ spilled' = TRUE
      /\ UNCHANGED <<script, delivered, recvVars>>
  BY DEF SendOversize
<1>2. TypeOK /\ SenderInv
  BY DEF IInv
<1>3. n \in Nat /\ n > 0 /\ SendPos \in Nat
  <2>1. script \in Scripts /\ SendPos \in Nat /\ Len(sent) \in Nat
    BY <1>2 DEF TypeOK, SendPos
  <2>2. Len(sent) + 1 \in 1 .. Len(script)
    BY <1>1, <2>1, ScriptType DEF Due
  <2> QED BY <2>1, <2>2, ScriptType
<1>4. TypeOK'
  <2>1. sent' \in Seq(Extent) /\ Len(sent') <= Len(script)
    BY <1>1, <1>2, <1>3, AppendStable, ScriptType DEF Extent, TypeOK, Due
  <2>2. ptr' \in 0 .. B /\ counter' \in Nat
    BY <1>1, <1>2, <1>3, BAssumption DEF TypeOK
  <2> QED BY <1>1, <1>2, <2>1, <2>2 DEF TypeOK, recvVars
<1>5. SendPos' = SendPos + n /\ counter <= counter'
  BY <1>1, <1>2, <1>3 DEF SendPos, TypeOK
<1> QED BY <1>1, <1>4, <1>5, SendStep DEF IInv

(* SenderSubChannel::flush keeps it: the sender then stands at the end of a *)
(* block, where the next message starts *)
LEMMA SendFlushKeeps ==
  ASSUME IInv, SendFlush
  PROVE  IInv'
<1>0. TypeOK /\ SenderInv /\ WireInv /\ ReceiverInv /\ Faithful
  BY DEF IInv
<1>1. /\ MayFlush(Len(sent)) /\ counter' = RoundUp(SendPos) /\ delivered' = counter'
      /\ ptr' = 0 /\ spilled' = FALSE /\ sflushed' = TRUE
      /\ script' = script /\ sent' = sent /\ UNCHANGED recvVars
  BY DEF SendFlush, SendPos
<1>2. SendPos \in Nat /\ counter <= SendPos
  BY <1>0 DEF TypeOK, SendPos
<1>3. /\ counter' \in Nat /\ counter' % B = 0 /\ SendPos <= counter'
  BY <1>1, <1>2, RoundUpRange
<1>4. TypeOK'
  <2>1. ptr' \in 0 .. B /\ delivered' \in Nat
    BY <1>1, <1>3, BAssumption
  <2> QED BY <1>0, <1>1, <1>3, <2>1 DEF TypeOK, recvVars
<1>5. \A k \in 0 .. Len(sent) :
        /\ End(k)' = End(k) /\ NextOff(k)' = NextOff(k)
        /\ \A f \in BOOLEAN : At(k, f)' = At(k, f)
  BY <1>1 DEF End, NextOff, At, RoundUp
<1>6. Len(sent) \in Nat /\ Len(got) \in Nat /\ Len(got) <= Len(sent)
  BY <1>0, Positions DEF Faithful
<1>7. SendPos' = At(Len(sent), sflushed)'
  <2>1. SendPos' = RoundUp(SendPos)
    BY <1>1, <1>3 DEF SendPos
  <2>2. CASE sflushed
    <3>1. SendPos = RoundUp(End(Len(sent)))
      BY <1>0, <2>2 DEF SenderInv, At
    <3>2. End(Len(sent)) \in Nat
      BY <1>0, <1>6, Positions
    <3>3. SendPos % B = 0
      BY <3>1, <3>2, RoundUpRange
    <3>4. RoundUp(SendPos) = SendPos
      BY <3>3 DEF RoundUp
    <3> QED BY <1>1, <1>5, <1>6, <2>1, <3>1, <3>4 DEF At
  <2>3. CASE ~sflushed
    <3>1. SendPos = End(Len(sent))
      BY <1>0, <2>3 DEF SenderInv, At
    <3> QED BY <1>1, <1>5, <1>6, <2>1, <3>1 DEF At, End, RoundUp
  <2> QED BY <2>2, <2>3
<1>8. SenderInv'
  BY <1>0, <1>1, <1>3, <1>5, <1>6, <1>7 DEF SenderInv, MayFlush
<1>9. WireInv'
  BY <1>0, <1>1, <1>2, <1>3 DEF WireInv, recvVars, TypeOK
<1>10. ReceiverInv'
  BY <1>0, <1>1, <1>5, <1>6 DEF ReceiverInv, RecvPos, recvVars, TypeOK, Due
<1>11. Faithful'
  BY <1>0, <1>1 DEF Faithful, recvVars
<1> QED BY <1>4, <1>8, <1>9, <1>10, <1>11 DEF IInv

(* Bytes that stdio writes early keep it *)
LEMMA StdioDrainKeeps ==
  ASSUME IInv, StdioDrain
  PROVE  IInv'
<1>0. TypeOK /\ WireInv /\ ReceiverInv /\ Faithful
  BY DEF IInv
<1>1. /\ delivered' \in (delivered + 1) .. counter /\ script' = script
      /\ UNCHANGED sendVars /\ UNCHANGED recvVars
  BY DEF StdioDrain
<1>2. TypeOK'
  BY <1>0, <1>1 DEF TypeOK, sendVars, recvVars
<1>3. /\ SenderInv' /\ sent' = sent
      /\ \A k \in 0 .. Len(sent) :
           /\ End(k)' = End(k) /\ NextOff(k)' = NextOff(k)
           /\ \A f \in BOOLEAN : At(k, f)' = At(k, f)
  BY <1>1, SenderStable
<1>4. Len(got) \in 0 .. Len(sent)
  BY <1>0, Positions DEF Faithful
<1>5. WireInv'
  BY <1>0, <1>1 DEF WireInv, TypeOK, sendVars, recvVars
<1>6. ReceiverInv'
  BY <1>0, <1>1, <1>3, <1>4 DEF ReceiverInv, RecvPos, recvVars, TypeOK, Due
<1>7. Faithful'
  BY <1>0, <1>1, <1>3 DEF Faithful, recvVars
<1> QED BY <1>2, <1>3, <1>5, <1>6, <1>7 DEF IInv

(* The receiver before message Len(got) + 1 *)
LEMMA Upcoming ==
  ASSUME IInv, Due(Len(got), rflushed)
  PROVE  /\ script[Len(got) + 1].len \in Nat \ {0}
         /\ NextOff(Len(got)) \in Nat
         /\ remain = 0 => RecvPos = NextOff(Len(got))
         /\ Len(got) + 1 <= Len(script)
<1>0. TypeOK /\ ReceiverInv /\ Faithful
  BY DEF IInv
<1>1. Len(got) \in 0 .. Len(sent) /\ Len(got) \in Nat
  BY <1>0, Positions DEF Faithful
<1>2. Len(got) + 1 \in 1 .. Len(script) /\ script \in Scripts
  BY <1>0, <1>1, ScriptType DEF Due, TypeOK
<1>3. NextOff(Len(got)) \in Nat
  BY <1>0, <1>1, Positions
<1>4. At(Len(got), rflushed) = NextOff(Len(got))
  BY <1>0, <1>1, DueAtStart DEF ReceiverInv, TypeOK
<1>5. script[Len(got) + 1].len \in Nat \ {0}
  BY <1>2, ScriptType
<1> QED BY <1>0, <1>2, <1>3, <1>4, <1>5, ScriptType DEF ReceiverInv

(* recv_data, first branch: a message within the block keeps it *)
LEMMA RecvBufferedKeeps ==
  ASSUME IInv, RecvBuffered
  PROVE  IInv'
<1> DEFINE n == script[Len(got) + 1].len
           e == [off |-> RecvPos, len |-> n]
<1>0. TypeOK /\ WireInv
  BY DEF IInv
<1>1. /\ remain = 0 /\ Due(Len(got), rflushed) /\ n <= B - rptr
      /\ rptr' = rptr + n /\ got' = Append(got, e) /\ rflushed' = FALSE
      /\ UNCHANGED <<script, sendVars, delivered, rcounter, remain>>
  BY DEF RecvBuffered
<1>2. /\ n \in Nat \ {0} /\ RecvPos = NextOff(Len(got))
      /\ RecvPos \in Nat /\ Len(got) + 1 <= Len(script)
  BY <1>1, Upcoming
<1>3. TypeOK'
  <2>1. e \in Extent
    BY <1>2 DEF Extent
  <2>2. got' \in Seq(Extent) /\ Len(got') = Len(got) + 1
    BY <1>0, <1>1, <2>1 DEF TypeOK
  <2>3. rptr' \in 1 .. B
    BY <1>0, <1>1, <1>2, BAssumption DEF TypeOK
  <2> QED BY <1>0, <1>1, <1>2, <2>2, <2>3 DEF TypeOK, sendVars
<1>4. RecvPos' = RecvPos + n
  BY <1>0, <1>1, <1>2, BAssumption DEF RecvPos, TypeOK
<1>5. rcounter' <= delivered /\ rcounter' % B = 0 /\ remain' = 0
  BY <1>0, <1>1 DEF WireInv
<1> QED BY <1>1, <1>2, <1>3, <1>4, <1>5, RecvStep DEF IInv

(* recv_data, second branch, before its loop, keeps it *)
LEMMA RecvBeginKeeps ==
  ASSUME IInv, RecvBegin
  PROVE  IInv'
<1> DEFINE n == script[Len(got) + 1].len
<1>0. TypeOK /\ WireInv /\ ReceiverInv /\ Faithful
  BY DEF IInv
<1>1. /\ remain = 0 /\ Due(Len(got), rflushed) /\ n > B - rptr
      /\ remain' = n - (B - rptr)
      /\ UNCHANGED <<script, sendVars, delivered, rcounter, rptr, got, rflushed>>
  BY DEF RecvBegin
<1>2. /\ n \in Nat \ {0} /\ RecvPos = NextOff(Len(got)) /\ RecvPos \in Nat
  BY <1>1, Upcoming
<1>3. remain' \in Nat /\ remain' > 0 /\ remain' <= n
      /\ rcounter + remain' = NextOff(Len(got)) + n
  <2> DEFINE o == NextOff(Len(got))
  <2>1. rcounter \in Nat /\ rptr \in 1 .. B /\ B \in Nat
    BY <1>0, BAssumption DEF TypeOK
  <2>2. o \in Nat /\ n \in Nat /\ rcounter - B + rptr = o
    BY <1>2 DEF RecvPos
  <2>3. n > B - rptr /\ remain' = n - (B - rptr)
    BY <1>1
  <2> HIDE DEF n, o
  <2>4. remain' \in Nat /\ remain' > 0 /\ remain' <= n /\ rcounter + remain' = o + n
    BY <2>1, <2>2, <2>3
  <2> QED BY <2>4 DEF o
<1>4. TypeOK'
  BY <1>0, <1>1, <1>3 DEF TypeOK, sendVars
<1>5. /\ SenderInv' /\ sent' = sent
      /\ \A k \in 0 .. Len(sent) : NextOff(k)' = NextOff(k)
  BY <1>1, SenderStable
<1>6. Len(got) \in 0 .. Len(sent)
  BY <1>0, Positions DEF Faithful
<1>7. Due(Len(got), rflushed)' /\ NextOff(Len(got))' = NextOff(Len(got))
  BY <1>1, <1>5, <1>6 DEF Due
<1>8. ReceiverInv'
  BY <1>0, <1>1, <1>3, <1>7 DEF ReceiverInv
<1>9. WireInv' /\ Faithful'
  BY <1>0, <1>1, <1>5 DEF WireInv, Faithful, sendVars
<1> QED BY <1>4, <1>5, <1>8, <1>9 DEF IInv

(* A turn of the loop of recv_data, the last one too, keeps it *)
LEMMA RecvBlockKeeps ==
  ASSUME IInv, RecvBlock
  PROVE  IInv'
<1> DEFINE n == script[Len(got) + 1].len
           e == [off |-> rcounter + remain - n, len |-> n]
<1>0. TypeOK /\ WireInv /\ ReceiverInv /\ Faithful
  BY DEF IInv
<1>1. /\ remain > 0 /\ rcounter + B <= delivered /\ rcounter' = rcounter + B
      /\ UNCHANGED <<script, sendVars, delivered>>
  BY DEF RecvBlock
<1>2. /\ Due(Len(got), rflushed) /\ remain <= n
      /\ rcounter + remain = NextOff(Len(got)) + n
  BY <1>0, <1>1 DEF ReceiverInv
<1>3. n \in Nat \ {0} /\ NextOff(Len(got)) \in Nat /\ Len(got) + 1 <= Len(script)
  BY <1>2, Upcoming
<1>4. rcounter' \in Nat /\ rcounter' % B = 0 /\ rcounter' <= delivered
  <2>1. rcounter \in Nat /\ rcounter % B = 0
    BY <1>0 DEF TypeOK, WireInv
  <2>2. (rcounter + B) % B = 0
    BY <2>1, NextBlock
  <2> QED BY <1>1, <2>1, <2>2, BAssumption
<1>5. /\ SenderInv' /\ sent' = sent
      /\ \A k \in 0 .. Len(sent) : NextOff(k)' = NextOff(k)
  BY <1>1, SenderStable
<1>6. CASE remain > B /\ remain' = remain - B /\ UNCHANGED <<rptr, got, rflushed>>
  <2>1. remain' \in Nat /\ remain' > 0 /\ remain' <= n
        /\ rcounter' + remain' = rcounter + remain
    BY <1>0, <1>1, <1>2, <1>3, <1>6, BAssumption DEF TypeOK
  <2>2. TypeOK'
    BY <1>0, <1>1, <1>4, <1>6, <2>1 DEF TypeOK, sendVars
  <2>3. Len(got) \in 0 .. Len(sent)
    BY <1>0, Positions DEF Faithful
  <2>4. Due(Len(got), rflushed)' /\ NextOff(Len(got))' = NextOff(Len(got))
    BY <1>1, <1>2, <1>5, <1>6, <2>3 DEF Due
  <2>5. ReceiverInv'
    BY <1>0, <1>1, <1>2, <1>6, <2>1, <2>4 DEF ReceiverInv
  <2>6. WireInv' /\ Faithful'
    BY <1>0, <1>1, <1>4, <1>5, <1>6 DEF WireInv, Faithful, sendVars
  <2> QED BY <1>5, <2>2, <2>5, <2>6 DEF IInv
<1>7. CASE /\ remain <= B /\ rptr' = remain /\ remain' = 0
           /\ got' = Append(got, e) /\ rflushed' = FALSE
  <2>1. e = [off |-> NextOff(Len(got)), len |-> n]
    <3>1. rcounter \in Nat /\ remain \in Nat
      BY <1>0 DEF TypeOK
    <3>2. rcounter + remain - n = NextOff(Len(got))
      <4> DEFINE o == NextOff(Len(got))
      <4>1. rcounter + remain = o + n /\ o \in Nat /\ n \in Nat
        BY <1>2, <1>3
      <4> HIDE DEF n, o
      <4>2. rcounter + remain - n = o
        BY <3>1, <4>1
      <4> QED BY <4>2 DEF o
    <3> QED BY <3>2
  <2>2. e \in Extent
    BY <1>3, <2>1 DEF Extent
  <2>3. got' \in Seq(Extent) /\ Len(got') = Len(got) + 1
    BY <1>0, <1>7, <2>2 DEF TypeOK
  <2>4. TypeOK'
    <3>1. rptr' \in 1 .. B /\ remain' \in Nat
      BY <1>0, <1>1, <1>7, BAssumption DEF TypeOK
    <3>2. Len(got') <= Len(script')
      BY <1>1, <1>3, <2>3
    <3> QED BY <1>0, <1>1, <1>4, <1>7, <2>3, <3>1, <3>2 DEF TypeOK, sendVars
  <2>5. RecvPos' = NextOff(Len(got)) + n
    BY <1>0, <1>1, <1>2, <1>7, BAssumption DEF RecvPos, TypeOK
  <2> QED BY <1>1, <1>2, <1>4, <1>7, <2>1, <2>4, <2>5, RecvStep DEF IInv
<1> QED BY <1>6, <1>7 DEF RecvBlock

(* RecverSubChannel::flush keeps it: what the block still had was pad *)
LEMMA RecvFlushKeeps ==
  ASSUME IInv, RecvFlush
  PROVE  IInv'
<1>0. TypeOK /\ WireInv /\ ReceiverInv /\ Faithful
  BY DEF IInv
<1>1. /\ remain = 0 /\ MayFlush(Len(got)) /\ rptr' = B /\ rflushed' = TRUE
      /\ UNCHANGED <<script, sendVars, delivered, rcounter, remain, got>>
  BY DEF RecvFlush
<1>2. TypeOK'
  BY <1>0, <1>1, BAssumption DEF TypeOK, sendVars
<1>3. /\ SenderInv' /\ sent' = sent
      /\ \A k \in 0 .. Len(sent) : \A f \in BOOLEAN : At(k, f)' = At(k, f)
  BY <1>1, SenderStable
<1>4. Len(got) \in 0 .. Len(sent)
  BY <1>0, Positions DEF Faithful
<1>5. End(Len(got)) \in Nat
  BY <1>0, <1>4, Positions
<1>6. RecvPos = At(Len(got), rflushed)
  BY <1>0, <1>1 DEF ReceiverInv
<1>7. RoundUp(End(Len(got))) = rcounter
  <2>1. CASE rflushed
    BY <1>0, <1>6, <2>1, BAssumption DEF At, RecvPos, TypeOK, ReceiverInv
  <2>2. CASE ~rflushed
    <3>1. RecvPos = End(Len(got))
      BY <1>6, <2>2 DEF At
    <3>2. rcounter - B < RecvPos /\ RecvPos <= rcounter
      BY <1>0, BAssumption DEF RecvPos, TypeOK
    <3>3. rcounter \in Nat /\ rcounter % B = 0
      BY <1>0 DEF TypeOK, WireInv
    <3> QED BY <1>5, <3>1, <3>2, <3>3, RoundUpUnique
  <2> QED BY <2>1, <2>2
<1>8. RecvPos' = At(Len(got), rflushed)'
  <2>1. RecvPos' = rcounter
    BY <1>0, <1>1, BAssumption DEF RecvPos, TypeOK
  <2>2. At(Len(got), rflushed)' = RoundUp(End(Len(got)))
    BY <1>1, <1>3 DEF At, RoundUp, End
  <2> QED BY <1>7, <2>1, <2>2
<1>9. ReceiverInv'
  BY <1>0, <1>1, <1>8 DEF ReceiverInv, MayFlush
<1>10. WireInv' /\ Faithful'
  BY <1>0, <1>1, <1>3 DEF WireInv, Faithful, sendVars
<1> QED BY <1>2, <1>3, <1>9, <1>10 DEF IInv

-------------------------------------------------------------------------------
(* Theorems of the specification *)

(* The constructors establish the invariant: both ends stand at offset 0 *)
LEMMA InitInv ==
  ASSUME Init
  PROVE  IInv
<1>1. TypeOK
  <2>1. script \in Scripts /\ Len(script) \in Nat
    BY ScriptType DEF Init
  <2>2. << >> \in Seq(Extent) /\ Len(<< >>) = 0
    OBVIOUS
  <2>3. B \in 1 .. B /\ 0 \in 0 .. B
    BY BAssumption
  <2>4. /\ sent \in Seq(Extent) /\ Len(sent) = 0
        /\ got \in Seq(Extent) /\ Len(got) = 0
    BY <2>2 DEF Init
  <2>5. spilled \in BOOLEAN /\ sflushed \in BOOLEAN /\ rflushed \in BOOLEAN
    BY DEF Init
  <2>6. /\ counter \in Nat /\ ptr \in 0 .. B /\ delivered \in Nat
        /\ rcounter \in Nat /\ rptr \in 1 .. B /\ remain \in Nat
    BY <2>3 DEF Init
  <2> QED BY <2>1, <2>4, <2>5, <2>6 DEF TypeOK
<1>2. 0 % B = 0
  BY BAssumption
<1>3. SenderInv
  BY <1>2, RoundUpZero DEF Init, SenderInv, SendPos, At, End
<1>4. WireInv /\ Faithful
  BY <1>2 DEF Init, WireInv, Faithful
<1>5. ReceiverInv
  BY RoundUpZero, BAssumption DEF Init, ReceiverInv, RecvPos, At, End
<1> QED BY <1>1, <1>3, <1>4, <1>5 DEF IInv

(* A step of the rest of the system keeps it *)
LEMMA StutterKeeps ==
  ASSUME IInv, UNCHANGED vars
  PROVE  IInv'
<1>1. /\ script' = script /\ UNCHANGED sendVars /\ delivered' = delivered
      /\ UNCHANGED recvVars
  BY DEF vars
<1>2. TypeOK'
  BY <1>1 DEF IInv, TypeOK, sendVars, recvVars
<1>3. SenderInv'
  BY <1>1, SenderStable
<1>4. WireInv' /\ Faithful'
  BY <1>1 DEF IInv, WireInv, Faithful, sendVars, recvVars
<1>5. ReceiverInv'
  BY <1>1 DEF IInv, ReceiverInv, sendVars, recvVars, RecvPos, At, NextOff, End, RoundUp, Due
<1> QED BY <1>2, <1>3, <1>4, <1>5 DEF IInv

(* The two ends of a link always agree on where every message starts, for  *)
(* every block size and every script of lengths and flushes (net.hpp).     *)
THEOREM Inductive == Spec => []IInv
<1>1. Init => IInv
  BY InitInv
<1>2. IInv /\ [Next]_vars => IInv'
  BY SendBufferedKeeps, SendOversizeKeeps, SendFlushKeeps, StdioDrainKeeps,
     RecvBufferedKeeps, RecvBeginKeeps, RecvBlockKeeps, RecvFlushKeeps,
     StutterKeeps DEF Next, Send, Recv
<1> QED BY <1>1, <1>2, PTL DEF Spec

(* Every variable of the channel keeps its type. *)
THEOREM TypeCorrect == Spec => []TypeOK
<1>1. IInv => TypeOK
  BY DEF IInv
<1> QED BY <1>1, Inductive, PTL

(* recv_data returns exactly the messages that send_data was given. *)
THEOREM Faithfulness == Spec => []Faithful
<1>1. IInv => Faithful
  BY DEF IInv
<1> QED BY <1>1, Inductive, PTL

(* Between oversize messages the pad of flush never runs past the end of   *)
(* buf.                                                                    *)
THEOREM PadSafety == Spec => []PadStaysInBuffer
<1>1. ASSUME IInv, ~spilled
      PROVE  ptr + Pad(counter + ptr) <= B
  <2>1. counter \in Nat /\ ptr \in 0 .. B /\ counter % B = 0
    BY <1>1 DEF IInv, TypeOK, SenderInv
  <2>2. RoundUp(counter + ptr) <= counter + B
    <3>1. CASE ptr = 0
      BY <2>1, <3>1, BAssumption DEF RoundUp
    <3>2. CASE ptr > 0
      <4>1. (counter + B) % B = 0
        BY <2>1, NextBlock
      <4>2. RoundUp(counter + ptr) = counter + B
        BY <2>1, <3>2, <4>1, RoundUpUnique, BAssumption
      <4> QED BY <2>1, <4>2, BAssumption
    <3> QED BY <2>1, <3>1, <3>2
  <2>3. RoundUp(counter + ptr) \in Nat
    BY <2>1, RoundUpRange
  <2> QED BY <2>1, <2>2, <2>3, BAssumption DEF Pad
<1>2. IInv => PadStaysInBuffer
  BY <1>1 DEF PadStaysInBuffer
<1> QED BY <1>2, Inductive, PTL

(* The padded, buffered link implements the FIFO stream of messages that   *)
(* every protocol above net.hpp assumes.                                   *)
THEOREM Refinement == Spec => ImplementsFifo
<1>1. Init => Fifo!Init
  BY DEF Init, Fifo!Init
<1>2. ASSUME IInv, IInv', [Next]_vars
      PROVE  [Fifo!Next]_<<sent, got>>
  <2>0. /\ sent \in Seq(Fifo!Extent) /\ sent' \in Seq(Fifo!Extent)
        /\ got \in Seq(Fifo!Extent) /\ got' \in Seq(Fifo!Extent)
    BY <1>2 DEF IInv, TypeOK, Extent, Fifo!Extent
  <2>1. CASE Send
    <3>1. PICK e : sent' = Append(sent, e) /\ got' = got
      BY <2>1 DEF Send, SendBuffered, SendOversize, recvVars
    <3>2. Len(sent') = Len(sent) + 1 /\ SubSeq(sent', 1, Len(sent)) = sent
      BY <2>0, <3>1
    <3> QED BY <2>0, <3>1, <3>2 DEF Fifo!Next, Fifo!Send
  <2>2. CASE Recv
    <3>1. sent' = sent
      BY <2>2 DEF Recv, RecvBuffered, RecvBegin, RecvBlock, sendVars
    <3>2. CASE got' = got
      BY <3>1, <3>2
    <3>3. CASE got' # got
      <4>1. PICK e : got' = Append(got, e)
        BY <2>2, <3>3 DEF Recv, RecvBuffered, RecvBegin, RecvBlock
      <4>2. Len(got') = Len(got) + 1 /\ got'[Len(got) + 1] = e
        BY <2>0, <4>1
      <4>3. Len(got) < Len(sent) /\ e = sent[Len(got) + 1]
        BY <1>2, <2>0, <3>1, <4>2 DEF IInv, Faithful
      <4> QED BY <3>1, <4>1, <4>3 DEF Fifo!Next, Fifo!Receive
    <3> QED BY <3>2, <3>3
  <2>3. CASE SendFlush \/ StdioDrain \/ RecvFlush \/ UNCHANGED vars
    BY <2>3 DEF SendFlush, StdioDrain, RecvFlush, vars, sendVars, recvVars
  <2> QED BY <1>2, <2>1, <2>2, <2>3 DEF Next
<1> QED BY <1>1, <1>2, Inductive, PTL DEF Spec, ImplementsFifo, Fifo!Spec
===============================================================================
