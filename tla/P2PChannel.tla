------------------------------ MODULE P2PChannel ------------------------------
(***************************************************************************)
(* The P2Pchannel object of every process (include/net.hpp:253-368) and    *)
(* the sockets between them, one level above BlockChannel: a message is    *)
(* its tag, and what a flush puts on the wire is one batch of messages.    *)
(*                                                                         *)
(* Each process is a sequential program, a sequence of calls; a call is a  *)
(* sequence of sends and receives, a flush_all or a set_flush.  The calls  *)
(* come from the modules that translate the protocols.  Where a flush can  *)
(* happen in between (is_flush is set), a call is one send or one receive; *)
(* a call of several of them is local to its process and made in one step. *)
(* bloadcast is one call of several sends, flushed at its end; recv_all is *)
(* one receive from each peer, a call each, none of them flushed after.    *)
(*                                                                         *)
(* The messages of a batch are taken to fit into one block, so that the    *)
(* rest of a batch is what RecverSubChannel::flush throws away.            *)
(***************************************************************************)
EXTENDS Integers, Sequences, SequencesExt, FiniteSets

CONSTANTS
  Processes,   \* sequence of the process names, in the order of std::map
  Program(_),  \* the sequence of calls each process makes
  IsFlush,     \* initial value of is_flush
  Cap          \* batches a socket holds before fflush blocks

Proc == ToSet(Processes)
Calls == [p \in Proc |-> Program(p)]

ASSUME CapAssumption == Cap \in Nat \ {0}
ASSUME IsFlushAssumption == IsFlush \in BOOLEAN
ASSUME ProcessesAssumption == Processes \in Seq(Proc)

-------------------------------------------------------------------------------
(* Calls *)

SendTo(q, tag) == [op |-> "send", peer |-> q, tag |-> tag]
RecvFrom(q, tag) == [op |-> "recv", peer |-> q, tag |-> tag]
RecvPart(q, tag) == [op |-> "recv_part", peer |-> q, tag |-> tag]
FlushAll == << [op |-> "flush"] >>
SetFlush(b) == << [op |-> "set_flush", value |-> b] >>

(* bloadcast to the peers qs, in the order of the map *)
Bloadcast(qs, tag) == << [k \in DOMAIN qs |-> SendTo(qs[k], tag)] >>
(* recv_all from the peers qs *)
RecvAllFrom(qs, tag) == [k \in DOMAIN qs |-> << RecvPart(qs[k], tag) >>]

Receives == {"recv", "recv_part"}
IsTransfer(c) == c[1].op \in {"send"} \cup Receives

(* Whether flush_all ends the call of p: recv_all never calls it *)
FlushesAfter(flag, c) == flag /\ c[1].op # "recv_part"

(* The tags a call sends to, or expects from, process q, in order *)
Tags(c, ops, q) ==
  LET tags[k \in 0 .. Len(c)] ==
        IF k = 0 THEN << >>
        ELSE IF c[k].op \in ops /\ c[k].peer = q THEN Append(tags[k - 1], c[k].tag)
        ELSE tags[k - 1]
  IN  tags[Len(c)]

RecvPeers(c) == { c[k].peer : k \in { j \in 1 .. Len(c) : c[j].op \in Receives } }

-------------------------------------------------------------------------------
VARIABLES
  pc,        \* pc[p]: calls p has completed or begun
  isFlush,   \* is_flush of each process
  out,       \* out[p][q]: messages in p's SenderSubChannel to q
  todo,      \* todo[p]: peers a flush_all of p has still to write to
  wire,      \* wire[p][q]: batches on their way from p to q
  open,      \* open[p]: peers of whose block p has begun to read
  rest,      \* rest[p][q]: what p has not read of q's block
  dropped    \* history: some process threw unread messages away

vars == <<pc, isFlush, out, todo, wire, open, rest, dropped>>

Pairs(v) == [p \in Proc |-> [q \in Proc |-> v]]

Init ==
  /\ pc = [p \in Proc |-> 0]
  /\ isFlush = [p \in Proc |-> IsFlush]
  /\ out = Pairs(<< >>)
  /\ todo = [p \in Proc |-> {}]
  /\ wire = Pairs(<< >>)
  /\ open = [p \in Proc |-> {}]
  /\ rest = Pairs(<< >>)
  /\ dropped = FALSE

Finished(p) == pc[p] = Len(Calls[p]) /\ todo[p] = {}

(* p is between two calls, and c is the next one *)
AtCall(p) == todo[p] = {} /\ pc[p] < Len(Calls[p])
Call(p) == Calls[p][pc[p] + 1]

(* What p reads next from q without blocking *)
Readable(p, q) == q \in open[p] \/ wire[q][p] # << >>

(* recv_data blocks until each block the call needs is there *)
MayCall(p) ==
  AtCall(p) /\ (IsTransfer(Call(p)) => \A q \in RecvPeers(Call(p)) : Readable(p, q))

Block(p, q) == IF q \in open[p] THEN rest[p][q] ELSE Head(wire[q][p])

(* RecverSubChannel::flush on every peer: the blocks being read are dropped *)
Discard(p, unread) ==
  /\ dropped' = (dropped \/ \E q \in Proc : unread[q] # << >>)
  /\ open' = [open EXCEPT ![p] = {}]
  /\ rest' = [rest EXCEPT ![p] = [q \in Proc |-> << >>]]

(* A call of sends and receives.  A receive past the end of a batch reads   *)
(* its pad.  With is_flush set, flush_all follows, except in recv_all.      *)
Transfer(p) ==
  /\ MayCall(p) /\ IsTransfer(Call(p))
  /\ LET c == Call(p)
         from == RecvPeers(c)
         sending == [q \in Proc |-> out[p][q] \o Tags(c, {"send"}, q)]
         left == [q \in Proc |->
                    IF q \notin from THEN rest[p][q]
                    ELSE SubSeq(Block(p, q), Len(Tags(c, Receives, q)) + 1, Len(Block(p, q)))]
     IN  /\ out' = [out EXCEPT ![p] = sending]
         /\ wire' = [r \in Proc |-> [wire[r] EXCEPT ![p] =
                       IF r \in from \ open[p] THEN Tail(@) ELSE @]]
         /\ IF FlushesAfter(isFlush[p], c)
              THEN /\ Discard(p, left)
                   /\ todo' = [todo EXCEPT ![p] = { q \in Proc : sending[q] # << >> }]
              ELSE /\ open' = [open EXCEPT ![p] = @ \cup from]
                   /\ rest' = [rest EXCEPT ![p] = left]
                   /\ UNCHANGED <<todo, dropped>>
  /\ pc' = [pc EXCEPT ![p] = @ + 1]
  /\ UNCHANGED <<isFlush>>

(* An explicit flush_all *)
Flush(p) ==
  /\ MayCall(p) /\ Call(p)[1].op = "flush"
  /\ Discard(p, rest[p])
  /\ todo' = [todo EXCEPT ![p] = { q \in Proc : out[p][q] # << >> }]
  /\ pc' = [pc EXCEPT ![p] = @ + 1]
  /\ UNCHANGED <<isFlush, out, wire>>

(* SenderSubChannel::flush on one peer, in the order of the map; fflush     *)
(* blocks while the socket is full                                          *)
MayWrite(p, k, room) ==
  /\ Processes[k] \in todo[p] /\ \A j \in 1 .. (k - 1) : Processes[j] \notin todo[p]
  /\ Len(wire[p][Processes[k]]) < room

FlushInto(p, room) ==
  /\ \E k \in DOMAIN Processes :
       LET q == Processes[k] IN
       /\ MayWrite(p, k, room)
       /\ wire' = [wire EXCEPT ![p][q] = Append(@, out[p][q])]
       /\ out' = [out EXCEPT ![p][q] = << >>]
       /\ todo' = [todo EXCEPT ![p] = @ \ {q}]
  /\ UNCHANGED <<pc, isFlush, open, rest, dropped>>

(* Definitions named Bug... are variants of the one that follows, each with *)
(* a mistake the code could have had; no specification here uses them.      *)
BugFlushPeer(p) == FlushInto(p, Cap + 1)

FlushPeer(p) == FlushInto(p, Cap)

(* set_flush *)
SetMode(p) ==
  /\ MayCall(p) /\ Call(p)[1].op = "set_flush"
  /\ isFlush' = [isFlush EXCEPT ![p] = Call(p)[1].value]
  /\ pc' = [pc EXCEPT ![p] = @ + 1]
  /\ UNCHANGED <<out, todo, wire, open, rest, dropped>>

Done == \A p \in Proc : Finished(p)

(* All processes have returned from main *)
Terminated == Done /\ UNCHANGED vars

Step(p) == Transfer(p) \/ Flush(p) \/ FlushPeer(p) \/ SetMode(p)

Next == (\E p \in Proc : Step(p)) \/ Terminated

Spec == Init /\ [][Next]_vars

(* Some process that is not blocked in fread or fflush runs; every process  *)
(* makes finitely many calls, so no process has to be treated fairly.       *)
FairSpec == Spec /\ WF_vars(\E p \in Proc : Step(p))

-------------------------------------------------------------------------------
(* Properties *)

TypeOK ==
  /\ \A p \in Proc : /\ pc[p] \in 0 .. Len(Calls[p])
                     /\ todo[p] \subseteq Proc
                     /\ open[p] \subseteq Proc
  /\ isFlush \in [Proc -> BOOLEAN]
  /\ \A p, q \in Proc : Len(wire[p][q]) <= Cap
  /\ dropped \in BOOLEAN

(* What a process is about to read is the message its protocol expects:     *)
(* the order of sends on a link is the order of receives, and no receive    *)
(* runs into the pad after a batch.                                         *)
NoCrossTalk ==
  \A p \in Proc :
    AtCall(p) /\ IsTransfer(Call(p)) =>
      \A q \in RecvPeers(Call(p)) :
        Readable(p, q) => IsPrefix(Tags(Call(p), Receives, q), Block(p, q))

(* flush_all resets the receive buffers of all peers, whichever call made   *)
(* it; no message that has arrived is thrown away unread.                   *)
NothingDropped == ~dropped

(* When all processes have returned, every message has been sent and read *)
Drained ==
  Done => \A p, q \in Proc :
            out[p][q] = << >> /\ wire[p][q] = << >> /\ rest[p][q] = << >>

(* The processes do not all wait for each other, in fread or in fflush *)
SomebodyRuns ==
  Done \/ \E p \in Proc : MayCall(p) \/ \E k \in DOMAIN Processes : MayWrite(p, k, Cap)

(* No order of the processes makes them wait for each other for ever *)
Termination == <>Done
-------------------------------------------------------------------------------
(* What a program does to its links, whatever the other processes do       *)

(* The programs: each call flushes, sets the mode, or sends and receives *)
IsStep(i) == i.op \in {"send"} \cup Receives /\ i.peer \in Proc
IsCall(c) ==
  /\ c \in Seq(Range(c)) /\ c # << >>
  /\ \/ c[1].op = "flush" /\ Len(c) = 1
     \/ c[1].op = "set_flush" /\ Len(c) = 1 /\ c[1].value \in BOOLEAN
     \/ \A k \in 1 .. Len(c) : IsStep(c[k])

ASSUME ProgramAssumption ==
  \A p \in Proc : /\ Program(p) \in Seq(Range(Program(p)))
                  /\ \A k \in 1 .. Len(Program(p)) : IsCall(Program(p)[k])

(* is_flush of p after each call *)
ModeNext(p, k, m) ==
  IF Calls[p][k][1].op = "set_flush" THEN Calls[p][k][1].value ELSE m
Mode(p) ==
  LET mode[k \in 0 .. Len(Calls[p])] ==
        IF k = 0 THEN IsFlush ELSE ModeNext(p, k, mode[k - 1])
  IN  mode

(* Whether flush_all is part of the k-th call, or is that call *)
FlushesAt(p, k) ==
  LET c == Calls[p][k]
  IN  c[1].op = "flush" \/ (IsTransfer(c) /\ FlushesAfter(Mode(p)[k - 1], c))

(* The messages of one kind that p exchanges with q, after each call: past  *)
(* has those between two flushes of p, group by group, and now those since  *)
(* the last flush.                                                          *)
NoGroup == [past |-> << >>, now |-> << >>]
GroupNext(p, ops, q, k, g) ==
  LET now == g.now \o Tags(Calls[p][k], ops, q)
  IN  IF FlushesAt(p, k) /\ now # << >>
        THEN [past |-> Append(g.past, now), now |-> << >>]
        ELSE [past |-> g.past, now |-> now]
Groups(p, ops, q) ==
  LET groups[k \in 0 .. Len(Calls[p])] ==
        IF k = 0 THEN NoGroup ELSE GroupNext(p, ops, q, k, groups[k - 1])
  IN  groups

(* What p sends to q, batch by batch, and what p reads of q's blocks *)
Puts(p, q) == Groups(p, {"send"}, q)
Gets(p, q) == Groups(p, Receives, q)
Joined(g) == IF g.now = << >> THEN g.past ELSE Append(g.past, g.now)

(* The programs match: what p sends to q between two flushes of p is what q *)
(* expects of p between two flushes of q, and p has flushed at its end.     *)
Matched ==
  \A p, q \in Proc :
    LET s == Puts(p, q)[Len(Calls[p])]
        r == Gets(q, p)[Len(Calls[q])]
    IN  s.now = << >> /\ s.past = Joined(r)

(* After each call, how many batches p has ended for q, and how many of p's *)
(* blocks q has begun                                                       *)
Ended == [p \in Proc |-> [q \in Proc |-> [k \in 0 .. Len(Calls[p]) |-> Len(Puts(p, q)[k].past)]]]
Opened == [q \in Proc |-> [p \in Proc |-> [k \in 0 .. Len(Calls[q]) |-> Len(Joined(Gets(q, p)[k]))]]]

(* Times at which the processes can make their calls without waiting: what  *)
(* a call begins to read has been flushed, and what a call flushes finds    *)
(* room in the socket.                                                      *)
Scheduled(time) ==
  /\ \A p \in Proc : \A k \in 1 .. Len(Calls[p]) :
       time[p][k] \in Nat /\ \A j \in 1 .. (k - 1) : time[p][j] < time[p][k]
  /\ \A p, q \in Proc :
       /\ \A k \in 1 .. Len(Calls[q]) : Opened[q][p][k] > 0 =>
            \E j \in 1 .. Len(Calls[p]) : Ended[p][q][j] >= Opened[q][p][k] /\ time[p][j] < time[q][k]
       /\ \A j \in 1 .. Len(Calls[p]) : Ended[p][q][j] > Cap =>
            \E k \in 1 .. Len(Calls[q]) : Opened[q][p][k] >= Ended[p][q][j] - Cap /\ time[q][k] < time[p][j]

(* All batches p ever sends to q, how many are written and how many q has  *)
(* begun to read                                                            *)
Batches(p, q) == Puts(p, q)[Len(Calls[p])].past
Written(p, q) == Len(Puts(p, q)[pc[p]].past) - (IF q \in todo[p] THEN 1 ELSE 0)
Begun(q, p) == Len(Gets(q, p)[pc[q]].past) + (IF p \in open[q] THEN 1 ELSE 0)

(* The state of the link from p to q: everything on it is a batch, and its  *)
(* place in the program of p and in that of q says which.                   *)
SenderAt(p, q) ==
  LET s == Puts(p, q)[pc[p]]
  IN  IF q \in todo[p]
        THEN /\ pc[p] > 0 /\ Len(s.past) = Len(Puts(p, q)[pc[p] - 1].past) + 1
             /\ s.now = << >> /\ out[p][q] = s.past[Len(s.past)]
        ELSE out[p][q] = s.now
WireAt(p, q) ==
  /\ Begun(q, p) <= Written(p, q)
  /\ Len(wire[p][q]) = Written(p, q) - Begun(q, p)
  /\ \A k \in 1 .. Len(wire[p][q]) : wire[p][q][k] = Batches(p, q)[Begun(q, p) + k]
ReaderAt(q, p) ==
  LET now == Gets(q, p)[pc[q]].now
  IN  /\ p \in open[q] <=> now # << >>
      /\ IF p \in open[q]
           THEN LET b == Batches(p, q)[Begun(q, p)]
                IN  rest[q][p] = SubSeq(b, Len(now) + 1, Len(b))
           ELSE rest[q][p] = << >>

CInv ==
  /\ \A p \in Proc : isFlush[p] = Mode(p)[pc[p]]
  /\ \A p, q \in Proc : SenderAt(p, q) /\ WireAt(p, q) /\ ReaderAt(q, p)
  /\ ~dropped
===============================================================================
