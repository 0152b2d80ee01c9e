---------------------------- MODULE P2PChannelProofs ----------------------------
(***************************************************************************)
(* Proofs about the class P2Pchannel: its constructor (Handshake) and what *)
(* the processes do with the objects (P2PChannel).                         *)
(*                                                                         *)
(* Handshake, for every number of processes and every choice of numbers of *)
(* one digit: ports determine the pair that meets at them (PortsDiffer),   *)
(* so two processes at the same port are each other's peer and at the same *)
(* one of their two connections (Meeting).  HInv is kept by each action:   *)
(* one lemma for each.  The handshake cannot come to a halt before every   *)
(* process has all its connections: Paired is what the two ends of a pair  *)
(* have made, and of a circle of waiting processes the smallest leads to   *)
(* two that wait for each other.                                           *)
(*                                                                         *)
(* P2PChannel, for every number of processes, all programs and any room in *)
(* the sockets: TInv has the types.  CInv says of every link which batch   *)
(* each thing on it is; it is kept if the programs match.  Puts and Gets   *)
(* are recursive functions along a program: Recursion gives them their     *)
(* values, and CountUp (Arithmetic) their properties.  A call moves the    *)
(* sender's place on each of its links (SenderMoves), the reader's         *)
(* (ReaderMoves) and the wire (WireMoves); FlushPeer moves the sender and  *)
(* the wire (SenderWrites, WireGrows).                                     *)
(*                                                                         *)
(* Who never waits: of all processes the one whose next call is the first  *)
(* in a schedule can go on, since what it needs comes earlier in the       *)
(* schedule and has been done (FirstMayCall, FirstMayWrite).               *)
(***************************************************************************)
EXTENDS Handshake, P2PChannel, Arithmetic, TLAPS

-------------------------------------------------------------------------------
(* Who meets at a port *)

(* A port belongs to one ordered pair *)
LEMMA PortsDiffer ==
  ASSUME port \in Numberings,
         NEW a \in User, NEW b \in User, NEW c \in User, NEW d \in User,
         PortOf(a, b) = PortOf(c, d)
  PROVE  a = c /\ b = d
<1>1. /\ port \in [User -> 0 .. 9]
      /\ \A p, q \in User : port[p] = port[q] => p = q
  BY NumberAssumption
<1> HIDE DEF User
<1>2. port[a] \in 0 .. 9 /\ port[b] \in 0 .. 9 /\ port[c] \in 0 .. 9 /\ port[d] \in 0 .. 9
  BY <1>1
<1>3. port[a] = port[c] /\ port[b] = port[d]
  <2>1. 9000 + port[a] * 10 + port[b] = 9000 + port[c] * 10 + port[d]
    BY DEF PortOf
  <2> DEFINE i == port[a]  j == port[b]  k == port[c]  l == port[d]
  <2>2. /\ i \in 0 .. 9 /\ j \in 0 .. 9 /\ k \in 0 .. 9 /\ l \in 0 .. 9
        /\ 9000 + i * 10 + j = 9000 + k * 10 + l
    BY <1>2, <2>1
  <2> HIDE DEF i, j, k, l
  <2>3. i = k /\ j = l
    BY <2>2
  <2> QED BY <2>3 DEF i, j, k, l
<1> QED BY <1>1, <1>3

(* Until all connections are made there is a peer to connect to, and at    *)
(* counts the connections to the peers before it                           *)
LEMMA PeerRange ==
  ASSUME NEW p \in User, at[p] \in 0 .. 2 * (N - 1), ~Connected(p)
  PROVE  /\ PeerOf(p) \in User /\ PeerOf(p) # p
         /\ IF IsFirst(p) THEN at[p] = 2 * Slot(p, PeerOf(p))
                          ELSE at[p] = 2 * Slot(p, PeerOf(p)) + 1
<1> DEFINE k == at[p] \div 2
<1>1. /\ k \in 0 .. (N - 2)
      /\ IF at[p] % 2 = 0 THEN at[p] = 2 * k ELSE at[p] = 2 * k + 1
  BY NAssumption DEF Connected
<1>2. PeerOf(p) = Peer(p, k)
  BY DEF PeerOf
<1> HIDE DEF k
<1>3. Peer(p, k) \in User /\ Peer(p, k) # p /\ Slot(p, Peer(p, k)) = k
  BY <1>1, NAssumption DEF Peer, User, Slot
<1> QED BY <1>1, <1>2, <1>3 DEF IsFirst

(* Of two different processes one is the server *)
LEMMA OneServer ==
  ASSUME port \in Numberings, NEW p \in User, NEW q \in User, p # q
  PROVE  ~(IsServer(p, q) <=> IsServer(q, p))
<1>1. /\ PortOf(p, q) \in Int /\ PortOf(q, p) \in Int
  BY NumberAssumption DEF PortOf
<1>2. PortOf(p, q) # PortOf(q, p)
  BY PortsDiffer
<1> QED BY <1>1, <1>2 DEF IsServer

(* Two processes at the same port are at the two ends of one connection *)
LEMMA Meeting ==
  ASSUME port \in Numberings,
         NEW p \in User, at[p] \in 0 .. 2 * (N - 1), ~Connected(p),
         NEW q \in User, at[q] \in 0 .. 2 * (N - 1), ~Connected(q),
         p # q, Target(p) = Target(q)
  PROVE  /\ PeerOf(p) = q /\ PeerOf(q) = p
         /\ IsFirst(p) <=> IsFirst(q)
         /\ ~(IsServer(p, PeerOf(p)) <=> IsServer(q, PeerOf(q)))
<1> DEFINE a == PeerOf(p)
           b == PeerOf(q)
           HighP == IsFirst(p) <=> IsServer(p, a)
           HighQ == IsFirst(q) <=> IsServer(q, b)
<1>1. a \in User /\ a # p /\ b \in User /\ b # q
  BY PeerRange
<1>2. /\ HighP => Target(p) = PortOf(p, a)
      /\ ~HighP => Target(p) = PortOf(a, p)
      /\ HighQ => Target(q) = PortOf(q, b)
      /\ ~HighQ => Target(q) = PortOf(b, q)
  BY DEF Target
<1>3. CASE HighP /\ HighQ
  BY <1>1, <1>2, <1>3, PortsDiffer
<1>4. CASE ~HighP /\ ~HighQ
  BY <1>1, <1>2, <1>4, PortsDiffer
<1>5. CASE ~(HighP <=> HighQ)
  <2>1. a = q /\ b = p
    <3>1. CASE HighP /\ ~HighQ
      BY <3>1, <1>1, <1>2, PortsDiffer
    <3>2. CASE ~HighP /\ HighQ
      BY <3>2, <1>1, <1>2, PortsDiffer
    <3> QED BY <3>1, <3>2, <1>5
  <2>2. ~(IsServer(p, a) <=> IsServer(q, b))
    BY <2>1, OneServer
  <2> QED BY <2>1, <2>2, <1>5
<1> QED BY <1>3, <1>4, <1>5

(* What a process is at depends on its own count only *)
LEMMA Stays ==
  ASSUME NEW q \in User, at'[q] = at[q], port' = port
  PROVE  End(q)' = End(q) /\ PeerOf(q)' = PeerOf(q) /\ IsFirst(q)' = IsFirst(q)
<1>1. PeerOf(q)' = PeerOf(q) /\ IsFirst(q)' = IsFirst(q)
  BY DEF PeerOf, Peer, IsFirst
<1>2. \A r : IsServer(q, r)' = IsServer(q, r)
  BY DEF IsServer, PortOf
<1>3. Role(q)' = Role(q)
  BY <1>1, <1>2 DEF Role
<1> QED BY <1>1, <1>3 DEF End

(* One more connection made keeps the counts in their range *)
LEMMA CountStep ==
  ASSUME HTypeOK, NEW p \in User, ~Connected(p), at' = [at EXCEPT ![p] = @ + 1]
  PROVE  /\ at' \in [User -> 0 .. 2 * (N - 1)]
         /\ \A r \in User : at[r] \in Int /\ at'[r] \in Int /\ at'[r] >= at[r]
<1> DEFINE top == 2 * (N - 1)
<1>1. top \in Nat /\ at \in [User -> 0 .. top] /\ at[p] # top
  BY NAssumption DEF HTypeOK, Connected
<1> HIDE DEF top
<1>2. at[p] + 1 \in 0 .. top
  BY <1>1
<1>3. at' \in [User -> 0 .. top] /\ at'[p] = at[p] + 1 /\ \A r \in User \ {p} : at'[r] = at[r]
  BY <1>1, <1>2
<1>4. ASSUME NEW r \in User
      PROVE  at[r] \in Int /\ at'[r] \in Int /\ at'[r] >= at[r]
  <2>1. CASE r = p
    BY <2>1, <1>1, <1>3
  <2>2. CASE r # p
    BY <2>2, <1>1, <1>3
  <2> QED BY <2>1, <2>2
<1> QED BY <1>3, <1>4 DEF top

-------------------------------------------------------------------------------
(* The actions *)

LEMMA ListenStep ==
  ASSUME HInv, NEW p \in User, Listen(p)
  PROVE  HInv'
<1> USE DEF HInv
<1>1. \A q \in listening : Target(q) # Target(p)
  <2> SUFFICES ASSUME NEW q \in listening, Target(q) = Target(p)
               PROVE  FALSE
    OBVIOUS
  <2>1. q \in User /\ q # p /\ ~Connected(p) /\ ~Connected(q)
    BY DEF Listen, MayListen, Running, HTypeOK
  <2>2. ~(IsServer(p, PeerOf(p)) <=> IsServer(q, PeerOf(q)))
    BY <2>1, Meeting DEF HTypeOK
  <2> QED BY <2>2 DEF Listen, MayListen, HTypeOK
<1>2. /\ listening' = listening \cup {p}
      /\ UNCHANGED <<port, at, queue, conns, exited>>
  BY <1>1 DEF Listen, Listeners
<1>3. HTypeOK'
  BY <1>2 DEF HTypeOK, Listen, MayListen, Running, Connected, PeerOf, IsServer, PortOf
<1>4. Crosswise' /\ NoClash'
  BY <1>2 DEF Crosswise, NoClash
<1>5. \A q \in User : Dialled(q)'
  BY <1>2 DEF Dialled, End, Role, PeerOf, IsFirst, IsServer, PortOf
<1> QED BY <1>3, <1>4, <1>5

LEMMA AcceptStep ==
  ASSUME HInv, NEW p \in User, Accept(p)
  PROVE  HInv'
<1> USE DEF HInv
<1> DEFINE e == Head(queue[p])
<1>1. /\ p \in listening /\ queue[p] # << >>
      /\ Cross(End(p), e)
  BY DEF Accept, MayAccept, Dialled
<1>2. at[p] \in 0 .. 2 * (N - 1) /\ ~Connected(p)
  BY <1>1 DEF HTypeOK, Running
<1>3. PeerOf(p) \in User /\ PeerOf(p) # p
  BY <1>2, PeerRange
<1>4. e \in AllEnds /\ End(p) \in AllEnds
  <2>1. queue[p] \in Seq(AllEnds) /\ p \in User
    BY <1>1 DEF HTypeOK
  <2>2. e \in AllEnds
    BY <2>1, <1>1
  <2>3. Role(p) \in {"send", "recv"}
    BY DEF Role
  <2> QED BY <2>1, <2>2, <2>3, <1>3 DEF AllEnds, End
<1>5. \A q \in User \ {p} : at'[q] = at[q] /\ queue'[q] = queue[q]
  BY DEF Accept, HTypeOK
<1>6. queue'[p] = << >> /\ at'[p] = at[p] + 1 /\ listening' = listening \ {p}
  BY DEF Accept, HTypeOK
<1>7. HTypeOK'
  <2>1. at' \in [User -> 0 .. 2 * (N - 1)]
    BY <1>2, CountStep DEF Accept
  <2>2. \A q \in listening' : q \in User /\ Running(q)' /\ IsServer(q, PeerOf(q))'
    BY <1>5, <1>6 DEF Accept, HTypeOK, Running, Connected, PeerOf, IsServer, PortOf
  <2>3. queue' \in [User -> Seq(AllEnds)]
    BY DEF Accept, HTypeOK
  <2>4. conns' \subseteq [server : AllEnds, client : AllEnds]
    BY <1>4 DEF Accept, HTypeOK
  <2> QED BY <2>1, <2>2, <2>3, <2>4 DEF Accept, HTypeOK
<1>8. Crosswise'
  BY <1>1 DEF Accept, Crosswise
<1>9. NoClash'
  BY <1>5, <1>6 DEF Accept, NoClash
<1>10. ASSUME NEW q \in User
       PROVE  Dialled(q)'
  <2>1. CASE q = p
    BY <2>1, <1>6 DEF Dialled
  <2>2. CASE q # p /\ queue[q] # << >>
    <3>1. /\ q \in listening'
          /\ End(q)' = End(q) /\ PeerOf(q)' = PeerOf(q) /\ IsFirst(q)' = IsFirst(q)
      <4>1. q \in listening'
        BY <2>2, <1>6 DEF Dialled
      <4>2. at'[q] = at[q] /\ port' = port
        BY <2>2, <1>5 DEF Accept
      <4> QED BY <4>1, <4>2, Stays
    <3>2. PeerOf(q) \in User
      BY <2>2, PeerRange DEF Dialled, HTypeOK, Running
    <3>3. at'[PeerOf(q)] \in Int /\ at[PeerOf(q)] \in Int /\ at'[PeerOf(q)] >= at[PeerOf(q)]
      BY <3>2, <1>2, CountStep DEF Accept
    <3>4. Slot(PeerOf(q), q) \in Int
      BY <3>2 DEF Slot, User
    <3> QED BY <2>2, <3>1, <3>2, <3>3, <3>4, <1>5 DEF Dialled
  <2>3. CASE q # p /\ queue[q] = << >>
    BY <2>3, <1>5 DEF Dialled
  <2> QED BY <2>1, <2>2, <2>3
<1> QED BY <1>7, <1>8, <1>9, <1>10

LEMMA DialStep ==
  ASSUME HInv, NEW p \in User, Dial(p)
  PROVE  HInv'
<1> USE DEF HInv
<1>1. PICK q \in listening : /\ Target(q) = Target(p)
                             /\ queue' = [queue EXCEPT ![q] = Append(@, End(p))]
  BY DEF Dial, Listeners
<1>2. /\ q \in User /\ ~Connected(q) /\ IsServer(q, PeerOf(q))
      /\ at[q] \in 0 .. 2 * (N - 1)
  BY DEF HTypeOK, Running
<1>3. ~Connected(p) /\ ~IsServer(p, PeerOf(p)) /\ at[p] \in 0 .. 2 * (N - 1)
  BY DEF Dial, MayDial, Running, HTypeOK
<1>4. p # q
  BY <1>2, <1>3
<1>5. PeerOf(p) = q /\ PeerOf(q) = p /\ (IsFirst(p) <=> IsFirst(q))
  BY <1>1, <1>2, <1>3, <1>4, Meeting DEF HTypeOK
<1>6. IF IsFirst(p) THEN at[p] = 2 * Slot(p, q) ELSE at[p] = 2 * Slot(p, q) + 1
  BY <1>3, <1>5, PeerRange
<1>7. Slot(p, q) \in Int
  BY <1>2 DEF Slot, User
<1>8. queue[q] = << >>
  BY <1>2, <1>3, <1>5, <1>6, <1>7 DEF Dialled
<1>9. End(p) \in AllEnds /\ Cross(End(q), End(p))
  <2>1. Role(p) \in {"send", "recv"} /\ Role(p) # Role(q)
    BY <1>2, <1>3, <1>5 DEF Role
  <2>2. End(p) = [proc |-> p, peer |-> q, role |-> Role(p)]
    BY <1>5 DEF End
  <2>3. End(q) = [proc |-> q, peer |-> p, role |-> Role(q)]
    BY <1>5 DEF End
  <2> QED BY <2>1, <2>2, <2>3, <1>2 DEF AllEnds, Cross
<1>10. queue'[q] = << End(p) >> /\ \A r \in User \ {q} : queue'[r] = queue[r]
  BY <1>1, <1>2, <1>8 DEF HTypeOK
<1>11. at'[p] = at[p] + 1 /\ \A r \in User \ {p} : at'[r] = at[r]
  BY DEF Dial, HTypeOK
<1>12. p \notin listening /\ UNCHANGED <<port, listening, conns, exited>>
  BY <1>3 DEF Dial, MayDial, HTypeOK
<1>13. HTypeOK'
  <2>1. at' \in [User -> 0 .. 2 * (N - 1)]
    BY <1>3, CountStep DEF Dial
  <2>2. \A r \in listening' : r \in User /\ Running(r)' /\ IsServer(r, PeerOf(r))'
    <3> SUFFICES ASSUME NEW r \in listening
                 PROVE  r \in User /\ Running(r)' /\ IsServer(r, PeerOf(r))'
      BY <1>12
    <3>1. r \in User /\ Running(r) /\ IsServer(r, PeerOf(r)) /\ at'[r] = at[r]
      BY <1>11, <1>12 DEF HTypeOK
    <3>2. PeerOf(r)' = PeerOf(r)
      BY <3>1, <1>12, Stays
    <3> QED BY <3>1, <3>2, <1>12 DEF Running, Connected, IsServer, PortOf
  <2>3. queue' \in [User -> Seq(AllEnds)]
    <3>1. queue \in [User -> Seq(AllEnds)]
      BY DEF HTypeOK
    <3>2. Append(queue[q], End(p)) \in Seq(AllEnds)
      BY <3>1, <1>2, <1>9
    <3> HIDE DEF HInv
    <3> QED BY <3>1, <3>2, <1>1, <1>2
  <2> QED BY <2>1, <2>2, <2>3, <1>12 DEF HTypeOK
<1>14. Crosswise'
  BY <1>12 DEF Crosswise
<1>15. NoClash'
  <2>1. Len(queue'[q]) = 1
    BY <1>10
  <2>2. \A r \in User : Len(queue'[r]) <= 1
    <3> SUFFICES ASSUME NEW r \in User
                 PROVE  Len(queue'[r]) <= 1
      OBVIOUS
    <3>1. CASE r = q
      BY <3>1, <2>1
    <3>2. CASE r # q
      BY <3>2, <1>10 DEF NoClash
    <3> QED BY <3>1, <3>2
  <2> QED BY <2>2, <1>12 DEF NoClash
<1>16. ASSUME NEW r \in User
       PROVE  Dialled(r)'
  <2>1. CASE r = q
    <3>1. /\ End(q)' = End(q) /\ PeerOf(q)' = PeerOf(q) /\ IsFirst(q)' = IsFirst(q)
      BY <1>2, <1>4, <1>11, <1>12, Stays
    <3>2. Head(queue'[q]) = End(p)
      BY <1>10
    <3> QED BY <2>1, <3>1, <3>2, <1>3, <1>5, <1>6, <1>7, <1>9, <1>11, <1>12 DEF Dialled
  <2>2. CASE r # q /\ queue[r] # << >>
    <3>1. r \in listening /\ r # p
      BY <2>2, <1>12 DEF Dialled
    <3>2. /\ End(r)' = End(r) /\ PeerOf(r)' = PeerOf(r) /\ IsFirst(r)' = IsFirst(r)
      BY <3>1, <1>11, <1>12, Stays
    <3>3. PeerOf(r) \in User
      BY <3>1, PeerRange DEF HTypeOK, Running
    <3>4. at'[PeerOf(r)] \in Int /\ at[PeerOf(r)] \in Int /\ at'[PeerOf(r)] >= at[PeerOf(r)]
      BY <3>3, <1>3, CountStep DEF Dial
    <3>5. Slot(PeerOf(r), r) \in Int
      BY <3>3 DEF Slot, User
    <3> QED BY <2>2, <3>1, <3>2, <3>3, <3>4, <3>5, <1>10, <1>12 DEF Dialled
  <2>3. CASE r # q /\ queue[r] = << >>
    BY <2>3, <1>10 DEF Dialled
  <2> QED BY <2>1, <2>2, <2>3
<1> QED BY <1>13, <1>14, <1>15, <1>16

-------------------------------------------------------------------------------
(* Theorems *)

(* The invariant of the handshake, for all numbers of processes *)
THEOREM Inductive == HSpec => []HInv
<1>1. HInit => HInv
  BY NAssumption DEF HInit, HInv, HTypeOK, Crosswise, NoClash, Dialled
<1>2. HInv /\ [HNext]_hvars => HInv'
  <2> SUFFICES ASSUME HInv, [HNext]_hvars
               PROVE  HInv'
    OBVIOUS
  <2>1. ASSUME NEW p \in User, HStep(p)
        PROVE  HInv'
    BY <2>1, ListenStep, AcceptStep, DialStep DEF HStep
  <2>2. CASE UNCHANGED hvars
    BY <2>2 DEF hvars, HInv, HTypeOK, Crosswise, NoClash, Dialled, Running, Connected,
                PeerOf, IsServer, PortOf, End, Role, IsFirst
  <2> QED BY <2>1, <2>2 DEF HNext, Constructed
<1> QED BY <1>1, <1>2, PTL DEF HSpec

(* Every connection joins two objects that are for each other, the sending *)
(* socket of one to the receiving socket of the other.                     *)
THEOREM RightEnds == HSpec => []Crosswise
<1>1. HInv => Crosswise
  BY DEF HInv
<1> QED BY <1>1, Inductive, PTL

(* No two listeners use one port, and a listener is dialled once.          *)
THEOREM OwnPorts == HSpec => []NoClash
<1>1. HInv => NoClash
  BY DEF HInv
<1> QED BY <1>1, Inductive, PTL

(* Every variable of the handshake keeps its type.                         *)
THEOREM TypeCorrect == HSpec => []HTypeOK
<1>1. HInv => HTypeOK
  BY DEF HInv
<1> QED BY <1>1, Inductive, PTL

-------------------------------------------------------------------------------
(* Nobody is left behind: there is no circle of processes waiting for each *)
(* other in accept                                                         *)

(* Of the two connections between p and q, how many p has made *)
Made(p, q) ==
  LET k == at[p] - 2 * Slot(p, q)
  IN  IF k < 0 THEN 0 ELSE IF k > 2 THEN 2 ELSE k

(* p listens for q, and q has dialled *)
Waiting(p, q) == p \in listening /\ PeerOf(p) = q /\ queue[p] # << >>

(* The two ends of a pair are never apart by more than the connection the  *)
(* client has dialled and the server has not accepted.                     *)
Paired ==
  \A p, q \in User :
    p # q /\ IsServer(p, q) => Made(q, p) = Made(p, q) + (IF Waiting(p, q) THEN 1 ELSE 0)

LInv == HInv /\ Paired

-------------------------------------------------------------------------------
(* Counting *)

LEMMA Slots ==
  ASSUME NEW p \in User, NEW q \in User, NEW r \in User, p # q, p # r
  PROVE  /\ Slot(p, q) \in 0 .. (N - 2)
         /\ Slot(p, q) = Slot(p, r) => q = r
         /\ Slot(p, q) < Slot(p, r) => q < r
BY NAssumption DEF Slot, User

(* A process is at the first peer it has not made both connections with *)
LEMMA Current ==
  ASSUME NEW p \in User, at[p] \in 0 .. 2 * (N - 1), NEW q \in User, p # q, Made(p, q) < 2
  PROVE  /\ ~Connected(p)
         /\ PeerOf(p) \in User /\ PeerOf(p) # p
         /\ PeerOf(p) <= q
         /\ PeerOf(p) = q => (IsFirst(p) <=> Made(p, q) = 0)
<1> DEFINE s == Slot(p, q)
<1>1. s \in 0 .. (N - 2)
  BY Slots
<1>2. at[p] < 2 * s + 2
  BY <1>1 DEF Made
<1> HIDE DEF s
<1>3. ~Connected(p)
  BY <1>1, <1>2, NAssumption DEF Connected
<1>4. PeerOf(p) \in User /\ PeerOf(p) # p
  BY <1>3, PeerRange
<1> DEFINE t == Slot(p, PeerOf(p))
<1>5. t \in 0 .. (N - 2) /\ (IF IsFirst(p) THEN at[p] = 2 * t ELSE at[p] = 2 * t + 1)
  BY <1>3, <1>4, PeerRange, Slots
<1> HIDE DEF t
<1>6. t <= s
  BY <1>1, <1>2, <1>5
<1>7. PeerOf(p) <= q
  <2>1. t = s => PeerOf(p) = q
    BY <1>4, Slots DEF s, t
  <2>2. t < s => PeerOf(p) < q
    BY <1>4, Slots DEF s, t
  <2> QED BY <2>1, <2>2, <1>1, <1>4, <1>5, <1>6 DEF User
<1>8. PeerOf(p) = q => (IsFirst(p) <=> Made(p, q) = 0)
  <2> SUFFICES ASSUME PeerOf(p) = q
               PROVE  IsFirst(p) <=> Made(p, q) = 0
    OBVIOUS
  <2>1. t = s
    BY DEF s, t
  <2>2. Made(p, q) = at[p] - 2 * s
    BY <2>1, <1>1, <1>5 DEF Made, s
  <2> QED BY <2>1, <2>2, <1>1, <1>5
<1> QED BY <1>3, <1>4, <1>7, <1>8

(* A process that is at a peer has not made both connections with it *)
LEMMA AtPeer ==
  ASSUME NEW p \in User, at[p] \in 0 .. 2 * (N - 1), ~Connected(p)
  PROVE  Made(p, PeerOf(p)) = IF IsFirst(p) THEN 0 ELSE 1
<1> DEFINE t == Slot(p, PeerOf(p))
<1>1. t \in 0 .. (N - 2) /\ (IF IsFirst(p) THEN at[p] = 2 * t ELSE at[p] = 2 * t + 1)
  BY PeerRange, Slots
<1>2. Made(p, PeerOf(p)) = LET k == at[p] - 2 * t IN IF k < 0 THEN 0 ELSE IF k > 2 THEN 2 ELSE k
  BY DEF Made
<1> HIDE DEF t
<1> QED BY <1>1, <1>2

(* One connection more changes the count for the peer it is at, only *)
LEMMA MadeStep ==
  ASSUME NEW p \in User, at[p] \in 0 .. 2 * (N - 1), ~Connected(p),
         at'[p] = at[p] + 1, NEW q \in User, q # p
  PROVE  Made(p, q)' = IF q = PeerOf(p) THEN Made(p, q) + 1 ELSE Made(p, q)
<1> DEFINE s == Slot(p, q)
           t == Slot(p, PeerOf(p))
           a == at[p]
           b == at'[p]
<1>1. PeerOf(p) \in User /\ PeerOf(p) # p /\ (a = 2 * t \/ a = 2 * t + 1)
  BY PeerRange
<1>2. s \in Int /\ t \in Int /\ (s = t => q = PeerOf(p))
  BY <1>1, Slots
<1>3. q = PeerOf(p) => s = t
  OBVIOUS
<1>4. /\ Made(p, q) = LET k == a - 2 * s IN IF k < 0 THEN 0 ELSE IF k > 2 THEN 2 ELSE k
      /\ Made(p, q)' = LET k == b - 2 * s IN IF k < 0 THEN 0 ELSE IF k > 2 THEN 2 ELSE k
  BY DEF Made, Slot
<1>5. b = a + 1
  OBVIOUS
<1> HIDE DEF s, t, a, b
<1>6. CASE q = PeerOf(p)
  BY <1>1, <1>2, <1>3, <1>4, <1>5, <1>6
<1>7. CASE q # PeerOf(p)
  <2>1. s < t \/ s > t
    BY <1>2, <1>7
  <2> QED BY <2>1, <1>1, <1>2, <1>4, <1>5, <1>7
<1> QED BY <1>6, <1>7

-------------------------------------------------------------------------------
(* Paired is kept *)

LEMMA ListenPairs ==
  ASSUME LInv, NEW p \in User, Listen(p)
  PROVE  Paired'
<1>1. UNCHANGED <<port, at, queue>> /\ p \notin listening
  BY DEF Listen, MayListen
<1>2. queue[p] = << >>
  BY <1>1 DEF LInv, HInv, Dialled
<1>3. \A r \in User \ {p} : r \in listening' <=> r \in listening
  BY DEF Listen
<1> SUFFICES ASSUME NEW r \in User, NEW q \in User, r # q, IsServer(r, q)'
             PROVE  Made(q, r)' = Made(r, q)' + (IF Waiting(r, q)' THEN 1 ELSE 0)
  BY DEF Paired
<1>4. IsServer(r, q)
  BY <1>1 DEF IsServer, PortOf
<1>5. Made(q, r)' = Made(q, r) /\ Made(r, q)' = Made(r, q)
  BY <1>1 DEF Made, Slot
<1>6. Waiting(r, q)' <=> Waiting(r, q)
  BY <1>1, <1>2, <1>3 DEF Waiting, PeerOf, Peer
<1> QED BY <1>4, <1>5, <1>6 DEF LInv, Paired

LEMMA AcceptPairs ==
  ASSUME LInv, NEW p \in User, Accept(p)
  PROVE  Paired'
<1> USE DEF LInv, HInv
<1>1. p \in listening /\ queue[p] # << >>
  BY DEF Accept, MayAccept
<1>2. at[p] \in 0 .. 2 * (N - 1) /\ ~Connected(p) /\ IsServer(p, PeerOf(p))
  BY <1>1 DEF HTypeOK, Running
<1>3. PeerOf(p) \in User /\ PeerOf(p) # p
  BY <1>2, PeerRange
<1>4. /\ at'[p] = at[p] + 1 /\ queue'[p] = << >>
      /\ \A r \in User \ {p} : at'[r] = at[r] /\ queue'[r] = queue[r]
      /\ \A r \in User \ {p} : r \in listening' <=> r \in listening
      /\ port' = port
  BY DEF Accept, HTypeOK
<1> SUFFICES ASSUME NEW r \in User, NEW q \in User, r # q, IsServer(r, q)'
             PROVE  Made(q, r)' = Made(r, q)' + (IF Waiting(r, q)' THEN 1 ELSE 0)
  BY DEF Paired
<1>5. IsServer(r, q)
  BY <1>4 DEF IsServer, PortOf
<1>6. Made(q, r) = Made(r, q) + (IF Waiting(r, q) THEN 1 ELSE 0)
  BY <1>5 DEF Paired
<1>7. CASE r = p
  <2>1. ~Waiting(r, q)'
    BY <1>4, <1>7 DEF Waiting
  <2>2. Made(q, r)' = Made(q, r)
    BY <1>4, <1>7 DEF Made, Slot
  <2>3. Made(r, q)' = IF q = PeerOf(p) THEN Made(r, q) + 1 ELSE Made(r, q)
    BY <1>2, <1>4, <1>7, MadeStep
  <2>4. Waiting(r, q) <=> q = PeerOf(p)
    BY <1>1, <1>7 DEF Waiting
  <2>5. Made(r, q) \in Int
    BY <1>7, Slots DEF Made, HTypeOK
  <2> QED BY <2>1, <2>2, <2>3, <2>4, <2>5, <1>6
<1>8. CASE r # p
  <2>1. Waiting(r, q)' <=> Waiting(r, q)
    BY <1>4, <1>8 DEF Waiting, PeerOf, Peer
  <2>2. Made(r, q)' = Made(r, q)
    BY <1>4, <1>8 DEF Made, Slot
  <2>3. Made(q, r)' = Made(q, r)
    <3>1. CASE q = p
      <4>1. r # PeerOf(p)
        BY <3>1, <1>2, <1>3, <1>5, OneServer DEF HTypeOK
      <4> QED BY <4>1, <3>1, <1>2, <1>4, <1>8, MadeStep
    <3>2. CASE q # p
      BY <3>2, <1>4 DEF Made, Slot
    <3> QED BY <3>1, <3>2
  <2> QED BY <2>1, <2>2, <2>3, <1>6
<1> QED BY <1>7, <1>8

LEMMA DialPairs ==
  ASSUME LInv, NEW p \in User, Dial(p)
  PROVE  Paired'
<1> USE DEF LInv, HInv
<1>1. PICK s \in listening : /\ Target(s) = Target(p)
                             /\ queue' = [queue EXCEPT ![s] = Append(@, End(p))]
  BY DEF Dial, Listeners
<1>2. /\ s \in User /\ ~Connected(s) /\ IsServer(s, PeerOf(s))
      /\ at[s] \in 0 .. 2 * (N - 1)
  BY DEF HTypeOK, Running
<1>3. ~Connected(p) /\ ~IsServer(p, PeerOf(p)) /\ at[p] \in 0 .. 2 * (N - 1)
  BY DEF Dial, MayDial, Running, HTypeOK
<1>4. p # s
  BY <1>2, <1>3
<1>5. PeerOf(p) = s /\ PeerOf(s) = p /\ (IsFirst(p) <=> IsFirst(s))
  BY <1>1, <1>2, <1>3, <1>4, Meeting DEF HTypeOK
<1>6. /\ at'[p] = at[p] + 1 /\ queue'[s] # << >>
      /\ \A r \in User \ {p} : at'[r] = at[r]
      /\ \A r \in User \ {s} : queue'[r] = queue[r]
      /\ port' = port /\ listening' = listening
  <2>1. queue \in [User -> Seq(AllEnds)] /\ at \in [User -> 0 .. 2 * (N - 1)]
    BY DEF HTypeOK
  <2>2. queue'[s] = Append(queue[s], End(p)) /\ queue[s] \in Seq(AllEnds)
    BY <2>1, <1>1, <1>2
  <2> QED BY <2>1, <2>2, <1>1 DEF Dial
<1>7. Made(s, p) = Made(p, s)
  BY <1>2, <1>3, <1>5, AtPeer
<1>8. ~Waiting(s, p)
  <2>1. Made(p, s) = Made(s, p) + (IF Waiting(s, p) THEN 1 ELSE 0)
    BY <1>2, <1>4, <1>5 DEF Paired
  <2>2. Made(s, p) \in Int
    BY <1>2, <1>5, AtPeer
  <2> QED BY <2>1, <2>2, <1>7
<1> SUFFICES ASSUME NEW r \in User, NEW q \in User, r # q, IsServer(r, q)'
             PROVE  Made(q, r)' = Made(r, q)' + (IF Waiting(r, q)' THEN 1 ELSE 0)
  BY DEF Paired
<1>9. IsServer(r, q)
  BY <1>6 DEF IsServer, PortOf
<1>10. Made(q, r) = Made(r, q) + (IF Waiting(r, q) THEN 1 ELSE 0)
  BY <1>9 DEF Paired
<1>11. Made(r, q)' = Made(r, q)
  <2>1. CASE r = p
    <3>1. q # PeerOf(p)
      BY <2>1, <1>3, <1>9
    <3> QED BY <3>1, <2>1, <1>3, <1>6, MadeStep
  <2>2. CASE r # p
    BY <2>2, <1>6 DEF Made, Slot
  <2> QED BY <2>1, <2>2
<1>12. CASE r = s /\ q = p
  <2>1. Waiting(r, q)'
    <3>1. PeerOf(s)' = PeerOf(s)
      BY <1>2, <1>4, <1>6 DEF PeerOf, Peer
    <3> QED BY <3>1, <1>5, <1>6, <1>12 DEF Waiting
  <2>2. Made(q, r)' = Made(q, r) + 1
    BY <1>3, <1>5, <1>6, <1>12, MadeStep
  <2> QED BY <2>1, <2>2, <1>7, <1>11, <1>12
<1>13. CASE ~(r = s /\ q = p)
  <2>1. Made(q, r)' = Made(q, r)
    <3>1. CASE q = p
      BY <3>1, <1>3, <1>5, <1>6, <1>13, MadeStep
    <3>2. CASE q # p
      BY <3>2, <1>6 DEF Made, Slot
    <3> QED BY <3>1, <3>2
  <2>2. Waiting(r, q)' <=> Waiting(r, q)
    <3>1. CASE r = p
      BY <3>1, <1>3, <1>6 DEF Waiting, HTypeOK
    <3>2. CASE r = s
      BY <3>2, <1>4, <1>5, <1>6, <1>13 DEF Waiting, PeerOf, Peer
    <3>3. CASE r # p /\ r # s
      BY <3>3, <1>6 DEF Waiting, PeerOf, Peer
    <3> QED BY <3>1, <3>2, <3>3
  <2> QED BY <2>1, <2>2, <1>10, <1>11
<1> QED BY <1>12, <1>13

LEMMA PairsKept == HSpec => []LInv
<1>1. HInit => Paired
  <2> SUFFICES ASSUME HInit, NEW p \in User, NEW q \in User, p # q
               PROVE  Made(p, q) = 0 /\ ~Waiting(p, q)
    BY DEF Paired
  <2>1. at[p] = 0 /\ Slot(p, q) \in 0 .. (N - 2)
    BY Slots DEF HInit
  <2> QED BY <2>1 DEF HInit, Made, Waiting
<1>2. LInv /\ [HNext]_hvars => Paired'
  <2> SUFFICES ASSUME LInv, [HNext]_hvars
               PROVE  Paired'
    OBVIOUS
  <2>1. ASSUME NEW p \in User, HStep(p)
        PROVE  Paired'
    BY <2>1, ListenPairs, AcceptPairs, DialPairs DEF HStep
  <2>2. CASE UNCHANGED hvars
    BY <2>2 DEF hvars, LInv, Paired, Made, Waiting, Slot, IsServer, PortOf, PeerOf, Peer
  <2> QED BY <2>1, <2>2 DEF HNext, Constructed
<1> QED BY <1>1, <1>2, Inductive, PTL DEF HSpec, LInv

-------------------------------------------------------------------------------
(* Nobody waits in vain *)

(* The peer of a process that cannot go on has not finished with it, and   *)
(* is at this process or an earlier one.                                   *)
LEMMA Behind ==
  ASSUME LInv, NEW p \in User, ~Connected(p), ~MayGoOn(p)
  PROVE  LET q == PeerOf(p)
         IN  /\ q \in User /\ q # p /\ ~Connected(q)
             /\ PeerOf(q) \in User /\ PeerOf(q) # q /\ PeerOf(q) <= p
<1> USE DEF LInv, HInv
<1> DEFINE q == PeerOf(p)
<1>1. at[p] \in 0 .. 2 * (N - 1) /\ q \in User /\ q # p
  BY PeerRange DEF HTypeOK
<1>2. Made(p, q) \in 0 .. 1
  BY <1>1, AtPeer
<1>3. at[q] \in 0 .. 2 * (N - 1)
  BY <1>1 DEF HTypeOK
<1>4. Made(q, p) \in Int
  BY <1>1, <1>3, Slots DEF Made
<1>5. Made(q, p) < 2
  <2>1. CASE IsServer(p, q)
    <3>1. Made(q, p) = Made(p, q) + (IF Waiting(p, q) THEN 1 ELSE 0)
      BY <2>1, <1>1 DEF Paired
    <3>2. ~Waiting(p, q)
      BY DEF Waiting, MayGoOn, MayAccept
    <3> QED BY <3>1, <3>2, <1>2
  <2>2. CASE IsServer(q, p)
    <3>1. Made(p, q) = Made(q, p) + (IF Waiting(q, p) THEN 1 ELSE 0)
      BY <2>2, <1>1 DEF Paired
    <3> QED BY <3>1, <1>2, <1>4
  <2> QED BY <2>1, <2>2, <1>1, OneServer DEF HTypeOK
<1> QED BY <1>1, <1>3, <1>5, Current

(* Of two processes that are at each other, one can go on. *)
LEMMA FaceToFace ==
  ASSUME LInv, NEW p \in User, NEW q \in User, ~Connected(p), ~Connected(q),
         PeerOf(p) = q, PeerOf(q) = p, IsServer(p, q)
  PROVE  MayGoOn(p) \/ MayGoOn(q)
<1> USE DEF LInv, HInv
<1>1. /\ at[p] \in 0 .. 2 * (N - 1) /\ at[q] \in 0 .. 2 * (N - 1)
      /\ p # q /\ Running(p) /\ Running(q)
  BY PeerRange DEF HTypeOK, Running, NoClash
<1>2. CASE p \notin listening
  BY <1>1, <1>2 DEF MayGoOn, MayListen
<1>3. CASE queue[p] # << >>
  BY <1>3 DEF MayGoOn, MayAccept, Dialled
<1>4. CASE p \in listening /\ queue[p] = << >>
  <2>1. Made(q, p) = Made(p, q) + (IF Waiting(p, q) THEN 1 ELSE 0)
    BY <1>1 DEF Paired
  <2>2. Made(p, q) = (IF IsFirst(p) THEN 0 ELSE 1) /\ Made(q, p) = (IF IsFirst(q) THEN 0 ELSE 1)
    BY <1>1, AtPeer
  <2>3. IsFirst(p) <=> IsFirst(q)
    BY <2>1, <2>2, <1>4 DEF Waiting
  <2>4. ~IsServer(q, p)
    BY <1>1, OneServer DEF HTypeOK
  <2>5. Target(p) = Target(q)
    BY <2>3, <2>4 DEF Target
  <2> QED BY <2>4, <2>5, <1>1, <1>4 DEF MayGoOn, MayDial, Listeners
<1> QED BY <1>2, <1>3, <1>4

(* Until all have their connections somebody can listen, accept or dial:   *)
(* take the smallest process some pair is held up at, and its peer.        *)
LEMMA SomebodyGoesOn == LInv => NeverStuck
<1> SUFFICES ASSUME LInv, ~AllConnected, \A p \in User : ~MayGoOn(p)
             PROVE  FALSE
  BY DEF NeverStuck
<1> DEFINE Open == { p \in User : ~Connected(p) }
           Low(p) == IF PeerOf(p) < p THEN PeerOf(p) ELSE p
           Lows == { Low(p) : p \in Open }
<1>1. \A p \in Open : /\ PeerOf(p) \in Open /\ PeerOf(p) # p
                      /\ PeerOf(PeerOf(p)) \in User /\ PeerOf(PeerOf(p)) # PeerOf(p)
                      /\ PeerOf(PeerOf(p)) <= p
  BY Behind
<1>2. Open # {} /\ \A p \in Open : p \in User
  BY DEF AllConnected
<1>3. \A p \in User : p \in Nat
  BY DEF User
<1> HIDE DEF Open
<1>4. Lows \subseteq Nat /\ Lows # {}
  BY <1>1, <1>2, <1>3
<1>5. PICK p \in Open : \A k \in Lows : Low(p) <= k
  <2>1. \E m \in Lows : \A k \in Lows : m <= k
    BY <1>4, Smallest
  <2> QED BY <2>1
<1> DEFINE m == Low(p)
<1>6. m \in Open /\ \A k \in Open : m <= Low(k)
  BY <1>1, <1>5
<1> HIDE DEF m
<1>7. m \in Nat /\ PeerOf(m) \in Nat /\ PeerOf(m) \in Open /\ m < PeerOf(m)
  BY <1>1, <1>2, <1>3, <1>6
<1>8. PeerOf(PeerOf(m)) = m
  <2> DEFINE r == PeerOf(m)
             s == PeerOf(r)
  <2>1. r \in Open /\ s \in Nat /\ s <= m /\ r \in Nat /\ m < r
    BY <1>1, <1>2, <1>3, <1>6, <1>7
  <2>2. m <= Low(r)
    BY <2>1, <1>6
  <2>3. Low(r) = s
    BY <2>1, <1>7
  <2> QED BY <2>1, <2>2, <2>3, <1>7
<1>9. m \in User /\ PeerOf(m) \in User /\ ~Connected(m) /\ ~Connected(PeerOf(m)) /\ m # PeerOf(m)
  BY <1>2, <1>6, <1>7 DEF Open
<1>10. IsServer(m, PeerOf(m)) \/ IsServer(PeerOf(m), m)
  BY <1>9, OneServer DEF LInv, HInv, HTypeOK
<1> QED BY <1>8, <1>9, <1>10, FaceToFace

(* The handshake never comes to a halt before everybody is connected,      *)
(* whatever the number of processes and their numbers: a server in accept  *)
(* and the client that dials it go through their peers in one order.       *)
THEOREM NoDeadlock == HSpec => []NeverStuck
<1> QED BY PairsKept, SomebodyGoesOn, PTL

-------------------------------------------------------------------------------
(* Recursion over the first n numbers *)

Recurs(f, n, S, a, g) ==
  f \in [0 .. n -> S] /\ f[0] = a /\ \A k \in 1 .. n : f[k] = g[k][f[k - 1]]

LEMMA Recursion ==
  ASSUME NEW n \in Nat, NEW S, NEW a \in S, NEW g \in [1 .. n -> [S -> S]]
  PROVE  \E f : Recurs(f, n, S, a, g)
<1> DEFINE A(m, f) == f[0] = a /\ \A k \in 1 .. m : f[k] = g[k][f[k - 1]]
           P == { m \in Nat : m <= n => \E f \in [0 .. m -> S] : A(m, f) }
<1>1. 0 \in P
  <2> DEFINE f == [k \in 0 .. 0 |-> a]
  <2>1. f \in [0 .. 0 -> S] /\ A(0, f)
    OBVIOUS
  <2> QED BY <2>1
<1>2. ASSUME NEW m \in Nat, m \in P
      PROVE  m + 1 \in P
  <2> SUFFICES ASSUME m + 1 <= n PROVE \E f \in [0 .. (m + 1) -> S] : A(m + 1, f)
    OBVIOUS
  <2>1. m <= n /\ m + 1 \in 1 .. n
    OBVIOUS
  <2>2. PICK f \in [0 .. m -> S] : A(m, f)
    BY <1>2, <2>1
  <2>3. m \in 0 .. m /\ f[m] \in S /\ g[m + 1] \in [S -> S]
    BY <2>1
  <2>4. g[m + 1][f[m]] \in S
    BY <2>3
  <2> DEFINE h == [k \in 0 .. (m + 1) |-> IF k = m + 1 THEN g[m + 1][f[m]] ELSE f[k]]
  <2>5. \A k \in 0 .. (m + 1) : k # m + 1 => k \in 0 .. m
    OBVIOUS
  <2>6. h \in [0 .. (m + 1) -> S]
    BY <2>4, <2>5
  <2>7. h[0] = a /\ h[m + 1] = g[m + 1][f[m]] /\ h[m] = f[m]
    BY <2>2
  <2>8. ASSUME NEW k \in 1 .. m
        PROVE  h[k] = g[k][h[k - 1]]
    <3>1. k # m + 1 /\ k - 1 # m + 1 /\ k \in 0 .. (m + 1) /\ k - 1 \in 0 .. (m + 1)
      OBVIOUS
    <3>2. h[k] = f[k] /\ h[k - 1] = f[k - 1]
      BY <3>1
    <3> HIDE DEF h
    <3> QED BY <3>2, <2>2
  <2>9. \A k \in 1 .. (m + 1) : k \in 1 .. m \/ (k = m + 1 /\ k - 1 = m)
    OBVIOUS
  <2> HIDE DEF h
  <2>10. A(m + 1, h)
    BY <2>7, <2>8, <2>9
  <2> QED BY <2>6, <2>10
<1> HIDE DEF P
<1>3. n \in P
  BY <1>1, <1>2, CountUp
<1> QED BY <1>3 DEF P, Recurs

-------------------------------------------------------------------------------
(* The tags of a call *)

(* How many of the first k steps count, and whether there are any *)
LEMMA TagsAre ==
  ASSUME NEW c, c \in Seq(Range(c)), NEW ops, NEW q, NEW T,
         \A k \in 1 .. Len(c) : c[k].tag \in T
  PROVE  /\ Tags(c, ops, q) \in Seq(T)
         /\ Tags(c, ops, q) # << >> <=> \E k \in 1 .. Len(c) : c[k].op \in ops /\ c[k].peer = q
<1> DEFINE n == Len(c)
           M(k) == c[k].op \in ops /\ c[k].peer = q
           E(f, k) == IF k = 0 THEN << >> ELSE IF M(k) THEN Append(f[k - 1], c[k].tag) ELSE f[k - 1]
           R(f) == f = [k \in 0 .. n |-> E(f, k)]
           F == CHOOSE f : R(f)
           g == [k \in 1 .. n |-> [s \in Seq(T) |-> IF M(k) THEN Append(s, c[k].tag) ELSE s]]
<1>1. n \in Nat /\ << >> \in Seq(T)
  OBVIOUS
<1>2. g \in [1 .. n -> [Seq(T) -> Seq(T)]]
  <2>1. ASSUME NEW k \in 1 .. n, NEW s \in Seq(T)
        PROVE  (IF M(k) THEN Append(s, c[k].tag) ELSE s) \in Seq(T)
    <3>1. c[k].tag \in T
      OBVIOUS
    <3> HIDE DEF M
    <3> QED BY <3>1
  <2> HIDE DEF M, n
  <2> QED BY <2>1
<1>3. PICK f \in [0 .. n -> Seq(T)] : f[0] = << >> /\ \A k \in 1 .. n : f[k] = g[k][f[k - 1]]
  <2> DEFINE a == << >>
             S == Seq(T)
  <2>1. a \in S /\ n \in Nat
    BY <1>1
  <2>2. g \in [1 .. n -> [S -> S]]
    BY <1>2
  <2>3. \E f : Recurs(f, n, S, a, g)
    <3> HIDE DEF g, n, a, S
    <3> QED BY <2>1, <2>2, Recursion
  <2> QED BY <2>3 DEF Recurs
<1>4. R(f)
  <2>1. ASSUME NEW k \in 1 .. n
        PROVE  f[k] = E(f, k)
    <3>1. k - 1 \in 0 .. n /\ k # 0
      BY <1>1
    <3>2. f[k - 1] \in Seq(T)
      BY <3>1
    <3>3. g[k][f[k - 1]] = IF M(k) THEN Append(f[k - 1], c[k].tag) ELSE f[k - 1]
      <4> HIDE DEF M, n
      <4> QED BY <3>2
    <3> HIDE DEF g, M
    <3> QED BY <1>3, <3>1, <3>3
  <2>2. f[0] = E(f, 0)
    BY <1>3
  <2>3. \A k \in 0 .. n : k = 0 \/ k \in 1 .. n
    BY <1>1
  <2>4. \A k \in 0 .. n : f[k] = E(f, k)
    <3> HIDE DEF E
    <3> QED BY <2>1, <2>2, <2>3
  <2> HIDE DEF E, n
  <2> QED BY <2>4
<1>5. R(F)
  <2> HIDE DEF R
  <2> QED BY <1>4
<1>6. Tags(c, ops, q) = F[n]
  BY DEF Tags
<1>7. \A k \in 0 .. n : F[k] = E(F, k)
  <2> DEFINE G == F
  <2>1. G = [k \in 0 .. n |-> E(F, k)]
    BY <1>5
  <2> HIDE DEF G, n
  <2>2. \A k \in 0 .. n : G[k] = E(F, k)
    BY <2>1
  <2> QED BY <2>2 DEF G
<1> HIDE DEF F
<1> DEFINE Good(k) == F[k] \in Seq(T) /\ (F[k] # << >> <=> \E j \in 1 .. k : M(j))
           P == { k \in Nat : k <= n => Good(k) }
<1>8. 0 \in P
  <2>1. F[0] = << >>
    BY <1>1, <1>7
  <2>2. ~ \E j \in 1 .. 0 : M(j)
    OBVIOUS
  <2>3. Good(0)
    <3> HIDE DEF M
    <3> QED BY <1>1, <2>1, <2>2
  <2> HIDE DEF Good
  <2> QED BY <2>3
<1>9. ASSUME NEW k \in Nat, k \in P
      PROVE  k + 1 \in P
  <2> SUFFICES ASSUME k + 1 <= n PROVE Good(k + 1)
    OBVIOUS
  <2>1. k <= n /\ k + 1 \in 0 .. n /\ k + 1 # 0 /\ (k + 1) - 1 = k /\ k + 1 \in 1 .. n
    BY <1>1
  <2>2. Good(k)
    BY <1>9, <2>1
  <2>3. F[k + 1] = IF M(k + 1) THEN Append(F[k], c[k + 1].tag) ELSE F[k]
    <3> HIDE DEF M
    <3> QED BY <1>7, <2>1
  <2>4. c[k + 1].tag \in T
    BY <2>1
  <2>5. \A j \in 1 .. (k + 1) : j \in 1 .. k \/ j = k + 1
    OBVIOUS
  <2>6. k + 1 \in 1 .. (k + 1) /\ \A j \in 1 .. k : j \in 1 .. (k + 1)
    OBVIOUS
  <2>7. CASE M(k + 1)
    <3>1. F[k + 1] \in Seq(T) /\ F[k + 1] # << >>
      <4> DEFINE s == F[k]
                 x == c[k + 1].tag
      <4>1. s \in Seq(T) /\ x \in T
        BY <2>2, <2>4
      <4>2. F[k + 1] = Append(s, x)
        BY <2>3, <2>7
      <4> HIDE DEF s, x
      <4>3. Append(s, x) \in Seq(T) /\ Append(s, x) # << >>
        BY <4>1
      <4> QED BY <4>2, <4>3
    <3> HIDE DEF M
    <3> QED BY <3>1, <2>6, <2>7
  <2>8. CASE ~M(k + 1)
    <3> HIDE DEF M
    <3> QED BY <2>2, <2>3, <2>5, <2>6, <2>8
  <2> QED BY <2>7, <2>8
<1>10. n \in P
  <2> HIDE DEF P
  <2> QED BY <1>1, <1>8, <1>9, CountUp
<1>11. Good(n)
  BY <1>1, <1>10
<1> QED BY <1>6, <1>11

(* The tags of the programs *)
Tag == UNION { UNION { { Calls[p][k][j].tag : j \in 1 .. Len(Calls[p][k]) }
                       : k \in 1 .. Len(Calls[p]) } : p \in Proc }

LEMMA CallIs ==
  ASSUME NEW p \in Proc
  PROVE  Len(Calls[p]) \in Nat /\ \A k \in 1 .. Len(Calls[p]) : IsCall(Calls[p][k])
<1>1. Calls[p] = Program(p)
  BY DEF Calls
<1>2. Program(p) \in Seq(Range(Program(p))) /\ \A k \in 1 .. Len(Program(p)) : IsCall(Program(p)[k])
  BY ProgramAssumption
<1>3. Len(Program(p)) \in Nat
  BY <1>2
<1> QED BY <1>1, <1>2, <1>3

Concerns(c, ops, q) == \E j \in 1 .. Len(c) : c[j].op \in ops /\ c[j].peer = q

LEMMA CallTags ==
  ASSUME NEW p \in Proc, NEW k \in 1 .. Len(Calls[p]), NEW ops, NEW q
  PROVE  /\ Tags(Calls[p][k], ops, q) \in Seq(Tag)
         /\ Tags(Calls[p][k], ops, q) # << >> <=> Concerns(Calls[p][k], ops, q)
<1> DEFINE c == Calls[p][k]
<1>1. c \in Seq(Range(c))
  BY CallIs DEF IsCall
<1>2. \A j \in 1 .. Len(c) : c[j].tag \in Tag
  BY DEF Tag
<1> HIDE DEF c
<1>3. /\ Tags(c, ops, q) \in Seq(Tag)
      /\ Tags(c, ops, q) # << >> <=> \E j \in 1 .. Len(c) : c[j].op \in ops /\ c[j].peer = q
  BY <1>1, <1>2, TagsAre
<1> QED BY <1>3 DEF c, Concerns

-------------------------------------------------------------------------------
(* The flush mode, and the groups of messages between flushes *)

(* The flush mode after each call of a program *)
LEMMA ModeIs ==
  ASSUME NEW p \in Proc
  PROVE  /\ Mode(p)[0] = IsFlush
         /\ \A k \in 1 .. Len(Calls[p]) : Mode(p)[k] = ModeNext(p, k, Mode(p)[k - 1])
         /\ \A k \in 0 .. Len(Calls[p]) : Mode(p)[k] \in BOOLEAN
<1> DEFINE n == Len(Calls[p])
           E(f, k) == IF k = 0 THEN IsFlush ELSE ModeNext(p, k, f[k - 1])
           R(f) == f = [k \in 0 .. n |-> E(f, k)]
           F == CHOOSE f : R(f)
           g == [k \in 1 .. n |-> [m \in BOOLEAN |-> ModeNext(p, k, m)]]
<1>1. n \in Nat /\ IsFlush \in BOOLEAN
  BY CallIs, IsFlushAssumption
<1>2. ASSUME NEW k \in 1 .. n, NEW m \in BOOLEAN
      PROVE  ModeNext(p, k, m) \in BOOLEAN
  <2> DEFINE c == Calls[p][k]
  <2>1. IsCall(c)
    BY CallIs
  <2>2. c # << >> /\ c \in Seq(Range(c))
    BY <2>1 DEF IsCall
  <2>3. 1 \in 1 .. Len(c)
    <3> HIDE DEF c
    <3> QED BY <2>2
  <2>4. c[1].op = "set_flush" => c[1].value \in BOOLEAN
    <3> HIDE DEF c
    <3> QED BY <2>1, <2>3 DEF IsCall, IsStep, Receives
  <2> QED BY <2>4 DEF ModeNext
<1>3. g \in [1 .. n -> [BOOLEAN -> BOOLEAN]]
  <2> HIDE DEF n
  <2> QED BY <1>2
<1>4. PICK f : Recurs(f, n, BOOLEAN, IsFlush, g)
  <2> HIDE DEF g, n
  <2> QED BY <1>1, <1>3, Recursion
<1>5. f \in [0 .. n -> BOOLEAN] /\ f[0] = IsFlush /\ \A k \in 1 .. n : f[k] = g[k][f[k - 1]]
  BY <1>4 DEF Recurs
<1>6. \A k \in 1 .. n : f[k - 1] \in BOOLEAN /\ f[k] = ModeNext(p, k, f[k - 1])
  <2> TAKE k \in 1 .. n
  <2>1. k - 1 \in 0 .. n
    BY <1>1
  <2>2. f[k - 1] \in BOOLEAN
    BY <1>5, <2>1
  <2>3. g[k][f[k - 1]] = ModeNext(p, k, f[k - 1])
    BY <2>2
  <2> QED BY <2>2, <2>3, <1>5
<1>7. \A h : (h \in [0 .. n -> BOOLEAN] /\ h[0] = IsFlush /\ \A k \in 1 .. n : h[k] = ModeNext(p, k, h[k - 1]))
             => R(h)
  <2> TAKE h
  <2> HAVE h \in [0 .. n -> BOOLEAN] /\ h[0] = IsFlush /\ \A k \in 1 .. n : h[k] = ModeNext(p, k, h[k - 1])
  <2>1. \A k \in 0 .. n : k = 0 \/ (k \in 1 .. n /\ k # 0)
    BY <1>1
  <2>2. \A k \in 0 .. n : h[k] = E(h, k)
    BY <2>1
  <2> HIDE DEF E, n
  <2> QED BY <2>2
<1>8. R(F)
  <2>1. R(f)
    <3> HIDE DEF R
    <3> QED BY <1>5, <1>6, <1>7
  <2> HIDE DEF R
  <2> QED BY <2>1
<1>9. Mode(p) = F
  BY DEF Mode
<1>10. \A k \in 0 .. n : F[k] = E(F, k)
  <2> DEFINE G == F
  <2>1. G = [k \in 0 .. n |-> E(F, k)]
    BY <1>8
  <2> HIDE DEF G, n
  <2>2. \A k \in 0 .. n : G[k] = E(F, k)
    BY <2>1
  <2> QED BY <2>2 DEF G
<1> HIDE DEF F
<1>11. F[0] = IsFlush /\ \A k \in 1 .. n : F[k] = ModeNext(p, k, F[k - 1])
  <2>1. \A k \in 1 .. n : k \in 0 .. n /\ k # 0
    OBVIOUS
  <2> QED BY <1>1, <1>10, <2>1
<1>12. \A k \in 0 .. n : F[k] \in BOOLEAN
  <2> DEFINE P == { k \in Nat : k <= n => F[k] \in BOOLEAN }
  <2>1. 0 \in P
    BY <1>1, <1>11
  <2>2. ASSUME NEW k \in Nat, k \in P
        PROVE  k + 1 \in P
    <3> SUFFICES ASSUME k + 1 <= n PROVE F[k + 1] \in BOOLEAN
      OBVIOUS
    <3>1. k <= n /\ k + 1 \in 1 .. n /\ (k + 1) - 1 = k
      BY <1>1
    <3>2. F[k] \in BOOLEAN
      BY <2>2, <3>1
    <3> QED BY <1>2, <1>11, <3>1, <3>2
  <2> HIDE DEF P
  <2>3. \A k \in Nat : k \in P
    BY <2>1, <2>2, CountUp
  <2>4. \A k \in 0 .. n : k \in Nat /\ k <= n
    BY <1>1
  <2> QED BY <2>3, <2>4 DEF P
<1> QED BY <1>9, <1>11, <1>12

Group == [past : Seq(Seq(Tag)), now : Seq(Tag)]

LEMMA GroupIs ==
  ASSUME NEW p \in Proc, NEW k \in 1 .. Len(Calls[p]), NEW ops, NEW q, NEW g \in Group
  PROVE  GroupNext(p, ops, q, k, g) \in Group
<1> DEFINE tags == Tags(Calls[p][k], ops, q)
           now == g.now \o tags
<1>1. tags \in Seq(Tag)
  BY CallTags
<1>2. g.now \in Seq(Tag) /\ g.past \in Seq(Seq(Tag))
  BY DEF Group
<1>3. now \in Seq(Tag)
  <2> HIDE DEF tags
  <2> QED BY <1>1, <1>2
<1>4. Append(g.past, now) \in Seq(Seq(Tag)) /\ << >> \in Seq(Tag)
  <2> HIDE DEF now
  <2> QED BY <1>2, <1>3
<1>5. GroupNext(p, ops, q, k, g) = IF FlushesAt(p, k) /\ now # << >>
        THEN [past |-> Append(g.past, now), now |-> << >>] ELSE [past |-> g.past, now |-> now]
  BY DEF GroupNext
<1> HIDE DEF now
<1> QED BY <1>2, <1>3, <1>4, <1>5 DEF Group

(* The groups after each call of a program *)
LEMMA GroupsAre ==
  ASSUME NEW p \in Proc, NEW ops, NEW q
  PROVE  /\ Groups(p, ops, q)[0] = NoGroup
         /\ \A k \in 1 .. Len(Calls[p]) :
              Groups(p, ops, q)[k] = GroupNext(p, ops, q, k, Groups(p, ops, q)[k - 1])
         /\ \A k \in 0 .. Len(Calls[p]) : Groups(p, ops, q)[k] \in Group
<1> DEFINE n == Len(Calls[p])
           Nx(k, b) == GroupNext(p, ops, q, k, b)
           E(f, k) == IF k = 0 THEN NoGroup ELSE Nx(k, f[k - 1])
           R(f) == f = [k \in 0 .. n |-> E(f, k)]
           F == CHOOSE f : R(f)
           g == [k \in 1 .. n |-> [b \in Group |-> Nx(k, b)]]
<1>1. n \in Nat /\ NoGroup \in Group
  <2>1. << >> \in Seq(Tag) /\ << >> \in Seq(Seq(Tag))
    OBVIOUS
  <2> QED BY <2>1, CallIs DEF NoGroup, Group
<1>2. \A k \in 1 .. n : \A b \in Group : Nx(k, b) \in Group
  BY GroupIs
<1>9. Groups(p, ops, q) = F
  BY DEF Groups
<1> HIDE DEF Nx
<1>3. g \in [1 .. n -> [Group -> Group]]
  <2> HIDE DEF n
  <2> QED BY <1>2
<1>4. PICK f : Recurs(f, n, Group, NoGroup, g)
  <2> HIDE DEF g, n
  <2> QED BY <1>1, <1>3, Recursion
<1>5. f \in [0 .. n -> Group] /\ f[0] = NoGroup /\ \A k \in 1 .. n : f[k] = g[k][f[k - 1]]
  BY <1>4 DEF Recurs
<1>6. \A k \in 1 .. n : f[k - 1] \in Group /\ f[k] = Nx(k, f[k - 1])
  <2> TAKE k \in 1 .. n
  <2>1. k - 1 \in 0 .. n
    BY <1>1
  <2>2. f[k - 1] \in Group
    BY <1>5, <2>1
  <2>3. g[k][f[k - 1]] = Nx(k, f[k - 1])
    BY <2>2
  <2> QED BY <2>2, <2>3, <1>5
<1>8. R(F)
  <2>1. \A k \in 0 .. n : k = 0 \/ (k \in 1 .. n /\ k # 0)
    BY <1>1
  <2>2. \A k \in 0 .. n : f[k] = E(f, k)
    BY <1>5, <1>6, <2>1
  <2>3. R(f)
    <3> HIDE DEF E, n
    <3> QED BY <1>5, <2>2
  <2> HIDE DEF R
  <2> QED BY <2>3
<1>10. \A k \in 0 .. n : F[k] = E(F, k)
  <2> DEFINE G == F
  <2>1. G = [k \in 0 .. n |-> E(F, k)]
    BY <1>8
  <2> HIDE DEF G, n
  <2>2. \A k \in 0 .. n : G[k] = E(F, k)
    BY <2>1
  <2> QED BY <2>2 DEF G
<1> HIDE DEF F
<1>11. F[0] = NoGroup /\ \A k \in 1 .. n : F[k] = Nx(k, F[k - 1])
  <2>1. \A k \in 1 .. n : k \in 0 .. n /\ k # 0
    OBVIOUS
  <2> QED BY <1>1, <1>10, <2>1
<1>12. \A k \in 0 .. n : F[k] \in Group
  <2> DEFINE P == { k \in Nat : k <= n => F[k] \in Group }
  <2>1. 0 \in P
    BY <1>1, <1>11
  <2>2. ASSUME NEW k \in Nat, k \in P
        PROVE  k + 1 \in P
    <3> SUFFICES ASSUME k + 1 <= n PROVE F[k + 1] \in Group
      OBVIOUS
    <3>1. k <= n /\ k + 1 \in 1 .. n /\ (k + 1) - 1 = k
      BY <1>1
    <3>2. F[k] \in Group
      BY <2>2, <3>1
    <3> QED BY <1>2, <1>11, <3>1, <3>2
  <2> HIDE DEF P
  <2>3. \A k \in Nat : k \in P
    BY <2>1, <2>2, CountUp
  <2>4. \A k \in 0 .. n : k \in Nat /\ k <= n
    BY <1>1
  <2> QED BY <2>3, <2>4 DEF P
<1> QED BY <1>9, <1>11, <1>12 DEF Nx
-------------------------------------------------------------------------------
(* The groups of a program so far begin the groups of the whole program *)

Pre(s, t) == Len(s) <= Len(t) /\ \A i \in 1 .. Len(s) : s[i] = t[i]

(* The sequence of groups b begins with those of g *)
Begins(g, b) ==
  /\ Len(g.past) <= Len(b)
  /\ \A i \in 1 .. Len(g.past) : b[i] = g.past[i]
  /\ g.now # << >> => Len(g.past) + 1 <= Len(b) /\ Pre(g.now, b[Len(g.past) + 1])

LEMMA BeginsJoined == ASSUME NEW g \in Group PROVE Begins(g, Joined(g)) /\ Joined(g) \in Seq(Seq(Tag))
<1> DEFINE s == g.past
           x == g.now
<1>1. s \in Seq(Seq(Tag)) /\ x \in Seq(Tag)
  BY DEF Group
<1>2. Joined(g) = IF x = << >> THEN s ELSE Append(s, x)
  BY DEF Joined
<1> DEFINE J == Joined(g)
<1> SUFFICES /\ Len(s) <= Len(J)
             /\ \A i \in 1 .. Len(s) : J[i] = s[i]
             /\ x # << >> => Len(s) + 1 <= Len(J) /\ Pre(x, J[Len(s) + 1])
             /\ J \in Seq(Seq(Tag))
  BY DEF Begins
<1> HIDE DEF s, x, J
<1>3. Pre(x, x)
  BY <1>1 DEF Pre
<1>4. J = IF x = << >> THEN s ELSE Append(s, x)
  BY <1>2 DEF J
<1>5. CASE x = << >>
  BY <1>1, <1>4, <1>5
<1>6. CASE x # << >>
  <2>1. J = Append(s, x)
    BY <1>4, <1>6
  <2>2. Len(J) = Len(s) + 1 /\ J[Len(s) + 1] = x /\ J \in Seq(Seq(Tag)) /\ \A i \in 1 .. Len(s) : J[i] = s[i]
    BY <1>1, <2>1
  <2> QED BY <1>1, <1>3, <2>2
<1> QED BY <1>5, <1>6

LEMMA PreConcat ==
  ASSUME NEW s \in Seq(Tag), NEW t \in Seq(Tag), NEW u \in Seq(Tag), Pre(s \o t, u)
  PROVE  Pre(s, u) /\ (s # << >> => s \o t # << >>)
<1>1. Len(s \o t) = Len(s) + Len(t) /\ \A i \in 1 .. Len(s) : (s \o t)[i] = s[i]
  OBVIOUS
<1>2. Len(s) \in Nat /\ Len(t) \in Nat /\ Len(u) \in Nat
  OBVIOUS
<1>3. \A i \in 1 .. Len(s) : i \in 1 .. (Len(s) + Len(t))
  BY <1>2
<1>4. Pre(s, u)
  BY <1>1, <1>2, <1>3 DEF Pre
<1>5. s # << >> => Len(s) # 0
  OBVIOUS
<1>6. s \o t = << >> => Len(s \o t) = 0
  OBVIOUS
<1> QED BY <1>1, <1>2, <1>4, <1>5, <1>6

(* If b begins with the groups after a call, then with those before it *)
LEMMA BeginsBefore ==
  ASSUME NEW p \in Proc, NEW k \in 1 .. Len(Calls[p]), NEW ops, NEW q, NEW g \in Group,
         NEW b \in Seq(Seq(Tag)), Begins(GroupNext(p, ops, q, k, g), b)
  PROVE  Begins(g, b)
<1> DEFINE tags == Tags(Calls[p][k], ops, q)
           now == g.now \o tags
           h == GroupNext(p, ops, q, k, g)
           s == g.past
           x == g.now
           m == Len(s)
<1>1. tags \in Seq(Tag) /\ s \in Seq(Seq(Tag)) /\ x \in Seq(Tag)
  BY CallTags DEF Group
<1>2. h = IF FlushesAt(p, k) /\ now # << >>
            THEN [past |-> Append(s, now), now |-> << >>] ELSE [past |-> s, now |-> now]
  BY DEF GroupNext
<1>3. h \in Group
  BY GroupIs
<1>4. /\ Len(h.past) <= Len(b)
      /\ \A i \in 1 .. Len(h.past) : b[i] = h.past[i]
      /\ h.now # << >> => Len(h.past) + 1 <= Len(b) /\ Pre(h.now, b[Len(h.past) + 1])
  BY DEF Begins
<1>5. now = x \o tags
  OBVIOUS
<1> SUFFICES /\ m <= Len(b)
             /\ \A i \in 1 .. m : b[i] = s[i]
             /\ x # << >> => m + 1 <= Len(b) /\ Pre(x, b[m + 1])
  BY DEF Begins
<1> HIDE DEF tags, now, h, s, x
<1>6. now \in Seq(Tag) /\ (x # << >> => now # << >>)
  BY <1>1, <1>5
<1>7. m \in Nat /\ Len(b) \in Nat
  BY <1>1
<1>8. CASE FlushesAt(p, k) /\ now # << >>
  <2>1. h.past = Append(s, now)
    BY <1>2, <1>8
  <2>2. Len(h.past) = m + 1 /\ h.past[m + 1] = now /\ \A i \in 1 .. m : h.past[i] = s[i]
    BY <1>1, <1>6, <2>1
  <2>3. m + 1 \in 1 .. (m + 1) /\ \A i \in 1 .. m : i \in 1 .. (m + 1)
    BY <1>7
  <2>4. m + 1 <= Len(b) /\ b[m + 1] = now /\ \A i \in 1 .. m : b[i] = s[i]
    BY <1>4, <2>2, <2>3
  <2>5. Pre(now, now)
    BY <1>6 DEF Pre
  <2>6. Pre(x, now)
    BY <1>1, <1>5, <1>6, <2>5, PreConcat
  <2> QED BY <1>7, <2>4, <2>6
<1>9. CASE ~(FlushesAt(p, k) /\ now # << >>)
  <2>1. h.past = s /\ h.now = now
    BY <1>2, <1>9
  <2>2. x # << >> => m + 1 <= Len(b) /\ Pre(now, b[m + 1])
    BY <1>4, <1>6, <2>1
  <2>3. m + 1 <= Len(b) => b[m + 1] \in Seq(Tag)
    BY <1>7
  <2>4. x # << >> => Pre(x, b[m + 1])
    BY <1>1, <1>5, <2>2, <2>3, PreConcat
  <2> QED BY <1>4, <2>1, <2>2, <2>4
<1> QED BY <1>8, <1>9

LEMMA GroupsBegin ==
  ASSUME NEW p \in Proc, NEW ops, NEW q, NEW j \in 0 .. Len(Calls[p])
  PROVE  Begins(Groups(p, ops, q)[j], Joined(Groups(p, ops, q)[Len(Calls[p])]))
<1> DEFINE n == Len(Calls[p])
           G == Groups(p, ops, q)
           b == Joined(G[n])
           P == { m \in Nat : m <= n => Begins(G[n - m], b) }
<1>1. n \in Nat /\ n \in 0 .. n
  BY CallIs
<1>2. \A k \in 0 .. n : G[k] \in Group
  BY GroupsAre
<1>3. b \in Seq(Seq(Tag)) /\ Begins(G[n], b)
  BY <1>1, <1>2, BeginsJoined
<1>4. 0 \in P
  <2>1. n - 0 = n
    BY <1>1
  <2> HIDE DEF G, b, n
  <2> QED BY <1>3, <2>1
<1>5. ASSUME NEW m \in Nat, m \in P
      PROVE  m + 1 \in P
  <2> SUFFICES ASSUME m + 1 <= n PROVE Begins(G[n - (m + 1)], b)
    OBVIOUS
  <2>1. m <= n /\ n - m \in 1 .. n /\ n - m - 1 = n - (m + 1) /\ n - (m + 1) \in 0 .. n
    BY <1>1
  <2>2. G[n - m] = GroupNext(p, ops, q, n - m, G[n - m - 1])
    BY <2>1, GroupsAre
  <2>3. Begins(G[n - m], b)
    BY <1>5, <2>1
  <2>4. G[n - (m + 1)] \in Group
    BY <1>2, <2>1
  <2> DEFINE g == G[n - (m + 1)]
             k == n - m
  <2>5. k \in 1 .. Len(Calls[p]) /\ g \in Group /\ Begins(GroupNext(p, ops, q, k, g), b)
    BY <2>1, <2>2, <2>3, <2>4
  <2> HIDE DEF g, k, b, G, n
  <2>6. Begins(g, b)
    BY <1>3, <2>5, BeginsBefore
  <2> QED BY <2>6 DEF g
<1> HIDE DEF P
<1>6. \A m \in Nat : m \in P
  BY <1>4, <1>5, CountUp
<1>7. n - j \in Nat /\ n - j <= n /\ n - (n - j) = j
  BY <1>1
<1>8. Begins(G[n - (n - j)], b)
  BY <1>6, <1>7 DEF P
<1>9. Begins(G[j], b)
  <2> HIDE DEF G, b, n
  <2> QED BY <1>7, <1>8
<1> QED BY <1>9
-------------------------------------------------------------------------------
(* What the calls are *)

LEMMA TransferCall ==
  ASSUME NEW p \in Proc, NEW k \in 1 .. Len(Calls[p]), IsTransfer(Calls[p][k])
  PROVE  /\ RecvPeers(Calls[p][k]) \subseteq Proc
         /\ \A q : q \in RecvPeers(Calls[p][k]) <=> Tags(Calls[p][k], Receives, q) # << >>
         /\ Calls[p][k][1].op # "flush" /\ Calls[p][k][1].op # "set_flush"
<1> DEFINE c == Calls[p][k]
<1>1. IsCall(c)
  BY CallIs
<1>2. c[1].op # "flush" /\ c[1].op # "set_flush"
  BY DEF IsTransfer, Receives
<1>3. \A j \in 1 .. Len(c) : c[j].peer \in Proc
  BY <1>1, <1>2 DEF IsCall, IsStep
<1>4. \A q : q \in RecvPeers(c) <=> Concerns(c, Receives, q)
  <2> HIDE DEF c
  <2>1. \A q : q \in RecvPeers(c) <=> \E j \in { i \in 1 .. Len(c) : c[i].op \in Receives } : q = c[j].peer
    BY DEF RecvPeers
  <2> QED BY <2>1 DEF Concerns
<1>5. \A q : Tags(c, Receives, q) # << >> <=> Concerns(c, Receives, q)
  BY CallTags
<1>6. RecvPeers(c) \subseteq Proc
  <2> HIDE DEF c
  <2> QED BY <1>3, <1>4 DEF Concerns
<1> QED BY <1>2, <1>4, <1>5, <1>6

(* A flush_all or set_flush moves no message *)
LEMMA QuietCall ==
  ASSUME NEW p \in Proc, NEW k \in 1 .. Len(Calls[p]), Calls[p][k][1].op \in {"flush", "set_flush"},
         NEW ops \in {{"send"}, Receives}, NEW q
  PROVE  Tags(Calls[p][k], ops, q) = << >>
<1> DEFINE c == Calls[p][k]
<1>1. IsCall(c)
  BY CallIs
<1>2. c # << >> /\ c \in Seq(Range(c))
  BY <1>1 DEF IsCall
<1>3. 1 \in 1 .. Len(c)
  <2> HIDE DEF c
  <2> QED BY <1>2
<1>4. c[1].op \notin ops /\ ~IsStep(c[1])
  BY DEF Receives, IsStep
<1>5. Len(c) = 1
  <2> HIDE DEF c
  <2> QED BY <1>1, <1>3, <1>4 DEF IsCall
<1>6. ~Concerns(c, ops, q)
  <2> HIDE DEF c
  <2> QED BY <1>4, <1>5 DEF Concerns
<1> QED BY <1>6, CallTags

-------------------------------------------------------------------------------
(* Types *)

TInv ==
  /\ pc \in [Proc -> Nat] /\ \A p \in Proc : pc[p] <= Len(Calls[p])
  /\ isFlush \in [Proc -> BOOLEAN]
  /\ out \in [Proc -> [Proc -> Seq(Tag)]]
  /\ todo \in [Proc -> SUBSET Proc]
  /\ wire \in [Proc -> [Proc -> Seq(Seq(Tag))]]
  /\ \A p, q \in Proc : Len(wire[p][q]) <= Cap
  /\ open \in [Proc -> SUBSET Proc]
  /\ rest \in [Proc -> [Proc -> Seq(Tag)]]
  /\ dropped \in BOOLEAN

LEMMA TInvInit == Init => TInv
<1> SUFFICES ASSUME Init PROVE TInv
  OBVIOUS
<1>1. << >> \in Seq(Tag) /\ << >> \in Seq(Seq(Tag)) /\ Len(<< >>) = 0 /\ 0 <= Cap
  BY CapAssumption
<1>2. \A p \in Proc : 0 <= Len(Calls[p])
  BY CallIs
<1>3. pc \in [Proc -> Nat] /\ (\A p \in Proc : pc[p] <= Len(Calls[p])) /\ isFlush \in [Proc -> BOOLEAN]
  BY <1>2, IsFlushAssumption DEF Init
<1>4. out \in [Proc -> [Proc -> Seq(Tag)]] /\ rest \in [Proc -> [Proc -> Seq(Tag)]]
  BY <1>1 DEF Init, Pairs
<1>5. wire \in [Proc -> [Proc -> Seq(Seq(Tag))]] /\ \A p, q \in Proc : Len(wire[p][q]) <= Cap
  BY <1>1 DEF Init, Pairs
<1>6. todo \in [Proc -> SUBSET Proc] /\ open \in [Proc -> SUBSET Proc] /\ dropped \in BOOLEAN
  BY DEF Init
<1> QED BY <1>3, <1>4, <1>5, <1>6 DEF TInv

(* The next call of a process that is between two calls *)
LEMMA AtCallIs ==
  ASSUME TInv, NEW p \in Proc, AtCall(p)
  PROVE  /\ pc[p] \in 0 .. Len(Calls[p]) /\ pc[p] + 1 \in 1 .. Len(Calls[p]) /\ pc[p] + 1 - 1 = pc[p]
         /\ Call(p) = Calls[p][pc[p] + 1] /\ todo[p] = {}
<1>1. Len(Calls[p]) \in Nat /\ pc[p] \in Nat /\ pc[p] < Len(Calls[p]) /\ todo[p] = {}
  BY CallIs DEF TInv, AtCall
<1> QED BY <1>1 DEF Call

(* What a process has read of a block, and what is left of it *)
Left(p, c) ==
  [q \in Proc |-> IF q \notin RecvPeers(c) THEN rest[p][q]
                  ELSE SubSeq(Block(p, q), Len(Tags(c, Receives, q)) + 1, Len(Block(p, q)))]
Sending(p, c) == [q \in Proc |-> out[p][q] \o Tags(c, {"send"}, q)]

LEMMA TransferIs ==
  ASSUME NEW p \in Proc, Transfer(p)
  PROVE  /\ AtCall(p) /\ IsTransfer(Call(p))
         /\ \A q \in RecvPeers(Call(p)) : Readable(p, q)
         /\ out' = [out EXCEPT ![p] = Sending(p, Call(p))]
         /\ wire' = [r \in Proc |-> [wire[r] EXCEPT ![p] =
                       IF r \in RecvPeers(Call(p)) \ open[p] THEN Tail(@) ELSE @]]
         /\ IF FlushesAfter(isFlush[p], Call(p))
              THEN /\ Discard(p, Left(p, Call(p)))
                   /\ todo' = [todo EXCEPT ![p] = { q \in Proc : Sending(p, Call(p))[q] # << >> }]
              ELSE /\ open' = [open EXCEPT ![p] = @ \cup RecvPeers(Call(p))]
                   /\ rest' = [rest EXCEPT ![p] = Left(p, Call(p))]
                   /\ UNCHANGED <<todo, dropped>>
         /\ pc' = [pc EXCEPT ![p] = @ + 1]
         /\ isFlush' = isFlush
BY DEF Transfer, MayCall, Left, Sending

(* A block a process can read from is a sequence of tags *)
LEMMA BlockIs ==
  ASSUME TInv, NEW p \in Proc, NEW q \in Proc, Readable(p, q)
  PROVE  Block(p, q) \in Seq(Tag) /\ (q \notin open[p] => wire[q][p] # << >>)
<1>1. rest[p][q] \in Seq(Tag) /\ wire[q][p] \in Seq(Seq(Tag))
  BY DEF TInv
<1>2. CASE q \in open[p]
  BY <1>1, <1>2 DEF Block
<1>3. CASE q \notin open[p]
  <2>1. wire[q][p] # << >> /\ Block(p, q) = Head(wire[q][p])
    BY <1>3 DEF Readable, Block
  <2> DEFINE w == wire[q][p]
  <2>2. w \in Seq(Seq(Tag)) /\ w # << >>
    BY <1>1, <2>1
  <2> HIDE DEF w
  <2>3. Head(w) \in Seq(Tag)
    BY <2>2
  <2> QED BY <2>1, <2>3 DEF w
<1> QED BY <1>2, <1>3

LEMMA LeftIs ==
  ASSUME TInv, NEW p \in Proc, AtCall(p), IsTransfer(Call(p)), \A q \in RecvPeers(Call(p)) : Readable(p, q)
  PROVE  Left(p, Call(p)) \in [Proc -> Seq(Tag)] /\ Sending(p, Call(p)) \in [Proc -> Seq(Tag)]
<1> DEFINE c == Call(p)
<1>1. pc[p] + 1 \in 1 .. Len(Calls[p]) /\ c = Calls[p][pc[p] + 1]
  BY AtCallIs
<1>2. \A ops, q : Tags(c, ops, q) \in Seq(Tag)
  BY <1>1, CallTags
<1>3. rest \in [Proc -> [Proc -> Seq(Tag)]] /\ out \in [Proc -> [Proc -> Seq(Tag)]]
  BY DEF TInv
<1>4. ASSUME NEW q \in Proc, q \in RecvPeers(c)
      PROVE  SubSeq(Block(p, q), Len(Tags(c, Receives, q)) + 1, Len(Block(p, q))) \in Seq(Tag)
  <2> DEFINE b == Block(p, q)
             t == Tags(c, Receives, q)
  <2>1. b \in Seq(Tag) /\ t \in Seq(Tag)
    BY <1>2, <1>4, BlockIs
  <2> HIDE DEF b, t
  <2>2. SubSeq(b, Len(t) + 1, Len(b)) \in Seq(Tag)
    BY <2>1
  <2> QED BY <2>2 DEF b, t
<1>5. ASSUME NEW q \in Proc
      PROVE  out[p][q] \o Tags(c, {"send"}, q) \in Seq(Tag)
  <2> DEFINE b == out[p][q]
             t == Tags(c, {"send"}, q)
  <2>1. b \in Seq(Tag) /\ t \in Seq(Tag)
    BY <1>2, <1>3
  <2> HIDE DEF b, t
  <2>2. b \o t \in Seq(Tag)
    BY <2>1
  <2> QED BY <2>2 DEF b, t
<1> HIDE DEF c
<1>6. Left(p, c) \in [Proc -> Seq(Tag)]
  BY <1>3, <1>4 DEF Left
<1>7. Sending(p, c) \in [Proc -> Seq(Tag)]
  BY <1>5 DEF Sending
<1> QED BY <1>6, <1>7 DEF c
LEMMA DiscardIs ==
  ASSUME TInv, NEW p \in Proc, NEW u, Discard(p, u)
  PROVE  /\ open' \in [Proc -> SUBSET Proc] /\ rest' \in [Proc -> [Proc -> Seq(Tag)]]
         /\ dropped' \in BOOLEAN
<1>1. << >> \in Seq(Tag)
  OBVIOUS
<1>2. [q \in Proc |-> << >>] \in [Proc -> Seq(Tag)]
  BY <1>1
<1>3. rest' \in [Proc -> [Proc -> Seq(Tag)]]
  BY <1>2 DEF Discard, TInv
<1>4. open' \in [Proc -> SUBSET Proc]
  BY DEF Discard, TInv
<1>5. dropped' \in BOOLEAN
  BY DEF Discard, TInv
<1> QED BY <1>3, <1>4, <1>5

LEMMA TransferType == ASSUME TInv, NEW p \in Proc, Transfer(p) PROVE TInv'
<1> DEFINE c == Call(p)
           from == RecvPeers(c)
           pop == from \ open[p]
           left == Left(p, c)
           sending == Sending(p, c)
<1>1. AtCall(p) /\ IsTransfer(c) /\ \A q \in from : Readable(p, q)
  BY TransferIs
<1>2. pc[p] + 1 \in 1 .. Len(Calls[p]) /\ c = Calls[p][pc[p] + 1]
  BY <1>1, AtCallIs
<1>3. from \subseteq Proc
  BY <1>1, <1>2, TransferCall
<1>4. left \in [Proc -> Seq(Tag)] /\ sending \in [Proc -> Seq(Tag)]
  BY <1>1, LeftIs
<1>5. /\ out' = [out EXCEPT ![p] = sending]
      /\ wire' = [r \in Proc |-> [wire[r] EXCEPT ![p] = IF r \in pop THEN Tail(@) ELSE @]]
      /\ pc' = [pc EXCEPT ![p] = @ + 1]
      /\ isFlush' = isFlush
  BY TransferIs
<1>6. IF FlushesAfter(isFlush[p], c)
        THEN Discard(p, left) /\ todo' = [todo EXCEPT ![p] = { q \in Proc : sending[q] # << >> }]
        ELSE /\ open' = [open EXCEPT ![p] = @ \cup from]
             /\ rest' = [rest EXCEPT ![p] = left]
             /\ UNCHANGED <<todo, dropped>>
  BY TransferIs
<1>7. \A q \in pop : wire[q][p] # << >>
  BY <1>1, <1>3, BlockIs
<1>8. pop \subseteq Proc
  BY <1>3
<1> HIDE DEF c, from, pop, left, sending
<1>9. pc' \in [Proc -> Nat] /\ \A q \in Proc : pc'[q] <= Len(Calls[q])
  BY <1>2, <1>5, CallIs DEF TInv
<1>10. out' \in [Proc -> [Proc -> Seq(Tag)]]
  BY <1>4, <1>5 DEF TInv
<1>11. ASSUME NEW r \in Proc, NEW q \in Proc
       PROVE  wire'[r][q] \in Seq(Seq(Tag)) /\ Len(wire'[r][q]) <= Cap
  <2> DEFINE w == wire[r][q]
  <2>1. w \in Seq(Seq(Tag)) /\ Len(w) <= Cap /\ Cap \in Nat
    BY CapAssumption DEF TInv
  <2>2. wire'[r][q] = IF q = p /\ r \in pop THEN Tail(w) ELSE w
    BY <1>5 DEF TInv
  <2>3. q = p /\ r \in pop => w # << >>
    BY <1>7
  <2> HIDE DEF w
  <2>4. w # << >> => Tail(w) \in Seq(Seq(Tag)) /\ Len(Tail(w)) <= Cap
    BY <2>1
  <2> QED BY <2>1, <2>2, <2>3, <2>4
<1>12. wire' \in [Proc -> [Proc -> Seq(Seq(Tag))]]
  <2> DEFINE x(r) == [wire[r] EXCEPT ![p] = IF r \in pop THEN Tail(@) ELSE @]
  <2>1. \A r \in Proc : wire'[r] = x(r)
    BY <1>5
  <2>2. \A r \in Proc : DOMAIN wire'[r] = Proc /\ x(r) = [q \in Proc |-> wire'[r][q]]
    BY <2>1 DEF TInv
  <2> HIDE DEF x
  <2>3. \A r \in Proc : x(r) \in [Proc -> Seq(Seq(Tag))]
    BY <1>11, <2>2
  <2>4. wire' = [r \in Proc |-> x(r)]
    BY <1>5 DEF x
  <2> QED BY <2>3, <2>4
<1>13. CASE FlushesAfter(isFlush[p], c)
  <2>1. Discard(p, left) /\ todo' = [todo EXCEPT ![p] = { q \in Proc : sending[q] # << >> }]
    BY <1>6, <1>13
  <2>2. todo' \in [Proc -> SUBSET Proc]
    BY <2>1 DEF TInv
  <2>3. isFlush' \in [Proc -> BOOLEAN]
    BY <1>5 DEF TInv
  <2> QED BY <1>9, <1>10, <1>11, <1>12, <2>1, <2>2, <2>3, DiscardIs DEF TInv
<1>14. CASE ~FlushesAfter(isFlush[p], c)
  <2>1. open' = [open EXCEPT ![p] = @ \cup from] /\ rest' = [rest EXCEPT ![p] = left] /\ UNCHANGED <<todo, dropped>>
    BY <1>6, <1>14
  <2>2. open' \in [Proc -> SUBSET Proc] /\ rest' \in [Proc -> [Proc -> Seq(Tag)]]
    BY <1>3, <1>4, <2>1 DEF TInv
  <2>3. todo' \in [Proc -> SUBSET Proc] /\ dropped' \in BOOLEAN /\ isFlush' \in [Proc -> BOOLEAN]
    BY <1>5, <2>1 DEF TInv
  <2> QED BY <1>9, <1>10, <1>11, <1>12, <2>2, <2>3 DEF TInv
<1> QED BY <1>13, <1>14

LEMMA FlushType == ASSUME TInv, NEW p \in Proc, Flush(p) PROVE TInv'
<1>1. /\ AtCall(p) /\ Discard(p, rest[p])
      /\ todo' = [todo EXCEPT ![p] = { q \in Proc : out[p][q] # << >> }]
      /\ pc' = [pc EXCEPT ![p] = @ + 1]
      /\ UNCHANGED <<isFlush, out, wire>>
  BY DEF Flush, MayCall
<1>2. pc[p] + 1 \in 1 .. Len(Calls[p])
  BY <1>1, AtCallIs
<1>3. pc' \in [Proc -> Nat] /\ \A q \in Proc : pc'[q] <= Len(Calls[q])
  BY <1>1, <1>2, CallIs DEF TInv
<1>4. todo' \in [Proc -> SUBSET Proc]
  BY <1>1 DEF TInv
<1>5. /\ isFlush' \in [Proc -> BOOLEAN] /\ out' \in [Proc -> [Proc -> Seq(Tag)]]
      /\ wire' \in [Proc -> [Proc -> Seq(Seq(Tag))]] /\ \A r, q \in Proc : Len(wire'[r][q]) <= Cap
  BY <1>1 DEF TInv
<1> QED BY <1>1, <1>3, <1>4, <1>5, DiscardIs DEF TInv

LEMMA SetModeType == ASSUME TInv, NEW p \in Proc, SetMode(p) PROVE TInv'
<1>1. /\ AtCall(p) /\ Call(p)[1].op = "set_flush"
      /\ isFlush' = [isFlush EXCEPT ![p] = Call(p)[1].value]
      /\ pc' = [pc EXCEPT ![p] = @ + 1]
      /\ UNCHANGED <<out, todo, wire, open, rest, dropped>>
  BY DEF SetMode, MayCall
<1>2. pc[p] \in 0 .. Len(Calls[p]) /\ pc[p] + 1 \in 1 .. Len(Calls[p]) /\ Call(p) = Calls[p][pc[p] + 1] /\ pc[p] + 1 - 1 = pc[p]
  BY <1>1, AtCallIs
<1>3. pc' \in [Proc -> Nat] /\ \A q \in Proc : pc'[q] <= Len(Calls[q])
  BY <1>1, <1>2, CallIs DEF TInv
<1>4. Call(p)[1].value \in BOOLEAN
  <2> DEFINE k == pc[p] + 1
  <2>1. k \in 1 .. Len(Calls[p]) /\ k \in 0 .. Len(Calls[p])
    BY <1>2, CallIs
  <2>2. Mode(p)[k] = ModeNext(p, k, Mode(p)[k - 1]) /\ Mode(p)[k] \in BOOLEAN
    BY <2>1, ModeIs
  <2>3. Calls[p][k][1].op = "set_flush" /\ Call(p) = Calls[p][k]
    BY <1>1, <1>2
  <2> HIDE DEF k
  <2> QED BY <2>2, <2>3 DEF ModeNext
<1>5. isFlush' \in [Proc -> BOOLEAN]
  BY <1>1, <1>4 DEF TInv
<1> QED BY <1>1, <1>3, <1>5 DEF TInv

LEMMA FlushPeerIs ==
  ASSUME NEW p \in Proc, FlushPeer(p)
  PROVE  \E q \in Proc : /\ q \in todo[p]
                        /\ Len(wire[p][q]) < Cap
                        /\ wire' = [wire EXCEPT ![p][q] = Append(@, out[p][q])]
                        /\ out' = [out EXCEPT ![p][q] = << >>]
                        /\ todo' = [todo EXCEPT ![p] = @ \ {q}]
                        /\ UNCHANGED <<pc, isFlush, open, rest, dropped>>
<1>1. PICK k \in DOMAIN Processes :
        /\ Processes[k] \in todo[p]
        /\ Len(wire[p][Processes[k]]) < Cap
        /\ wire' = [wire EXCEPT ![p][Processes[k]] = Append(@, out[p][Processes[k]])]
        /\ out' = [out EXCEPT ![p][Processes[k]] = << >>]
        /\ todo' = [todo EXCEPT ![p] = @ \ {Processes[k]}]
  BY DEF FlushPeer, FlushInto, MayWrite
<1>2. UNCHANGED <<pc, isFlush, open, rest, dropped>>
  BY DEF FlushPeer, FlushInto, MayWrite
<1>3. PICK q : q = Processes[k]
  OBVIOUS
<1>4. q \in Proc
  BY <1>3, ProcessesAssumption
<1>5. /\ q \in todo[p]
      /\ Len(wire[p][q]) < Cap
      /\ wire' = [wire EXCEPT ![p][q] = Append(@, out[p][q])]
      /\ out' = [out EXCEPT ![p][q] = << >>]
      /\ todo' = [todo EXCEPT ![p] = @ \ {q}]
  BY <1>1, <1>3
<1> QED BY <1>2, <1>4, <1>5

LEMMA FlushPeerType == ASSUME TInv, NEW p \in Proc, FlushPeer(p) PROVE TInv'
<1>1. PICK q \in Proc : /\ q \in todo[p]
                        /\ Len(wire[p][q]) < Cap
                        /\ wire' = [wire EXCEPT ![p][q] = Append(@, out[p][q])]
                        /\ out' = [out EXCEPT ![p][q] = << >>]
                        /\ todo' = [todo EXCEPT ![p] = @ \ {q}]
                        /\ UNCHANGED <<pc, isFlush, open, rest, dropped>>
  BY FlushPeerIs
<1>2. todo' \in [Proc -> SUBSET Proc]
  BY <1>1 DEF TInv
<1>3. out' \in [Proc -> [Proc -> Seq(Tag)]]
  <2>1. << >> \in Seq(Tag)
    OBVIOUS
  <2> QED BY <1>1, <2>1 DEF TInv
<1>4. Append(wire[p][q], out[p][q]) \in Seq(Seq(Tag)) /\ Len(Append(wire[p][q], out[p][q])) <= Cap
  <2> DEFINE w == wire[p][q]
             o == out[p][q]
  <2>1. w \in Seq(Seq(Tag)) /\ o \in Seq(Tag) /\ Len(w) < Cap /\ Cap \in Nat
    BY <1>1, CapAssumption DEF TInv
  <2> HIDE DEF w, o
  <2>2. Append(w, o) \in Seq(Seq(Tag)) /\ Len(Append(w, o)) = Len(w) + 1
    BY <2>1
  <2>3. Len(w) \in Nat
    BY <2>1
  <2>4. Append(w, o) \in Seq(Seq(Tag)) /\ Len(Append(w, o)) <= Cap
    BY <2>1, <2>2, <2>3
  <2> QED BY <2>4 DEF w, o
<1>5. wire' \in [Proc -> [Proc -> Seq(Seq(Tag))]] /\ \A r, s \in Proc : Len(wire'[r][s]) <= Cap
  <2> DEFINE a == Append(wire[p][q], out[p][q])
  <2>1. wire' = [wire EXCEPT ![p] = [@ EXCEPT ![q] = a]]
    BY <1>1
  <2>2. a \in Seq(Seq(Tag)) /\ Len(a) <= Cap
    BY <1>4
  <2> HIDE DEF a
  <2> QED BY <2>1, <2>2 DEF TInv
<1>6. /\ pc' \in [Proc -> Nat] /\ \A r \in Proc : pc'[r] <= Len(Calls[r])
      /\ isFlush' \in [Proc -> BOOLEAN] /\ open' \in [Proc -> SUBSET Proc]
      /\ rest' \in [Proc -> [Proc -> Seq(Tag)]] /\ dropped' \in BOOLEAN
  BY <1>1 DEF TInv
<1> QED BY <1>2, <1>3, <1>5, <1>6 DEF TInv

LEMMA TInvStep == TInv /\ [Next]_vars => TInv'
<1> SUFFICES ASSUME TInv, [Next]_vars PROVE TInv'
  OBVIOUS
<1>1. CASE UNCHANGED vars
  BY <1>1 DEF vars, TInv
<1>2. ASSUME NEW p \in Proc, Step(p) PROVE TInv'
  BY <1>2, TransferType, FlushType, FlushPeerType, SetModeType DEF Step
<1>3. CASE Terminated
  BY <1>1, <1>3 DEF Terminated
<1> QED BY <1>1, <1>2, <1>3 DEF Next

LEMMA TInvAlways == Spec => []TInv
<1>1. Init => TInv
  BY TInvInit
<1>2. TInv /\ [Next]_vars => TInv'
  BY TInvStep
<1> QED BY <1>1, <1>2, PTL DEF Spec

(* Whatever calls the processes make: no socket ever holds more than it has *)
(* room for, no process runs past the end of its program, and flush_all     *)
(* writes to processes only.                                                *)
THEOREM ChannelTypes == Spec => []TypeOK
<1>1. TInv => TypeOK
  <2> SUFFICES ASSUME TInv PROVE TypeOK
    OBVIOUS
  <2>1. \A p \in Proc : pc[p] \in 0 .. Len(Calls[p])
    BY CallIs DEF TInv
  <2> QED BY <2>1 DEF TInv, TypeOK
<1> QED BY <1>1, TInvAlways, PTL
-------------------------------------------------------------------------------
(* Programs that match *)

LEMMA MatchedIs ==
  ASSUME Matched, NEW p \in Proc, NEW q \in Proc
  PROVE  /\ Batches(p, q) \in Seq(Seq(Tag))
         /\ Puts(p, q)[Len(Calls[p])].now = << >>
         /\ Batches(p, q) = Joined(Gets(q, p)[Len(Calls[q])])
<1>1. Puts(p, q)[Len(Calls[p])].now = << >> /\ Batches(p, q) = Joined(Gets(q, p)[Len(Calls[q])])
  BY DEF Matched, Batches
<1>2. Len(Calls[p]) \in 0 .. Len(Calls[p])
  BY CallIs
<1>3. Puts(p, q)[Len(Calls[p])] \in Group
  BY <1>2, GroupsAre DEF Puts
<1> QED BY <1>1, <1>3 DEF Batches, Group

LEMMA PutsBegin ==
  ASSUME Matched, NEW p \in Proc, NEW q \in Proc, NEW k \in 0 .. Len(Calls[p])
  PROVE  Begins(Puts(p, q)[k], Batches(p, q))
<1>1. Batches(p, q) = Joined(Puts(p, q)[Len(Calls[p])])
  BY MatchedIs DEF Batches, Joined
<1> QED BY <1>1, GroupsBegin DEF Puts

LEMMA GetsBegin ==
  ASSUME Matched, NEW p \in Proc, NEW q \in Proc, NEW k \in 0 .. Len(Calls[q])
  PROVE  Begins(Gets(q, p)[k], Batches(p, q))
<1>1. Batches(p, q) = Joined(Gets(q, p)[Len(Calls[q])])
  BY MatchedIs
<1> QED BY <1>1, GroupsBegin DEF Gets

LEMMA SameSeq ==
  ASSUME NEW s \in Seq(Tag), NEW t \in Seq(Tag), Len(s) = Len(t), \A i \in 1 .. Len(s) : s[i] = t[i]
  PROVE  s = t
OBVIOUS

Joins(z, x, t) == z = x \o t

LEMMA JoinsIs ==
  ASSUME NEW x \in Seq(Tag), NEW t \in Seq(Tag), NEW z, Joins(z, x, t)
  PROVE  /\ z \in Seq(Tag)
         /\ z = << >> <=> x = << >> /\ t = << >>
         /\ t = << >> => z = x
<1>1. z = x \o t
  BY DEF Joins
<1>2. z \in Seq(Tag) /\ Len(z) = Len(x) + Len(t) /\ Len(x) \in Nat /\ Len(t) \in Nat
  BY <1>1
<1>3. (z = << >> <=> Len(z) = 0) /\ (x = << >> <=> Len(x) = 0) /\ (t = << >> <=> Len(t) = 0)
  BY <1>2
<1>4. t = << >> => z = x
  BY <1>1
<1> QED BY <1>2, <1>3, <1>4

(* u is what follows the first n elements of b *)
Suffix(u, b, n) == u = SubSeq(b, n + 1, Len(b))

LEMMA WholeSeq == ASSUME NEW b \in Seq(Tag) PROVE SubSeq(b, 1, Len(b)) = b
OBVIOUS

LEMMA NothingLeft == ASSUME NEW b \in Seq(Tag) PROVE SubSeq(b, Len(b) + 1, Len(b)) = << >>
OBVIOUS

(* What is left after x and then t have been read off b *)
LEMMA ReadOn ==
  ASSUME NEW b \in Seq(Tag), NEW x \in Seq(Tag), NEW t \in Seq(Tag), NEW z, Joins(z, x, t), Pre(z, b),
         NEW u, Suffix(u, b, Len(x)), NEW y, Suffix(y, u, Len(t))
  PROVE  Suffix(y, b, Len(z)) /\ IsPrefix(t, u)
<1>0. z = x \o t /\ u = SubSeq(b, Len(x) + 1, Len(b)) /\ y = SubSeq(u, Len(t) + 1, Len(u)) /\ Pre(x \o t, b)
  BY DEF Joins, Suffix
<1>1. Len(x) \in Nat /\ Len(t) \in Nat /\ Len(b) \in Nat /\ Len(x \o t) = Len(x) + Len(t)
  OBVIOUS
<1>2. Len(x) + Len(t) <= Len(b)
  BY <1>0, <1>1 DEF Pre
<1>3. u \in Seq(Tag) /\ Len(u) = Len(b) - Len(x) /\ \A i \in 1 .. Len(u) : u[i] = b[Len(x) + i]
  BY <1>0, <1>1, <1>2
<1>4. \A i \in 1 .. Len(t) : t[i] = u[i]
  <2> TAKE i \in 1 .. Len(t)
  <2>1. Len(x) + i \in 1 .. Len(x \o t) /\ i \in 1 .. Len(u)
    BY <1>1, <1>2, <1>3
  <2>2. (x \o t)[Len(x) + i] = t[i]
    BY <1>1
  <2>3. (x \o t)[Len(x) + i] = b[Len(x) + i]
    BY <1>0, <2>1 DEF Pre
  <2> QED BY <1>3, <2>1, <2>2, <2>3
<1>5. IsPrefix(t, u)
  <2>1. Len(t) <= Len(u)
    BY <1>1, <1>2, <1>3
  <2>2. SubSeq(t, 1, Len(t)) = SubSeq(u, 1, Len(t))
    <3>1. SubSeq(t, 1, Len(t)) \in Seq(Tag) /\ Len(SubSeq(t, 1, Len(t))) = Len(t)
      BY <1>1
    <3>2. SubSeq(u, 1, Len(t)) \in Seq(Tag) /\ Len(SubSeq(u, 1, Len(t))) = Len(t)
      BY <1>1, <1>3, <2>1
    <3>3. \A i \in 1 .. Len(t) : SubSeq(t, 1, Len(t))[i] = SubSeq(u, 1, Len(t))[i]
      BY <1>1, <1>3, <1>4, <2>1
    <3> DEFINE v == SubSeq(t, 1, Len(t))
               w == SubSeq(u, 1, Len(t))
    <3>4. v \in Seq(Tag) /\ w \in Seq(Tag) /\ Len(v) = Len(w) /\ \A i \in 1 .. Len(v) : v[i] = w[i]
      BY <3>1, <3>2, <3>3
    <3> HIDE DEF v, w
    <3>5. v = w
      BY <3>4, SameSeq
    <3> QED BY <3>5 DEF v, w
  <2> QED BY <2>1, <2>2 DEF IsPrefix
<1>6. SubSeq(u, Len(t) + 1, Len(u)) = SubSeq(b, Len(x \o t) + 1, Len(b))
  <2> DEFINE v == SubSeq(u, Len(t) + 1, Len(u))
             w == SubSeq(b, Len(x) + Len(t) + 1, Len(b))
  <2>1. v \in Seq(Tag) /\ Len(v) = Len(b) - Len(x) - Len(t) /\ \A i \in 1 .. Len(v) : v[i] = u[Len(t) + i]
    BY <1>1, <1>2, <1>3
  <2>2. w \in Seq(Tag) /\ Len(w) = Len(b) - Len(x) - Len(t) /\ \A i \in 1 .. Len(w) : w[i] = b[Len(x) + Len(t) + i]
    BY <1>1, <1>2
  <2> HIDE DEF v, w
  <2>3. \A i \in 1 .. Len(v) : v[i] = w[i]
    <3> TAKE i \in 1 .. Len(v)
    <3>1. Len(t) + i \in 1 .. Len(u) /\ Len(x) + (Len(t) + i) = Len(x) + Len(t) + i /\ i \in 1 .. Len(w)
      BY <1>1, <1>2, <1>3, <2>1, <2>2
    <3> QED BY <1>3, <2>1, <2>2, <3>1
  <2>4. v = w
    BY <2>1, <2>2, <2>3, SameSeq
  <2> QED BY <1>1, <2>4 DEF v, w
<1> QED BY <1>0, <1>1, <1>5, <1>6 DEF Suffix
-------------------------------------------------------------------------------
(* One step of a program, seen from one end of a link *)

Grows(flush, g, now, h) ==
  /\ flush /\ now # << >> => /\ h.now = << >> /\ h.past # << >> /\ Len(h.past) = Len(g.past) + 1
                            /\ h.past[Len(g.past) + 1] = now
  /\ ~flush \/ now = << >> => h.now = now /\ h.past = g.past

LEMMA AppendIs ==
  ASSUME NEW s \in Seq(Seq(Tag)), NEW x \in Seq(Tag)
  PROVE  Append(s, x) # << >> /\ Len(Append(s, x)) = Len(s) + 1 /\ Append(s, x)[Len(s) + 1] = x
<1>1. Len(s) \in Nat
  OBVIOUS
<1>2. Len(Append(s, x)) = Len(s) + 1
  OBVIOUS
<1>3. Append(s, x)[Len(s) + 1] = x
  OBVIOUS
<1>4. Len(<< >>) = 0
  OBVIOUS
<1>5. Append(s, x) # << >>
  BY <1>1, <1>2, <1>4
<1> QED BY <1>2, <1>3, <1>5

(* The groups after a call, from those before it and what the call adds *)
LEMMA GroupMoves ==
  ASSUME NEW p \in Proc, NEW k \in 1 .. Len(Calls[p]), NEW ops, NEW q, NEW g \in Group,
         NEW t, t = Tags(Calls[p][k], ops, q), NEW now, Joins(now, g.now, t),
         NEW h, h = GroupNext(p, ops, q, k, g)
  PROVE  Grows(FlushesAt(p, k), g, now, h)
<1> DEFINE s == g.past
           x == g.now
<1>1. s \in Seq(Seq(Tag)) /\ x \in Seq(Tag) /\ t \in Seq(Tag)
  BY CallTags DEF Group
<1>2. h = IF FlushesAt(p, k) /\ now # << >>
            THEN [past |-> Append(s, now), now |-> << >>] ELSE [past |-> s, now |-> now]
  BY DEF GroupNext, Joins
<1>3. Joins(now, x, t)
  OBVIOUS
<1> HIDE DEF s, x
<1>4. now \in Seq(Tag)
  BY <1>1, <1>3, JoinsIs
<1>5. CASE FlushesAt(p, k) /\ now # << >>
  <2>1. h.past = Append(s, now) /\ h.now = << >>
    BY <1>2, <1>5
  <2>2. Append(s, now) # << >> /\ Len(Append(s, now)) = Len(s) + 1 /\ Append(s, now)[Len(s) + 1] = now
    BY <1>1, <1>4, AppendIs
  <2> QED BY <1>5, <2>1, <2>2 DEF s, Grows
<1>6. CASE ~(FlushesAt(p, k) /\ now # << >>)
  <2>1. h.past = s /\ h.now = now
    BY <1>2, <1>6
  <2> QED BY <1>6, <2>1 DEF s, Grows
<1> QED BY <1>5, <1>6

(* A call of p: what it sends to q goes to the end of the current batch,    *)
(* and the batch ends where the call flushes.                               *)
LEMMA SenderMoves ==
  ASSUME NEW p \in Proc, NEW q \in Proc, NEW k \in 1 .. Len(Calls[p]), pc[p] = k - 1, pc'[p] = k,
         SenderAt(p, q), todo[p] = {},
         NEW now, Joins(now, out[p][q], Tags(Calls[p][k], {"send"}, q)), out'[p][q] = now,
         q \in todo'[p] <=> FlushesAt(p, k) /\ now # << >>
  PROVE  SenderAt(p, q)' /\ Written(p, q)' = Written(p, q)
<1> DEFINE g == Puts(p, q)[k - 1]
           h == Puts(p, q)[k]
           t == Tags(Calls[p][k], {"send"}, q)
<1>1. k - 1 \in 0 .. Len(Calls[p]) /\ k \in 0 .. Len(Calls[p])
  BY CallIs
<1>2. g \in Group /\ h \in Group /\ h = GroupNext(p, {"send"}, q, k, g)
  BY <1>1, GroupsAre DEF Puts
<1>3. out[p][q] = g.now
  BY DEF SenderAt
<1>4. Len(g.past) \in Nat /\ Written(p, q) = Len(g.past)
  BY <1>2 DEF Written, Group
<1>5. /\ SenderAt(p, q)' <=> IF q \in todo'[p]
                              THEN /\ k > 0 /\ Len(h.past) = Len(g.past) + 1
                                   /\ h.now = << >> /\ out'[p][q] = h.past[Len(h.past)]
                              ELSE out'[p][q] = h.now
      /\ Written(p, q)' = Len(h.past) - (IF q \in todo'[p] THEN 1 ELSE 0)
  BY DEF SenderAt, Written
<1>6. Joins(now, g.now, t) /\ t = Tags(Calls[p][k], {"send"}, q)
  BY <1>3
<1> HIDE DEF g, h, t
<1>7. Grows(FlushesAt(p, k), g, now, h)
  BY <1>2, <1>6, GroupMoves
<1>8. CASE FlushesAt(p, k) /\ now # << >>
  <2>1. q \in todo'[p]
    BY <1>8
  <2>2. h.now = << >> /\ h.past # << >> /\ Len(h.past) = Len(g.past) + 1 /\ h.past[Len(g.past) + 1] = now
    BY <1>7, <1>8 DEF Grows
  <2>3. Len(h.past) - 1 = Len(g.past) /\ h.past[Len(h.past)] = now
    BY <1>4, <2>2
  <2>4. SenderAt(p, q)'
    BY <1>5, <2>1, <2>2, <2>3
  <2> QED BY <1>4, <1>5, <2>1, <2>3, <2>4
<1>9. CASE ~(FlushesAt(p, k) /\ now # << >>)
  <2>1. q \notin todo'[p]
    BY <1>9
  <2>2. h.now = now /\ h.past = g.past
    BY <1>7, <1>9 DEF Grows
  <2>3. SenderAt(p, q)'
    BY <1>5, <2>1, <2>2
  <2> QED BY <1>4, <1>5, <2>1, <2>2, <2>3
<1> QED BY <1>8, <1>9

(* What q has not read of the block from p when it has read t more *)
Remains(u, q, p, t) ==
  IF t = << >> THEN u = rest[q][p] ELSE Suffix(u, Block(q, p), Len(t))

(* The k-th call of q reads t of the link from p, and leaves u of the block *)
Reads(p, q, k, t, u) ==
  /\ pc[q] = k - 1 /\ t = Tags(Calls[q][k], Receives, p)
  /\ t # << >> => Readable(q, p)
  /\ Remains(u, q, p, t)

(* A block of p's that q reads on, or begins to read: now is what q has     *)
(* read of it after the call, b the whole of it.                            *)
ReadsAsExpected(p, q, k, t, u, now, b) ==
  /\ t # << >> => IsPrefix(t, Block(q, p))
  /\ now = << >> => u = << >> /\ t = << >> /\ p \notin open[q]
  /\ now # << >> => Suffix(u, b, Len(now)) /\ (t # << >> \/ p \in open[q])
  /\ FlushesAt(q, k) => u = << >>

LEMMA ReadOnLink ==
  ASSUME Matched, TInv, NEW p \in Proc, NEW q \in Proc, ReaderAt(q, p), WireAt(p, q),
         NEW k \in 1 .. Len(Calls[q]), NEW t, NEW u, Reads(p, q, k, t, u),
         NEW g, g = Gets(q, p)[k - 1],
         NEW now, Joins(now, g.now, t), NEW b, b = Batches(p, q)[Len(g.past) + 1]
  PROVE  ReadsAsExpected(p, q, k, t, u, now, b)
<1>0. /\ pc[q] = k - 1 /\ t = Tags(Calls[q][k], Receives, p)
      /\ t # << >> => Readable(q, p)
      /\ Remains(u, q, p, t)
  BY DEF Reads
<1> DEFINE h == Gets(q, p)[k]
           x == g.now
           m == Len(g.past)
           B == Batches(p, q)
<1>1. k - 1 \in 0 .. Len(Calls[q]) /\ k \in 0 .. Len(Calls[q])
  BY CallIs
<1>2. g \in Group /\ h \in Group /\ h = GroupNext(q, Receives, p, k, g)
  BY <1>1, GroupsAre DEF Gets
<1>3. x \in Seq(Tag) /\ g.past \in Seq(Seq(Tag)) /\ t \in Seq(Tag) /\ m \in Nat
  <2>1. t \in Seq(Tag)
    BY <1>0, CallTags
  <2>2. x \in Seq(Tag) /\ m \in Nat
    BY <1>2 DEF Group
  <2>3. g.past \in Seq(Seq(Tag))
    BY <1>2 DEF Group
  <2> QED BY <2>1, <2>2, <2>3
<1>4. now \in Seq(Tag) /\ Joins(now, x, t) /\ (now = << >> <=> x = << >> /\ t = << >>) /\ (t = << >> => now = x)
  <2>1. Joins(now, x, t)
    OBVIOUS
  <2> HIDE DEF x
  <2> QED BY <1>3, <2>1, JoinsIs
<1>5. Grows(FlushesAt(q, k), g, now, h)
  <2>1. Joins(now, g.now, t)
    OBVIOUS
  <2> HIDE DEF h
  <2> QED BY <1>0, <1>2, <2>1, GroupMoves
<1>6. Begins(h, B) /\ B \in Seq(Seq(Tag))
  BY <1>1, GetsBegin, MatchedIs
<1>7. now # << >> => m + 1 \in 1 .. Len(B) /\ Pre(now, b) /\ (FlushesAt(q, k) => b = now)
  <2> SUFFICES ASSUME now # << >>
               PROVE  m + 1 \in 1 .. Len(B) /\ Pre(now, b) /\ (FlushesAt(q, k) => b = now)
    OBVIOUS
  <2>1. b = B[m + 1] /\ Len(B) \in Nat
    BY <1>6
  <2>2. /\ Len(h.past) <= Len(B)
        /\ \A i \in 1 .. Len(h.past) : B[i] = h.past[i]
        /\ h.now # << >> => Len(h.past) + 1 <= Len(B) /\ Pre(h.now, B[Len(h.past) + 1])
    BY <1>6 DEF Begins
  <2>3. g.past = h.past => Len(h.past) = m
    OBVIOUS
  <2>4. Pre(now, now)
    BY <1>4 DEF Pre
  <2>5. m + 1 \in 1 .. (m + 1)
    BY <1>3
  <2> HIDE DEF m, B, h
  <2>6. CASE FlushesAt(q, k)
    <3>1. m + 1 <= Len(B) /\ B[m + 1] = now
      BY <1>5, <2>2, <2>5, <2>6 DEF Grows, m
    <3> QED BY <1>3, <2>1, <2>4, <3>1
  <2>7. CASE ~FlushesAt(q, k)
    <3>1. h.past = g.past /\ h.now = now
      BY <1>5, <2>7 DEF Grows
    <3>2. m + 1 <= Len(B) /\ Pre(now, B[m + 1])
      BY <2>2, <2>3, <3>1
    <3> QED BY <1>3, <2>1, <2>7, <3>2
  <2> QED BY <2>6, <2>7
<1>8. now # << >> => b \in Seq(Tag)
  <2> HIDE DEF m, B
  <2> QED BY <1>6, <1>7 DEF m, B
<1>9. (p \in open[q] <=> x # << >>) /\ Begun(q, p) = m + (IF p \in open[q] THEN 1 ELSE 0)
  BY <1>0 DEF ReaderAt, Begun
<1>10. p \in open[q] => Suffix(rest[q][p], b, Len(x))
  BY <1>0, <1>3, <1>9 DEF ReaderAt, Suffix
<1>11. p \notin open[q] => rest[q][p] = << >>
  BY <1>0 DEF ReaderAt
(* Before the call, what is left of the block is what follows x in b *)
<1>12. t # << >> => Suffix(Block(q, p), b, Len(x))
  <2> SUFFICES ASSUME t # << >> PROVE Suffix(Block(q, p), b, Len(x))
    OBVIOUS
  <2>1. Readable(q, p) /\ now # << >>
    BY <1>0, <1>4
  <2>2. CASE p \in open[q]
    BY <1>10, <2>2 DEF Block
  <2>3. CASE p \notin open[q]
    <3>1. wire[p][q] # << >> /\ Block(q, p) = Head(wire[p][q])
      BY <2>1, <2>3 DEF Readable, Block
    <3>2. wire[p][q] \in Seq(Seq(Tag))
      BY DEF TInv
    <3>3. 1 \in 1 .. Len(wire[p][q]) /\ Head(wire[p][q]) = wire[p][q][1]
      <4> DEFINE w == wire[p][q]
      <4>1. w \in Seq(Seq(Tag)) /\ w # << >>
        BY <3>1, <3>2
      <4> HIDE DEF w
      <4>2. 1 \in 1 .. Len(w) /\ Head(w) = w[1]
        BY <4>1
      <4> QED BY <4>2 DEF w
    <3>4. wire[p][q][1] = B[Begun(q, p) + 1] /\ Begun(q, p) = m
      <4>1. PICK n : n = Begun(q, p)
        OBVIOUS
      <4>2. PICK c : c = m
        OBVIOUS
      <4>3. n = c
        BY <1>3, <1>9, <2>3, <4>1, <4>2
      <4>4. wire[p][q][1] = B[n + 1]
        BY <3>3, <4>1 DEF WireAt
      <4> QED BY <4>1, <4>2, <4>3, <4>4
    <3>5. Block(q, p) = b
      BY <3>1, <3>3, <3>4
    <3>6. x = << >> /\ Len(x) = 0
      BY <1>9, <2>3
    <3>7. SubSeq(b, Len(x) + 1, Len(b)) = b
      <4> HIDE DEF x
      <4> QED BY <1>8, <2>1, <3>6, WholeSeq
    <3> QED BY <3>5, <3>7 DEF Suffix
  <2> QED BY <2>2, <2>3
<1>13. now # << >> => Suffix(u, b, Len(now)) /\ (t # << >> => IsPrefix(t, Block(q, p)))
  <2> SUFFICES ASSUME now # << >> PROVE Suffix(u, b, Len(now)) /\ (t # << >> => IsPrefix(t, Block(q, p)))
    OBVIOUS
  <2>1. CASE t = << >>
    <3>1. now = x /\ x # << >>
      BY <1>4, <2>1
    <3>2. u = rest[q][p]
      BY <1>0, <2>1 DEF Remains
    <3> QED BY <1>9, <1>10, <2>1, <3>1, <3>2
  <2>2. CASE t # << >>
    <3> DEFINE v == Block(q, p)
    <3>1. Suffix(v, b, Len(x)) /\ Suffix(u, v, Len(t)) /\ Pre(now, b) /\ Joins(now, x, t)
      BY <1>0, <1>4, <1>7, <1>12, <2>2 DEF Remains
    <3> HIDE DEF v, x
    <3>2. Suffix(u, b, Len(now)) /\ IsPrefix(t, v)
      BY <1>3, <1>8, <3>1, ReadOn
    <3> QED BY <3>2 DEF v
  <2> QED BY <2>1, <2>2
<1>14. now = << >> => u = << >> /\ t = << >> /\ p \notin open[q]
  BY <1>0, <1>4, <1>9, <1>11 DEF Remains
<1>15. FlushesAt(q, k) => u = << >>
  <2> SUFFICES ASSUME FlushesAt(q, k) PROVE u = << >>
    OBVIOUS
  <2>1. CASE now = << >>
    BY <1>14, <2>1
  <2>2. CASE now # << >>
    <3>1. b = now /\ u = SubSeq(b, Len(b) + 1, Len(b))
      BY <1>7, <1>13, <2>2 DEF Suffix
    <3> HIDE DEF x
    <3> QED BY <1>4, <3>1, NothingLeft
  <2> QED BY <2>1, <2>2
<1>16. t # << >> => now # << >>
  BY <1>4
<1>17. now # << >> => t # << >> \/ p \in open[q]
  BY <1>4, <1>9
<1> QED BY <1>13, <1>14, <1>15, <1>16, <1>17 DEF ReadsAsExpected

(* A call of q: what it reads of the link from p goes to the end of what it *)
(* has read of the block, and the block ends where the call flushes.        *)
Keeps(p, q, k, t, u) ==
  /\ pc'[q] = k
  /\ FlushesAt(q, k) => open'[q] = {} /\ rest'[q][p] = << >>
  /\ ~FlushesAt(q, k) => (p \in open'[q] <=> p \in open[q] \/ t # << >>) /\ rest'[q][p] = u
ReaderMoved(p, q, k, t, u) ==
  /\ ReaderAt(q, p)'
  /\ Begun(q, p)' = Begun(q, p) + (IF t # << >> /\ p \notin open[q] THEN 1 ELSE 0)
  /\ FlushesAt(q, k) => u = << >>
  /\ t # << >> => IsPrefix(t, Block(q, p))

LEMMA ReaderMoves ==
  ASSUME Matched, TInv, NEW p \in Proc, NEW q \in Proc, ReaderAt(q, p), WireAt(p, q),
         NEW k \in 1 .. Len(Calls[q]), NEW t, NEW u, Reads(p, q, k, t, u), Keeps(p, q, k, t, u)
  PROVE  ReaderMoved(p, q, k, t, u)
<1>0. /\ pc'[q] = k
      /\ FlushesAt(q, k) => open'[q] = {} /\ rest'[q][p] = << >>
      /\ ~FlushesAt(q, k) => (p \in open'[q] <=> p \in open[q] \/ t # << >>) /\ rest'[q][p] = u
  BY DEF Keeps
<1>1. PICK g : g = Gets(q, p)[k - 1]
  OBVIOUS
<1>2. PICK h : h = Gets(q, p)[k]
  OBVIOUS
<1>3. PICK now : Joins(now, g.now, t)
  BY DEF Joins
<1>4. PICK b : b = Batches(p, q)[Len(g.past) + 1]
  OBVIOUS
<1>5. k - 1 \in 0 .. Len(Calls[q]) /\ k \in 0 .. Len(Calls[q])
  BY CallIs
<1>6. g \in Group /\ h \in Group /\ h = GroupNext(q, Receives, p, k, g)
  BY <1>1, <1>2, <1>5, GroupsAre DEF Gets
<1>7. Len(g.past) \in Nat
  BY <1>6 DEF Group
<1>8. Grows(FlushesAt(q, k), g, now, h)
  <2>1. t = Tags(Calls[q][k], Receives, p)
    BY DEF Reads
  <2> QED BY <1>3, <1>6, <2>1, GroupMoves
<1>9. ReadsAsExpected(p, q, k, t, u, now, b)
  BY <1>1, <1>3, <1>4, ReadOnLink
<1>10. /\ t # << >> => IsPrefix(t, Block(q, p))
       /\ FlushesAt(q, k) => u = << >>
  BY <1>9 DEF ReadsAsExpected
<1>11. /\ now = << >> => u = << >> /\ t = << >> /\ p \notin open[q]
       /\ now # << >> => Suffix(u, b, Len(now)) /\ (t # << >> \/ p \in open[q])
  BY <1>9 DEF ReadsAsExpected
<1>12. /\ p \in open[q] => Begun(q, p) = Len(g.past) + 1
       /\ p \notin open[q] => Begun(q, p) = Len(g.past)
  <2>1. g = Gets(q, p)[pc[q]]
    BY <1>1 DEF Reads
  <2>2. PICK m : m = Len(g.past)
    OBVIOUS
  <2>3. Begun(q, p) = m + (IF p \in open[q] THEN 1 ELSE 0)
    BY <2>1, <2>2 DEF Begun
  <2>4. m \in Nat
    BY <1>7, <2>2
  <2>5. p \in open[q] => Begun(q, p) = m + 1
    BY <2>3
  <2>6. p \notin open[q] => Begun(q, p) = m
    BY <2>3, <2>4
  <2> QED BY <2>2, <2>5, <2>6, Zenon
<1>13. /\ p \in open'[q] => Begun(q, p)' = Len(h.past) + 1
       /\ p \notin open'[q] => Begun(q, p)' = Len(h.past) + 0
  BY <1>0, <1>2 DEF Begun
<1>14. PICK n : n = Begun(q, p)'
  OBVIOUS
<1>15. PICK B : B = Batches(p, q)
  OBVIOUS
<1>16. ReaderAt(q, p)' <=>
             /\ p \in open'[q] <=> h.now # << >>
             /\ p \in open'[q] => rest'[q][p] = SubSeq(B[n], Len(h.now) + 1, Len(B[n]))
             /\ p \notin open'[q] => rest'[q][p] = << >>
  BY <1>0, <1>2, <1>14, <1>15 DEF ReaderAt, Batches
<1> SUFFICES /\ ReaderAt(q, p)'
             /\ Begun(q, p)' = Begun(q, p) + (IF t # << >> /\ p \notin open[q] THEN 1 ELSE 0)
             /\ FlushesAt(q, k) => u = << >>
             /\ t # << >> => IsPrefix(t, Block(q, p))
  BY DEF ReaderMoved
<1>17. CASE FlushesAt(q, k)
  <2>1. /\ h.now = << >>
        /\ now = << >> => Len(h.past) = Len(g.past)
        /\ now # << >> => Len(h.past) = Len(g.past) + 1
    BY <1>8, <1>17 DEF Grows
  <2>2. p \notin open'[q] /\ rest'[q][p] = << >>
    BY <1>0, <1>17
  <2>3. ReaderAt(q, p)'
    BY <1>16, <2>1, <2>2
  <2>4. CASE now = << >>
    BY <1>7, <1>10, <1>11, <1>12, <1>13, <2>1, <2>2, <2>3, <2>4
  <2>5. CASE now # << >>
    BY <1>7, <1>10, <1>11, <1>12, <1>13, <2>1, <2>2, <2>3, <2>5
  <2> QED BY <2>4, <2>5
<1>18. CASE ~FlushesAt(q, k)
  <2>1. h.now = now /\ h.past = g.past
    BY <1>8, <1>18 DEF Grows
  <2>2. (p \in open'[q] <=> p \in open[q] \/ t # << >>) /\ rest'[q][p] = u
    BY <1>0, <1>18
  <2>3. CASE now = << >>
    <3>1. p \notin open'[q] /\ u = << >> /\ t = << >> /\ p \notin open[q]
      BY <1>11, <2>2, <2>3
    <3>2. ReaderAt(q, p)'
      BY <1>16, <2>1, <2>2, <2>3, <3>1
    <3>3. Begun(q, p)' = Begun(q, p)
      BY <1>7, <1>12, <1>13, <2>1, <3>1
    <3>4. Begun(q, p) \in Int
      BY <1>7, <1>12
    <3> QED BY <1>10, <1>18, <3>1, <3>2, <3>3, <3>4
  <2>4. CASE now # << >>
    <3>1. p \in open'[q] /\ Suffix(u, b, Len(now))
      BY <1>11, <2>2, <2>4
    <3>2. n = Len(g.past) + 1 /\ B[n] = b
      BY <1>4, <1>13, <1>14, <1>15, <2>1, <3>1
    <3>3. rest'[q][p] = SubSeq(b, Len(now) + 1, Len(b))
      BY <2>2, <3>1 DEF Suffix
    <3>4. ReaderAt(q, p)'
      BY <1>16, <2>1, <2>4, <3>1, <3>2, <3>3
    <3>5. Begun(q, p)' = Begun(q, p) + (IF t # << >> /\ p \notin open[q] THEN 1 ELSE 0)
      BY <1>7, <1>11, <1>12, <1>14, <2>4, <3>2
    <3> QED BY <1>10, <3>4, <3>5
  <2> QED BY <2>3, <2>4
<1> QED BY <1>17, <1>18

(* When the reader begins the next block, it leaves the wire *)
LEMMA WireMoves ==
  ASSUME TInv, NEW p \in Proc, NEW q \in Proc, WireAt(p, q), NEW d \in {0, 1}, Written(p, q) \in Int,
         Begun(q, p) \in Int,
         Written(p, q)' = Written(p, q), Begun(q, p)' = Begun(q, p) + d,
         d = 1 => wire[p][q] # << >> /\ wire'[p][q] = Tail(wire[p][q]),
         d = 0 => wire'[p][q] = wire[p][q]
  PROVE  WireAt(p, q)'
<1>1. PICK w : w = wire[p][q]
  OBVIOUS
<1>2. PICK v : v = wire'[p][q]
  OBVIOUS
<1>3. PICK B : B = Batches(p, q)
  OBVIOUS
<1>4. PICK m : m = Begun(q, p)
  OBVIOUS
<1>5. PICK n : n = Written(p, q)
  OBVIOUS
<1>6. m \in Int /\ n \in Int /\ m <= n /\ Len(w) = n - m /\ \A i \in 1 .. Len(w) : w[i] = B[m + i]
  BY <1>1, <1>3, <1>4, <1>5 DEF WireAt
<1>7. m + d <= n /\ Len(v) = n - (m + d) /\ (\A i \in 1 .. Len(v) : v[i] = B[(m + d) + i]) => WireAt(p, q)'
  BY <1>2, <1>3, <1>4, <1>5 DEF WireAt, Batches
<1>8. w \in Seq(Seq(Tag)) /\ Len(w) \in Nat
  <2>1. w \in Seq(Seq(Tag))
    BY <1>1 DEF TInv
  <2> QED BY <2>1
<1>9. CASE d = 0
  <2>1. v = w /\ m + d = m
    BY <1>1, <1>2, <1>6, <1>9
  <2> QED BY <1>6, <1>7, <2>1
<1>10. CASE d = 1
  <2>1. v = Tail(w) /\ w # << >>
    BY <1>1, <1>2, <1>10
  <2>2. Len(v) = Len(w) - 1
    BY <1>8, <2>1
  <2>3. \A i \in 1 .. Len(v) : v[i] = w[i + 1]
    BY <1>8, <2>1
  <2>4. Len(w) >= 1
    BY <1>8, <2>1
  <2>5. \A i \in 1 .. Len(v) : i + 1 \in 1 .. Len(w) /\ m + (i + 1) = (m + d) + i
    BY <1>6, <1>8, <1>10, <2>2
  <2>6. \A i \in 1 .. Len(v) : v[i] = B[(m + d) + i]
    <3> TAKE i \in 1 .. Len(v)
    <3>1. v[i] = w[i + 1] /\ i + 1 \in 1 .. Len(w) /\ m + (i + 1) = (m + d) + i
      BY <2>3, <2>5
    <3>2. PICK j \in 1 .. Len(w) : j = i + 1
      BY <3>1
    <3>3. w[j] = B[m + j]
      BY <1>6
    <3> QED BY <3>1, <3>2, <3>3
  <2>7. m + d <= n /\ Len(v) = n - (m + d)
    BY <1>6, <1>8, <1>10, <2>2, <2>4
  <2> QED BY <1>7, <2>6, <2>7
<1> QED BY <1>9, <1>10

LEMMA SenderStays ==
  ASSUME NEW p \in Proc, NEW q \in Proc, SenderAt(p, q), pc'[p] = pc[p], q \in todo'[p] <=> q \in todo[p],
         out'[p][q] = out[p][q]
  PROVE  SenderAt(p, q)' /\ Written(p, q)' = Written(p, q)
BY DEF SenderAt, Written

LEMMA ReaderStays ==
  ASSUME NEW p \in Proc, NEW q \in Proc, ReaderAt(q, p), pc'[q] = pc[q], open'[q] = open[q], rest'[q][p] = rest[q][p]
  PROVE  ReaderAt(q, p)' /\ Begun(q, p)' = Begun(q, p)
BY DEF ReaderAt, Begun

LEMMA PlacesAre ==
  ASSUME TInv, NEW p \in Proc, NEW q \in Proc
  PROVE  Written(p, q) \in Int /\ Begun(q, p) \in Nat
<1>1. pc[p] \in 0 .. Len(Calls[p]) /\ pc[q] \in 0 .. Len(Calls[q])
  BY CallIs DEF TInv
<1>2. Puts(p, q)[pc[p]] \in Group /\ Gets(q, p)[pc[q]] \in Group
  BY <1>1, GroupsAre DEF Puts, Gets
<1>3. PICK n : n = Len(Puts(p, q)[pc[p]].past)
  OBVIOUS
<1>4. PICK m : m = Len(Gets(q, p)[pc[q]].past)
  OBVIOUS
<1>5. n \in Nat /\ m \in Nat
  BY <1>2, <1>3, <1>4 DEF Group
<1>6. Written(p, q) = n - (IF q \in todo[p] THEN 1 ELSE 0)
  BY <1>3 DEF Written
<1>7. Begun(q, p) = m + (IF p \in open[q] THEN 1 ELSE 0)
  BY <1>4 DEF Begun
<1> HIDE <1>3, <1>4
<1>8. Written(p, q) \in Int
  BY <1>5, <1>6
<1>9. CASE p \in open[q]
  <2>1. Begun(q, p) = m + 1
    BY <1>7, <1>9
  <2> QED BY <1>5, <1>8, <2>1
<1>10. CASE p \notin open[q]
  <2>1. Begun(q, p) = m
    BY <1>5, <1>7, <1>10
  <2> QED BY <1>5, <1>8, <2>1
<1> QED BY <1>9, <1>10

-------------------------------------------------------------------------------
(* A call, as far as the links can tell *)

(* The k-th call of p puts what it sends into its buffers *)
Sends(p, k) ==
  /\ pc[p] = k - 1 /\ pc'[p] = k /\ todo[p] = {}
  /\ \A q \in Proc : /\ Joins(out'[p][q], out[p][q], Tags(Calls[p][k], {"send"}, q))
                     /\ q \in todo'[p] <=> FlushesAt(p, k) /\ out'[p][q] # << >>

(* It takes what it reads from its blocks, and leaves u[q] of that from q *)
Takes(p, k, u) ==
  /\ \A q \in Proc :
       LET t == Tags(Calls[p][k], Receives, q)
       IN  /\ Reads(q, p, k, t, u[q])
           /\ FlushesAt(p, k) => open'[p] = {} /\ rest'[p][q] = << >>
           /\ ~FlushesAt(p, k) => (q \in open'[p] <=> q \in open[p] \/ t # << >>) /\ rest'[p][q] = u[q]
           /\ t # << >> /\ q \notin open[p] => wire'[q][p] = Tail(wire[q][p])
           /\ t = << >> \/ q \in open[p] => wire'[q][p] = wire[q][p]
  /\ dropped' => dropped \/ (FlushesAt(p, k) /\ \E q \in Proc : u[q] # << >>)

(* The other processes *)
Spares(p) ==
  \A r \in Proc \ {p} :
    /\ pc'[r] = pc[r] /\ isFlush'[r] = isFlush[r]
    /\ out'[r] = out[r] /\ todo'[r] = todo[r] /\ open'[r] = open[r] /\ rest'[r] = rest[r]
    /\ \A q \in Proc : wire'[q][r] = wire[q][r]

LEMMA CallSends ==
  ASSUME NEW r \in Proc, NEW k \in 1 .. Len(Calls[r]), Sends(r, k), Spares(r),
         NEW p \in Proc, NEW q \in Proc, SenderAt(p, q)
  PROVE  SenderAt(p, q)' /\ Written(p, q)' = Written(p, q)
<1>1. CASE p = r
  <2>1. PICK now : now = out'[r][q]
    OBVIOUS
  <2>2. /\ pc[r] = k - 1 /\ pc'[r] = k /\ todo[r] = {}
        /\ Joins(now, out[r][q], Tags(Calls[r][k], {"send"}, q))
        /\ q \in todo'[r] <=> FlushesAt(r, k) /\ now # << >>
    BY <2>1 DEF Sends
  <2>3. SenderAt(r, q)
    BY <1>1
  <2>4. SenderAt(r, q)' /\ Written(r, q)' = Written(r, q)
    BY <2>1, <2>2, <2>3, SenderMoves
  <2> QED BY <1>1, <2>4
<1>2. CASE p # r
  <2>1. pc'[p] = pc[p] /\ todo'[p] = todo[p] /\ out'[p][q] = out[p][q]
    BY <1>2 DEF Spares
  <2> QED BY <2>1, SenderStays
<1> QED BY <1>1, <1>2

(* d is 1 if the call begins a block of p's, which then leaves the wire *)
ReaderStep(p, q, d) ==
  /\ ReaderAt(q, p)' /\ Begun(q, p)' = Begun(q, p) + d
  /\ d = 1 => wire[p][q] # << >> /\ wire'[p][q] = Tail(wire[p][q])
  /\ d = 0 => wire'[p][q] = wire[p][q]

LEMMA CallTakes ==
  ASSUME Matched, TInv, NEW r \in Proc, NEW k \in 1 .. Len(Calls[r]), NEW u, Takes(r, k, u), pc'[r] = k, Spares(r),
         NEW p \in Proc, NEW q \in Proc, ReaderAt(q, p), WireAt(p, q)
  PROVE  (\E d \in {0, 1} : ReaderStep(p, q, d)) /\ (q = r /\ FlushesAt(r, k) => u[p] = << >>)
<1>1. CASE q = r
  <2>1. PICK t : t = Tags(Calls[r][k], Receives, p)
    OBVIOUS
  <2>2. PICK v : v = u[p]
    OBVIOUS
  <2>3. /\ Reads(p, r, k, t, v)
        /\ Keeps(p, r, k, t, v)
    BY <2>1, <2>2 DEF Takes, Keeps
  <2>4. /\ t # << >> /\ p \notin open[r] => wire'[p][r] = Tail(wire[p][r])
        /\ t = << >> \/ p \in open[r] => wire'[p][r] = wire[p][r]
    BY <2>1 DEF Takes
  <2>5. ReaderAt(r, p) /\ WireAt(p, r)
    BY <1>1
  <2>6. ReaderMoved(p, r, k, t, v)
    BY <2>3, <2>5, ReaderMoves
  <2>7. /\ ReaderAt(r, p)'
        /\ Begun(r, p)' = Begun(r, p) + (IF t # << >> /\ p \notin open[r] THEN 1 ELSE 0)
        /\ FlushesAt(r, k) => v = << >>
    BY <2>6 DEF ReaderMoved
  <2>8. t # << >> /\ p \notin open[r] => wire[p][r] # << >>
    BY <2>3 DEF Reads, Readable
  <2>9. CASE t # << >> /\ p \notin open[r]
    <3>1. Begun(r, p)' = Begun(r, p) + 1
      BY <2>7, <2>9
    <3>2. ReaderStep(p, r, 1)
      BY <2>4, <2>7, <2>8, <2>9, <3>1 DEF ReaderStep
    <3> QED BY <1>1, <2>2, <2>7, <3>2
  <2>10. CASE t = << >> \/ p \in open[r]
    <3>1. Begun(r, p)' = Begun(r, p) + 0
      BY <2>7, <2>10
    <3>2. ReaderStep(p, r, 0)
      BY <2>4, <2>7, <2>10, <3>1 DEF ReaderStep
    <3> QED BY <1>1, <2>2, <2>7, <3>2
  <2> QED BY <2>9, <2>10
<1>2. CASE q # r
  <2>1. pc'[q] = pc[q] /\ open'[q] = open[q] /\ rest'[q][p] = rest[q][p] /\ wire'[p][q] = wire[p][q]
    BY <1>2 DEF Spares
  <2>2. ReaderAt(q, p)' /\ Begun(q, p)' = Begun(q, p)
    BY <2>1, ReaderStays
  <2>3. PICK n \in Nat : n = Begun(q, p)
    BY PlacesAre
  <2>4. Begun(q, p)' = Begun(q, p) + 0
    BY <2>2, <2>3
  <2>5. ReaderStep(p, q, 0)
    BY <2>1, <2>2, <2>4 DEF ReaderStep
  <2> QED BY <1>2, <2>5
<1> QED BY <1>1, <1>2

LEMMA CallKeeps ==
  ASSUME Matched, TInv, CInv, NEW r \in Proc, NEW k \in 1 .. Len(Calls[r]), NEW u,
         Sends(r, k), Takes(r, k, u), Spares(r), isFlush'[r] = Mode(r)[k], dropped' \in BOOLEAN
  PROVE  CInv'
<1>1. pc'[r] = k
  BY DEF Sends
<1>2. \A p \in Proc : isFlush'[p] = Mode(p)[pc'[p]]
  BY <1>1 DEF CInv, Spares
<1>3. ASSUME NEW p \in Proc, NEW q \in Proc
      PROVE  /\ SenderAt(p, q)' /\ WireAt(p, q)' /\ ReaderAt(q, p)'
             /\ q = r /\ FlushesAt(r, k) => u[p] = << >>
  <2>1. SenderAt(p, q) /\ WireAt(p, q) /\ ReaderAt(q, p)
    BY DEF CInv
  <2>2. SenderAt(p, q)' /\ Written(p, q)' = Written(p, q)
    BY <2>1, CallSends
  <2>3. PICK d \in {0, 1} : ReaderStep(p, q, d)
    BY <1>1, <2>1, CallTakes
  <2>4. q = r /\ FlushesAt(r, k) => u[p] = << >>
    BY <1>1, <2>1, CallTakes
  <2>5. Written(p, q) \in Int /\ Begun(q, p) \in Int
    BY PlacesAre
  <2>6. /\ ReaderAt(q, p)' /\ Begun(q, p)' = Begun(q, p) + d
        /\ d = 1 => wire[p][q] # << >> /\ wire'[p][q] = Tail(wire[p][q])
        /\ d = 0 => wire'[p][q] = wire[p][q]
    BY <2>3 DEF ReaderStep
  <2>7. WireAt(p, q)'
    BY <2>1, <2>2, <2>5, <2>6, WireMoves
  <2> QED BY <2>2, <2>4, <2>6, <2>7
<1>4. ~dropped'
  <2>1. dropped' => dropped \/ (FlushesAt(r, k) /\ \E q \in Proc : u[q] # << >>)
    BY DEF Takes
  <2>2. FlushesAt(r, k) => \A q \in Proc : u[q] = << >>
    BY <1>3
  <2>3. ~dropped
    BY DEF CInv
  <2> QED BY <2>1, <2>2, <2>3
<1> QED BY <1>2, <1>3, <1>4 DEF CInv

(* The calls are such calls *)

LEMMA EmptyTag ==
  ASSUME NEW x \in Seq(Tag) PROVE Joins(x, x, << >>)
BY DEF Joins

(* flush_all and set_flush send and receive nothing *)
Quiet(r, k) ==
  /\ k = pc[r] + 1 /\ AtCall(r) /\ Call(r)[1].op \in {"flush", "set_flush"}
  /\ pc' = [pc EXCEPT ![r] = k] /\ UNCHANGED <<out, wire>>
  /\ \A q \in Proc \ {r} : isFlush'[q] = isFlush[q] /\ todo'[q] = todo[q] /\ open'[q] = open[q] /\ rest'[q] = rest[q]
  /\ isFlush'[r] = Mode(r)[k] /\ dropped' \in BOOLEAN
  /\ \A q \in Proc : q \in todo'[r] <=> FlushesAt(r, k) /\ out[r][q] # << >>
  /\ FlushesAt(r, k) => open'[r] = {} /\ \A q \in Proc : rest'[r][q] = << >>
  /\ ~FlushesAt(r, k) => open'[r] = open[r] /\ rest'[r] = rest[r]
  /\ dropped' => dropped \/ (FlushesAt(r, k) /\ \E q \in Proc : rest[r][q] # << >>)

LEMMA QuietKeeps ==
  ASSUME Matched, TInv, CInv, NEW r \in Proc, NEW k, Quiet(r, k)
  PROVE  CInv'
<1>0. /\ k = pc[r] + 1 /\ AtCall(r) /\ Call(r)[1].op \in {"flush", "set_flush"}
      /\ pc' = [pc EXCEPT ![r] = k] /\ UNCHANGED <<out, wire>>
      /\ isFlush'[r] = Mode(r)[k] /\ dropped' \in BOOLEAN
  BY DEF Quiet
<1>1. k \in 1 .. Len(Calls[r]) /\ pc[r] = k - 1 /\ Call(r) = Calls[r][k] /\ todo[r] = {}
  BY <1>0, AtCallIs
<1>2. ASSUME NEW q
      PROVE  Tags(Calls[r][k], {"send"}, q) = << >> /\ Tags(Calls[r][k], Receives, q) = << >>
  <2>1. Calls[r][k][1].op \in {"flush", "set_flush"}
    BY <1>0, <1>1
  <2>2. Tags(Calls[r][k], {"send"}, q) = << >>
    BY <1>1, <2>1, QuietCall
  <2>3. Tags(Calls[r][k], Receives, q) = << >>
    BY <1>1, <2>1, QuietCall
  <2> QED BY <2>2, <2>3
<1>3. pc'[r] = k /\ \A q \in Proc \ {r} : pc'[q] = pc[q]
  BY <1>0 DEF TInv
<1>4. Sends(r, k)
  <2>1. \A q \in Proc : out[r][q] \in Seq(Tag)
    BY DEF TInv
  <2>2. \A q \in Proc : Joins(out[r][q], out[r][q], << >>)
    BY <2>1, EmptyTag
  <2> QED BY <1>0, <1>1, <1>2, <1>3, <2>2 DEF Sends, Quiet
<1>5. PICK u : u = rest[r]
  OBVIOUS
<1>6. Takes(r, k, u)
  <2>1. ASSUME NEW q \in Proc PROVE Reads(q, r, k, << >>, u[q])
    BY <1>1, <1>2, <1>5 DEF Reads, Remains
  <2> QED BY <1>0, <1>2, <1>5, <2>1 DEF Takes, Quiet
<1>7. Spares(r)
  BY <1>0, <1>3 DEF Spares, Quiet
<1> QED BY <1>0, <1>1, <1>4, <1>6, <1>7, CallKeeps

(* is_flush after a call *)
LEMMA ModeAfter ==
  ASSUME TInv, CInv, NEW r \in Proc, NEW k, k = pc[r] + 1, AtCall(r)
  PROVE  /\ Mode(r)[k - 1] = isFlush[r]
         /\ Call(r)[1].op = "set_flush" => Mode(r)[k] = Call(r)[1].value
         /\ Call(r)[1].op # "set_flush" => Mode(r)[k] = isFlush[r]
<1>1. k \in 1 .. Len(Calls[r]) /\ pc[r] = k - 1 /\ Call(r) = Calls[r][k]
  BY AtCallIs
<1>2. Mode(r)[k - 1] = isFlush[r]
  BY <1>1 DEF CInv
<1>3. Mode(r)[k] = ModeNext(r, k, Mode(r)[k - 1])
  BY <1>1, ModeIs
<1> QED BY <1>1, <1>2, <1>3 DEF ModeNext

LEMMA FlushKeeps == ASSUME Matched, TInv, CInv, NEW r \in Proc, Flush(r) PROVE CInv'
<1>1. PICK k : k = pc[r] + 1
  OBVIOUS
<1>2. /\ AtCall(r) /\ Call(r)[1].op = "flush" /\ Discard(r, rest[r])
      /\ todo' = [todo EXCEPT ![r] = { q \in Proc : out[r][q] # << >> }]
      /\ pc' = [pc EXCEPT ![r] = k] /\ UNCHANGED <<isFlush, out, wire>>
  BY <1>1 DEF Flush, MayCall
<1>3. k \in 1 .. Len(Calls[r]) /\ pc[r] = k - 1 /\ Call(r) = Calls[r][k]
  BY <1>1, <1>2, AtCallIs
<1>4. FlushesAt(r, k)
  BY <1>2, <1>3 DEF FlushesAt
<1>5. isFlush'[r] = Mode(r)[k]
  BY <1>1, <1>2, ModeAfter
<1>6. \A q \in Proc : q \in todo'[r] <=> FlushesAt(r, k) /\ out[r][q] # << >>
  BY <1>2, <1>4 DEF TInv
<1>7. \A q \in Proc \ {r} : isFlush'[q] = isFlush[q] /\ todo'[q] = todo[q] /\ open'[q] = open[q] /\ rest'[q] = rest[q]
  BY <1>2 DEF Discard, TInv
<1>8. open'[r] = {} /\ \A q \in Proc : rest'[r][q] = << >>
  BY <1>2 DEF Discard, TInv
<1>9. dropped' \in BOOLEAN /\ (dropped' => dropped \/ \E q \in Proc : rest[r][q] # << >>)
  BY <1>2 DEF Discard, TInv
<1>10. Quiet(r, k)
  BY <1>1, <1>2, <1>4, <1>5, <1>6, <1>7, <1>8, <1>9 DEF Quiet
<1> QED BY <1>10, QuietKeeps

LEMMA SetModeKeeps == ASSUME Matched, TInv, CInv, NEW r \in Proc, SetMode(r) PROVE CInv'
<1>1. PICK k : k = pc[r] + 1
  OBVIOUS
<1>2. /\ AtCall(r) /\ Call(r)[1].op = "set_flush"
      /\ isFlush' = [isFlush EXCEPT ![r] = Call(r)[1].value]
      /\ pc' = [pc EXCEPT ![r] = k] /\ UNCHANGED <<out, todo, wire, open, rest, dropped>>
  BY <1>1 DEF SetMode, MayCall
<1>3. k \in 1 .. Len(Calls[r]) /\ pc[r] = k - 1 /\ Call(r) = Calls[r][k] /\ todo[r] = {}
  BY <1>1, <1>2, AtCallIs
<1>4. ~FlushesAt(r, k)
  BY <1>2, <1>3 DEF FlushesAt, IsTransfer, Receives
<1>5. isFlush'[r] = Mode(r)[k]
  BY <1>1, <1>2, ModeAfter DEF TInv
<1>6. \A q \in Proc : q \in todo'[r] <=> FlushesAt(r, k) /\ out[r][q] # << >>
  BY <1>2, <1>3, <1>4
<1>7. \A q \in Proc \ {r} : isFlush'[q] = isFlush[q] /\ todo'[q] = todo[q] /\ open'[q] = open[q] /\ rest'[q] = rest[q]
  BY <1>2 DEF TInv
<1>8. dropped' = dropped /\ dropped \in BOOLEAN /\ open'[r] = open[r] /\ rest'[r] = rest[r]
  BY <1>2 DEF TInv
<1>9. Quiet(r, k)
  BY <1>1, <1>2, <1>4, <1>5, <1>6, <1>7, <1>8 DEF Quiet
<1> QED BY <1>9, QuietKeeps

LEMMA TransferKeeps == ASSUME Matched, TInv, CInv, NEW r \in Proc, Transfer(r) PROVE CInv'
<1>1. PICK k : k = pc[r] + 1
  OBVIOUS
<1>2. PICK c : c = Call(r)
  OBVIOUS
<1>3. PICK u : u = Left(r, c)
  OBVIOUS
<1>4. PICK z : z = Sending(r, c)
  OBVIOUS
<1>5. /\ AtCall(r) /\ IsTransfer(c)
      /\ \A q \in RecvPeers(c) : Readable(r, q)
  BY <1>2, TransferIs
<1>6. /\ out' = [out EXCEPT ![r] = z]
      /\ wire' = [s \in Proc |-> [wire[s] EXCEPT ![r] = IF s \in RecvPeers(c) \ open[r] THEN Tail(@) ELSE @]]
      /\ pc' = [pc EXCEPT ![r] = k] /\ isFlush' = isFlush
  BY <1>1, <1>2, <1>4, TransferIs
<1>7. IF FlushesAfter(isFlush[r], c)
        THEN Discard(r, u) /\ todo' = [todo EXCEPT ![r] = { q \in Proc : z[q] # << >> }]
        ELSE /\ open' = [open EXCEPT ![r] = @ \cup RecvPeers(c)]
             /\ rest' = [rest EXCEPT ![r] = u]
             /\ UNCHANGED <<todo, dropped>>
  BY <1>2, <1>3, <1>4, TransferIs
<1>8. k \in 1 .. Len(Calls[r]) /\ pc[r] = k - 1 /\ c = Calls[r][k] /\ todo[r] = {}
  BY <1>1, <1>2, <1>5, AtCallIs
<1>9. /\ \A q \in Proc : q \in RecvPeers(c) <=> Tags(c, Receives, q) # << >>
      /\ RecvPeers(c) \subseteq Proc /\ c[1].op # "flush" /\ c[1].op # "set_flush"
  BY <1>5, <1>8, TransferCall
<1>10. isFlush'[r] = Mode(r)[k] /\ Mode(r)[k - 1] = isFlush[r]
  BY <1>1, <1>2, <1>5, <1>6, <1>9, ModeAfter
<1>11. FlushesAt(r, k) <=> FlushesAfter(isFlush[r], c)
  BY <1>5, <1>8, <1>9, <1>10 DEF FlushesAt
<1>12. pc'[r] = k /\ \A q \in Proc \ {r} : pc'[q] = pc[q]
  BY <1>6 DEF TInv
<1>13. \A q \in Proc : out'[r][q] = z[q] /\ z[q] = out[r][q] \o Tags(c, {"send"}, q)
  BY <1>4, <1>6 DEF Sending, TInv
<1>14. /\ FlushesAt(r, k) => Discard(r, u) /\ todo' = [todo EXCEPT ![r] = { q \in Proc : z[q] # << >> }]
       /\ ~FlushesAt(r, k) => /\ open' = [open EXCEPT ![r] = @ \cup RecvPeers(c)]
                              /\ rest' = [rest EXCEPT ![r] = u]
                              /\ UNCHANGED <<todo, dropped>>
  BY <1>7, <1>11
<1>15. Sends(r, k)
  <2>1. \A q \in Proc : Joins(out'[r][q], out[r][q], Tags(c, {"send"}, q))
    BY <1>13 DEF Joins
  <2>2. ASSUME NEW q \in Proc PROVE q \in todo'[r] <=> FlushesAt(r, k) /\ out'[r][q] # << >>
    <3>1. out'[r][q] = z[q]
      BY <1>13
    <3>2. CASE FlushesAt(r, k)
      BY <1>14, <3>1, <3>2 DEF TInv
    <3>3. CASE ~FlushesAt(r, k)
      BY <1>8, <1>14, <3>3
    <3> QED BY <3>2, <3>3
  <2> QED BY <1>8, <1>12, <2>1, <2>2 DEF Sends
<1>16. ASSUME NEW q \in Proc
       PROVE  LET t == Tags(Calls[r][k], Receives, q)
              IN  /\ Reads(q, r, k, t, u[q])
                  /\ FlushesAt(r, k) => open'[r] = {} /\ rest'[r][q] = << >>
                  /\ ~FlushesAt(r, k) => (q \in open'[r] <=> q \in open[r] \/ t # << >>) /\ rest'[r][q] = u[q]
                  /\ t # << >> /\ q \notin open[r] => wire'[q][r] = Tail(wire[q][r])
                  /\ t = << >> \/ q \in open[r] => wire'[q][r] = wire[q][r]
  <2>1. PICK t : t = Tags(c, Receives, q)
    OBVIOUS
  <2>2. q \in RecvPeers(c) <=> t # << >>
    BY <1>9, <2>1
  <2>3. u[q] = IF q \notin RecvPeers(c) THEN rest[r][q] ELSE SubSeq(Block(r, q), Len(t) + 1, Len(Block(r, q)))
    BY <1>3, <2>1 DEF Left
  <2>4. Remains(u[q], r, q, t)
    BY <2>2, <2>3 DEF Remains, Suffix
  <2>5. Reads(q, r, k, t, u[q])
    BY <1>5, <1>8, <2>1, <2>2, <2>4 DEF Reads
  <2>6. FlushesAt(r, k) => open'[r] = {} /\ rest'[r][q] = << >>
    BY <1>14 DEF Discard, TInv
  <2>7. ~FlushesAt(r, k) => (q \in open'[r] <=> q \in open[r] \/ t # << >>) /\ rest'[r][q] = u[q]
    BY <1>14, <2>2 DEF TInv
  <2>8. wire'[q][r] = IF q \in RecvPeers(c) \ open[r] THEN Tail(wire[q][r]) ELSE wire[q][r]
    BY <1>6 DEF TInv
  <2> QED BY <1>8, <2>1, <2>2, <2>5, <2>6, <2>7, <2>8
<1>17. dropped' => dropped \/ (FlushesAt(r, k) /\ \E q \in Proc : u[q] # << >>)
  BY <1>14 DEF Discard
<1>18. Takes(r, k, u)
  BY <1>16, <1>17 DEF Takes
<1>19. Spares(r)
  <2>1. \A q \in Proc \ {r} : isFlush'[q] = isFlush[q] /\ out'[q] = out[q]
    BY <1>6 DEF TInv
  <2>2. \A q \in Proc \ {r} : todo'[q] = todo[q] /\ open'[q] = open[q] /\ rest'[q] = rest[q]
    BY <1>14 DEF TInv, Discard
  <2>3. \A q \in Proc \ {r} : \A s \in Proc : wire'[s][q] = wire[s][q]
    BY <1>6 DEF TInv
  <2> QED BY <1>12, <2>1, <2>2, <2>3 DEF Spares
<1>20. dropped' \in BOOLEAN
  BY <1>14 DEF Discard, TInv
<1> QED BY <1>8, <1>10, <1>15, <1>18, <1>19, <1>20, CallKeeps

(* flush_all writes one batch: the sender and the wire move on together *)
LEMMA WireGrows ==
  ASSUME TInv, NEW p \in Proc, NEW q \in Proc, WireAt(p, q), Written(p, q)' = Written(p, q) + 1,
         Begun(q, p)' = Begun(q, p), NEW x \in Seq(Tag), wire'[p][q] = Append(wire[p][q], x),
         x = Batches(p, q)[Written(p, q) + 1]
  PROVE  WireAt(p, q)'
<1>1. PICK w : w = wire[p][q]
  OBVIOUS
<1>2. PICK v : v = wire'[p][q]
  OBVIOUS
<1>3. PICK B : B = Batches(p, q)
  OBVIOUS
<1>4. PICK m \in Nat : m = Begun(q, p)
  BY PlacesAre
<1>5. PICK n \in Int : n = Written(p, q)
  BY PlacesAre
<1>6. m <= n /\ Len(w) = n - m /\ \A i \in 1 .. Len(w) : w[i] = B[m + i]
  BY <1>1, <1>3, <1>4, <1>5 DEF WireAt
<1>7. m <= n + 1 /\ Len(v) = (n + 1) - m /\ (\A i \in 1 .. Len(v) : v[i] = B[m + i]) => WireAt(p, q)'
  BY <1>2, <1>3, <1>4, <1>5 DEF WireAt, Batches
<1>8. w \in Seq(Seq(Tag)) /\ Len(w) \in Nat
  <2>1. w \in Seq(Seq(Tag))
    BY <1>1 DEF TInv
  <2> QED BY <2>1
<1>9. v = Append(w, x) /\ x = B[n + 1]
  BY <1>1, <1>2, <1>3, <1>5
<1>10. Len(v) = Len(w) + 1
  BY <1>8, <1>9
<1>11. \A i \in 1 .. Len(w) : v[i] = w[i]
  BY <1>8, <1>9
<1>12. v[Len(w) + 1] = x
  BY <1>8, <1>9
<1>13. \A i \in 1 .. Len(v) : v[i] = B[m + i]
  <2> TAKE i \in 1 .. Len(v)
  <2>1. CASE i \in 1 .. Len(w)
    BY <1>6, <1>11, <2>1
  <2>2. CASE i \notin 1 .. Len(w)
    <3>1. i = Len(w) + 1 /\ m + i = n + 1
      BY <1>6, <1>8, <1>10, <2>2
    <3> QED BY <1>9, <1>12, <3>1
  <2> QED BY <2>1, <2>2
<1>14. m <= n + 1 /\ Len(v) = (n + 1) - m
  BY <1>6, <1>8, <1>10
<1> QED BY <1>7, <1>13, <1>14

LEMMA SenderWrites ==
  ASSUME Matched, TInv, NEW p \in Proc, NEW q \in Proc, SenderAt(p, q), q \in todo[p],
         pc'[p] = pc[p], q \notin todo'[p], out'[p][q] = << >>
  PROVE  /\ SenderAt(p, q)' /\ Written(p, q)' = Written(p, q) + 1
         /\ out[p][q] = Batches(p, q)[Written(p, q) + 1]
<1>0. pc[p] \in 0 .. Len(Calls[p])
  BY CallIs DEF TInv
<1>1. PICK k \in 0 .. Len(Calls[p]) : k = pc[p]
  BY <1>0
<1>2. PICK g \in Group : g = Puts(p, q)[k]
  BY GroupsAre DEF Puts
<1>3. /\ g.now = << >> /\ out[p][q] = g.past[Len(g.past)]
      /\ k > 0 /\ Len(g.past) = Len(Puts(p, q)[k - 1].past) + 1
  BY <1>1, <1>2 DEF SenderAt
<1>4. SenderAt(p, q)'
  BY <1>1, <1>2, <1>3 DEF SenderAt
<1>5. PICK s \in Seq(Seq(Tag)) : s = g.past
  BY DEF Group
<1>6. PICK n \in Nat : n = Len(s)
  BY <1>5
<1>7. Written(p, q) = n - 1 /\ Written(p, q)' = n - 0
  BY <1>1, <1>2, <1>5, <1>6 DEF Written
<1>8. Begins(g, Batches(p, q))
  BY <1>2, PutsBegin
<1>9. \A i \in 1 .. Len(s) : Batches(p, q)[i] = s[i]
  BY <1>5, <1>8 DEF Begins
<1>10. PICK f \in Group : f = Puts(p, q)[k - 1]
  <2>1. k - 1 \in 0 .. Len(Calls[p])
    BY <1>3, CallIs
  <2> QED BY <2>1, GroupsAre DEF Puts
<1>11. PICK m \in Nat : m = Len(f.past)
  BY DEF Group
<1>12. n = m + 1
  BY <1>3, <1>5, <1>6, <1>10, <1>11
<1>13. n \in 1 .. n /\ (n - 1) + 1 = n
  BY <1>12
<1>14. out[p][q] = s[n]
  BY <1>3, <1>5, <1>6
<1>15. n \in 1 .. Len(s) /\ Written(p, q) + 1 = n
  BY <1>6, <1>7, <1>13, <1>14
<1>16. out[p][q] = Batches(p, q)[Written(p, q) + 1]
  BY <1>9, <1>14, <1>15
<1> QED BY <1>4, <1>6, <1>7, <1>15, <1>16

LEMMA FlushPeerKeeps == ASSUME Matched, TInv, CInv, NEW r \in Proc, FlushPeer(r) PROVE CInv'
<1>1. PICK s \in Proc : /\ s \in todo[r]
                        /\ Len(wire[r][s]) < Cap
                        /\ wire' = [wire EXCEPT ![r][s] = Append(@, out[r][s])]
                        /\ out' = [out EXCEPT ![r][s] = << >>]
                        /\ todo' = [todo EXCEPT ![r] = @ \ {s}]
                        /\ UNCHANGED <<pc, isFlush, open, rest, dropped>>
  BY FlushPeerIs
<1>2. ASSUME NEW p \in Proc, NEW q \in Proc
      PROVE  SenderAt(p, q)' /\ WireAt(p, q)' /\ ReaderAt(q, p)'
  <2>1. SenderAt(p, q) /\ WireAt(p, q) /\ ReaderAt(q, p)
    BY DEF CInv
  <2>2. pc'[p] = pc[p] /\ pc'[q] = pc[q] /\ open'[q] = open[q] /\ rest'[q][p] = rest[q][p]
    BY <1>1
  <2>3. ReaderAt(q, p)' /\ Begun(q, p)' = Begun(q, p)
    BY <2>1, <2>2, ReaderStays
  <2>4. CASE p = r /\ q = s
    <3>1. PICK x : x = out[p][q]
      OBVIOUS
    <3>2. x \in Seq(Tag)
      BY <3>1 DEF TInv
    <3>3. q \in todo[p] /\ q \notin todo'[p] /\ out'[p][q] = << >> /\ wire'[p][q] = Append(wire[p][q], x)
      BY <1>1, <2>4, <3>1 DEF TInv
    <3>4. SenderAt(p, q)' /\ Written(p, q)' = Written(p, q) + 1 /\ x = Batches(p, q)[Written(p, q) + 1]
      BY <2>1, <2>2, <3>1, <3>3, SenderWrites
    <3>5. WireAt(p, q)'
      BY <2>1, <2>3, <3>2, <3>3, <3>4, WireGrows
    <3> QED BY <2>3, <3>4, <3>5
  <2>5. CASE ~(p = r /\ q = s)
    <3>1. (q \in todo'[p] <=> q \in todo[p]) /\ out'[p][q] = out[p][q] /\ wire'[p][q] = wire[p][q]
      BY <1>1, <2>5 DEF TInv
    <3>2. SenderAt(p, q)' /\ Written(p, q)' = Written(p, q)
      BY <2>1, <2>2, <3>1, SenderStays
    <3>3. Written(p, q) \in Int /\ Begun(q, p) \in Int
      BY PlacesAre
    <3>4. Begun(q, p)' = Begun(q, p) + 0
      BY <2>3, <3>3
    <3>5. WireAt(p, q)'
      BY <2>1, <3>1, <3>2, <3>3, <3>4, WireMoves
    <3> QED BY <2>3, <3>2, <3>5
  <2> QED BY <2>4, <2>5
<1>3. \A p \in Proc : isFlush'[p] = Mode(p)[pc'[p]]
  BY <1>1 DEF CInv
<1>4. ~dropped'
  BY <1>1 DEF CInv
<1> QED BY <1>2, <1>3, <1>4 DEF CInv

LEMMA CInvInit == ASSUME Matched, Init PROVE CInv
<1>1. ASSUME NEW p \in Proc, NEW q \in Proc
      PROVE  SenderAt(p, q) /\ WireAt(p, q) /\ ReaderAt(q, p)
  <2>1. pc[p] = 0 /\ pc[q] = 0 /\ q \notin todo[p] /\ p \notin open[q]
    BY DEF Init
  <2>2. out[p][q] = << >> /\ wire[p][q] = << >> /\ rest[q][p] = << >>
    BY DEF Init, Pairs
  <2>3. Puts(p, q)[0] = NoGroup /\ Gets(q, p)[0] = NoGroup
    BY GroupsAre DEF Puts, Gets
  <2>4. NoGroup.past = << >> /\ NoGroup.now = << >>
    BY DEF NoGroup
  <2>5. Len(<< >>) = 0
    OBVIOUS
  <2>6. Written(p, q) = 0 /\ Begun(q, p) = 0
    BY <2>1, <2>3, <2>4, <2>5 DEF Written, Begun
  <2>7. SenderAt(p, q)
    BY <2>1, <2>2, <2>3, <2>4 DEF SenderAt
  <2>8. WireAt(p, q)
    BY <2>2, <2>5, <2>6 DEF WireAt
  <2>9. ReaderAt(q, p)
    BY <2>1, <2>2, <2>3, <2>4 DEF ReaderAt
  <2> QED BY <2>7, <2>8, <2>9
<1>2. \A p \in Proc : isFlush[p] = Mode(p)[pc[p]]
  BY ModeIs DEF Init
<1>3. ~dropped
  BY DEF Init
<1> QED BY <1>1, <1>2, <1>3 DEF CInv

LEMMA CInvStep == ASSUME Matched, TInv, CInv, [Next]_vars PROVE CInv'
<1>1. CASE UNCHANGED vars
  <2>1. /\ pc' = pc /\ isFlush' = isFlush /\ out' = out /\ todo' = todo /\ wire' = wire
        /\ open' = open /\ rest' = rest /\ dropped' = dropped
    BY <1>1 DEF vars
  <2>2. ASSUME NEW p \in Proc, NEW q \in Proc
        PROVE  SenderAt(p, q)' /\ WireAt(p, q)' /\ ReaderAt(q, p)'
    <3>1. SenderAt(p, q) /\ WireAt(p, q) /\ ReaderAt(q, p)
      BY DEF CInv
    <3>2. SenderAt(p, q)' /\ Written(p, q)' = Written(p, q)
      BY <2>1, <3>1, SenderStays
    <3>3. ReaderAt(q, p)' /\ Begun(q, p)' = Begun(q, p)
      BY <2>1, <3>1, ReaderStays
    <3>4. Written(p, q) \in Int /\ Begun(q, p) \in Int
      BY PlacesAre
    <3>5. Begun(q, p)' = Begun(q, p) + 0 /\ wire'[p][q] = wire[p][q]
      BY <2>1, <3>3, <3>4
    <3>6. WireAt(p, q)'
      BY <3>1, <3>2, <3>4, <3>5, WireMoves
    <3> QED BY <3>2, <3>3, <3>6
  <2>3. \A p \in Proc : isFlush'[p] = Mode(p)[pc'[p]]
    BY <2>1 DEF CInv
  <2> QED BY <2>1, <2>2, <2>3 DEF CInv
<1>2. ASSUME NEW p \in Proc, Step(p) PROVE CInv'
  BY <1>2, TransferKeeps, FlushKeeps, FlushPeerKeeps, SetModeKeeps DEF Step
<1>3. CASE Terminated
  BY <1>1, <1>3 DEF Terminated
<1> QED BY <1>1, <1>2, <1>3 DEF Next

LEMMA CInvAlways == ASSUME Matched PROVE Spec => [](TInv /\ CInv)
<1>1. Init => TInv /\ CInv
  BY TInvInit, CInvInit
<1>2. TInv /\ CInv /\ [Next]_vars => (TInv /\ CInv)'
  BY TInvStep, CInvStep
<1> QED BY <1>1, <1>2, PTL DEF Spec

-------------------------------------------------------------------------------
(* What matching programs cannot do to each other, in any order of the     *)
(* processes, with any room in the sockets                                 *)

(* No process ever reads a message its protocol does not expect there.     *)
THEOREM NoCrossTalkAlways == ASSUME Matched PROVE Spec => []NoCrossTalk
<1>1. TInv /\ CInv => NoCrossTalk
  <2> SUFFICES ASSUME TInv, CInv, NEW p \in Proc, AtCall(p), IsTransfer(Call(p)),
                      NEW q \in Proc, q \in RecvPeers(Call(p)), Readable(p, q)
               PROVE  IsPrefix(Tags(Call(p), Receives, q), Block(p, q))
    <3>1. ASSUME TInv, NEW p \in Proc, AtCall(p), IsTransfer(Call(p))
          PROVE  RecvPeers(Call(p)) \subseteq Proc
      BY <3>1, AtCallIs, TransferCall
    <3> QED BY <3>1 DEF NoCrossTalk
  <2>1. PICK k : k = pc[p] + 1
    OBVIOUS
  <2>2. k \in 1 .. Len(Calls[p]) /\ pc[p] = k - 1 /\ Call(p) = Calls[p][k]
    BY <2>1, AtCallIs
  <2>3. PICK t : t = Tags(Call(p), Receives, q)
    OBVIOUS
  <2>4. t # << >>
    BY <2>2, <2>3, TransferCall
  <2>5. PICK u : u = SubSeq(Block(p, q), Len(t) + 1, Len(Block(p, q)))
    OBVIOUS
  <2>6. Reads(q, p, k, t, u)
    BY <2>2, <2>3, <2>4, <2>5 DEF Reads, Remains, Suffix
  <2>7. PICK g : g = Gets(p, q)[k - 1]
    OBVIOUS
  <2>8. PICK now : Joins(now, g.now, t)
    BY DEF Joins
  <2>9. PICK b : b = Batches(q, p)[Len(g.past) + 1]
    OBVIOUS
  <2>10. ReaderAt(p, q) /\ WireAt(q, p)
    BY DEF CInv
  <2>11. ReadsAsExpected(q, p, k, t, u, now, b)
    BY <2>2, <2>6, <2>7, <2>8, <2>9, <2>10, ReadOnLink
  <2> QED BY <2>3, <2>4, <2>11 DEF ReadsAsExpected
<1> QED BY <1>1, CInvAlways, PTL

(* No flush ever throws away a message that has arrived.                   *)
THEOREM NothingDroppedAlways == ASSUME Matched PROVE Spec => []NothingDropped
<1>1. TInv /\ CInv => NothingDropped
  BY DEF CInv, NothingDropped
<1> QED BY <1>1, CInvAlways, PTL

(* Where all processes have returned, nothing is left in a buffer, in a    *)
(* block or on the wire: whatever has been sent has been read.             *)
THEOREM DrainedAlways == ASSUME Matched PROVE Spec => []Drained
<1>1. TInv /\ CInv => Drained
  <2> SUFFICES ASSUME TInv, CInv, Done, NEW p \in Proc, NEW q \in Proc
               PROVE  out[p][q] = << >> /\ wire[p][q] = << >> /\ rest[q][p] = << >>
    BY DEF Drained
  <2>1. pc[p] = Len(Calls[p]) /\ pc[q] = Len(Calls[q]) /\ q \notin todo[p]
    BY DEF Done, Finished
  <2>2. SenderAt(p, q) /\ WireAt(p, q) /\ ReaderAt(q, p)
    BY DEF CInv
  <2>3. Len(Calls[p]) \in 0 .. Len(Calls[p]) /\ Len(Calls[q]) \in 0 .. Len(Calls[q])
    BY CallIs
  <2>4. PICK s \in Group : s = Puts(p, q)[Len(Calls[p])]
    BY <2>3, GroupsAre DEF Puts
  <2>5. PICK r \in Group : r = Gets(q, p)[Len(Calls[q])]
    BY <2>3, GroupsAre DEF Gets
  <2>6. s.now = << >> /\ s.past = Joined(r)
    BY <2>4, <2>5 DEF Matched
  <2>7. out[p][q] = << >>
    BY <2>1, <2>2, <2>4, <2>6 DEF SenderAt
  <2>8. Written(p, q) = Len(s.past) - 0
    BY <2>1, <2>4 DEF Written
  <2>9. p \in open[q] <=> r.now # << >>
    BY <2>1, <2>2, <2>5 DEF ReaderAt
  <2>10. Batches(p, q) = s.past
    BY <2>4 DEF Batches
  <2>11. PICK x \in Seq(Tag) : x = r.now
    BY DEF Group
  <2>12. PICK c \in Seq(Seq(Tag)) : c = r.past
    BY DEF Group
  <2>13. s.past = IF x = << >> THEN c ELSE Append(c, x)
    BY <2>6, <2>11, <2>12 DEF Joined
  <2>14. wire[p][q] \in Seq(Seq(Tag))
    BY DEF TInv
  <2>15. CASE x = << >>
    <3>1. p \notin open[q] /\ rest[q][p] = << >>
      BY <2>2, <2>9, <2>11, <2>15 DEF ReaderAt
    <3>2. PICK n \in Nat : n = Len(c)
      BY <2>12
    <3>3. Begun(q, p) = n + 0 /\ Written(p, q) = n - 0
      BY <2>1, <2>5, <2>8, <2>12, <2>13, <2>15, <3>1, <3>2 DEF Begun
    <3>4. Len(wire[p][q]) = 0
      BY <2>2, <3>3 DEF WireAt
    <3>5. wire[p][q] = << >>
      BY <2>14, <3>4
    <3> QED BY <2>7, <3>1, <3>5
  <2>16. CASE x # << >>
    <3>1. p \in open[q]
      BY <2>9, <2>11, <2>16
    <3>2. PICK n \in Nat : n = Len(c)
      BY <2>12
    <3>3. s.past = Append(c, x)
      BY <2>13, <2>16
    <3>4. Len(Append(c, x)) = n + 1 /\ Append(c, x)[n + 1] = x
      BY <2>11, <2>12, <3>2, AppendIs
    <3>5. Begun(q, p) = n + 1
      BY <2>1, <2>5, <2>12, <3>1, <3>2 DEF Begun
    <3>6. Written(p, q) = (n + 1) - 0
      BY <2>8, <3>3, <3>4
    <3>7. Len(wire[p][q]) = 0
      BY <2>2, <3>5, <3>6 DEF WireAt
    <3>8. wire[p][q] = << >>
      BY <2>14, <3>7
    <3>9. Batches(p, q)[Begun(q, p)] = x
      BY <2>10, <3>3, <3>4, <3>5
    <3>10. rest[q][p] = SubSeq(x, Len(x) + 1, Len(x))
      BY <2>1, <2>2, <2>5, <2>11, <3>1, <3>9 DEF ReaderAt
    <3>11. rest[q][p] = << >>
      BY <3>10, NothingLeft
    <3> QED BY <2>7, <3>8, <3>11
  <2> QED BY <2>15, <2>16
<1> QED BY <1>1, CInvAlways, PTL

-------------------------------------------------------------------------------
(* The processes never all wait: of those that have calls to make, the one *)
(* whose call comes first in a schedule need not wait for any other.       *)

LEMMA Monotone ==
  ASSUME NEW n \in Nat, NEW f \in [0 .. n -> Nat], \A k \in 1 .. n : f[k - 1] <= f[k],
         NEW j \in 0 .. n, NEW k \in 0 .. n, j <= k
  PROVE  f[j] <= f[k]
<1> DEFINE P == { m \in Nat : j + m <= n => f[j] <= f[j + m] }
<1>1. 0 \in P
  BY DEF P
<1>2. ASSUME NEW m \in Nat, m \in P
      PROVE  m + 1 \in P
  <2> SUFFICES ASSUME j + (m + 1) <= n PROVE f[j] <= f[j + (m + 1)]
    OBVIOUS
  <2>1. f[j] <= f[j + m]
    BY <1>2
  <2>2. PICK i \in 1 .. n : i = j + (m + 1)
    OBVIOUS
  <2>3. i - 1 = j + m /\ j + m \in 0 .. n /\ i \in 0 .. n
    BY <2>2
  <2>4. f[j + m] <= f[i]
    BY <2>3
  <2>5. f[j] \in Nat /\ f[j + m] \in Nat /\ f[i] \in Nat
    BY <2>3
  <2> QED BY <2>1, <2>2, <2>4, <2>5
<1> HIDE DEF P
<1>3. \A m \in Nat : m \in P
  BY <1>1, <1>2, CountUp
<1>4. k - j \in Nat /\ j + (k - j) = k
  OBVIOUS
<1>5. k - j \in P
  BY <1>3, <1>4
<1> QED BY <1>4, <1>5 DEF P

LEMMA JoinedLen ==
  ASSUME NEW g \in Group
  PROVE  /\ Len(g.past) \in Nat /\ Len(Joined(g)) \in Nat
         /\ g.now = << >> => Len(Joined(g)) = Len(g.past)
         /\ g.now # << >> => Len(Joined(g)) = Len(g.past) + 1
<1>1. PICK s \in Seq(Seq(Tag)) : s = g.past
  BY DEF Group
<1>2. PICK x \in Seq(Tag) : x = g.now
  BY DEF Group
<1>3. Joined(g) = IF x = << >> THEN s ELSE Append(s, x)
  BY <1>1, <1>2 DEF Joined
<1>4. Len(s) \in Nat /\ Len(Append(s, x)) = Len(s) + 1
  BY AppendIs
<1> QED BY <1>1, <1>2, <1>3, <1>4

(* What a call makes of the groups: past and joined, they only grow, and   *)
(* joined they have one more than past before if the call adds to them     *)
LEMMA GroupStep ==
  ASSUME NEW p \in Proc, NEW k \in 1 .. Len(Calls[p]), NEW ops, NEW q,
         NEW g \in Group, g = Groups(p, ops, q)[k - 1], NEW h \in Group, h = Groups(p, ops, q)[k]
  PROVE  /\ Len(g.past) <= Len(h.past) /\ Len(Joined(g)) <= Len(Joined(h))
         /\ Tags(Calls[p][k], ops, q) # << >> => Len(Joined(h)) = Len(g.past) + 1
<1>1. PICK t \in Seq(Tag) : t = Tags(Calls[p][k], ops, q)
  BY CallTags
<1>2. PICK x \in Seq(Tag) : x = g.now
  BY DEF Group
<1>3. PICK now : Joins(now, x, t)
  BY DEF Joins
<1>4. now \in Seq(Tag) /\ (now = << >> <=> x = << >> /\ t = << >>)
  BY <1>3, JoinsIs
<1>5. h = GroupNext(p, ops, q, k, g)
  BY GroupsAre
<1>6. Grows(FlushesAt(p, k), g, now, h)
  BY <1>1, <1>2, <1>3, <1>5, GroupMoves
<1>7. PICK m \in Nat : m = Len(g.past)
  BY JoinedLen
<1>8. PICK n \in Nat : n = Len(h.past)
  BY JoinedLen
<1>9. PICK jg \in Nat : jg = Len(Joined(g)) /\ (x = << >> => jg = m) /\ (x # << >> => jg = m + 1)
  BY <1>2, <1>7, JoinedLen
<1>10. PICK jh \in Nat : jh = Len(Joined(h)) /\ (h.now = << >> => jh = n) /\ (h.now # << >> => jh = n + 1)
  BY <1>8, JoinedLen
<1> SUFFICES m <= n /\ jg <= jh /\ (t # << >> => jh = m + 1)
  BY <1>1, <1>7, <1>8, <1>9, <1>10, Zenon
<1>11. CASE FlushesAt(p, k) /\ now # << >>
  <2>1. h.now = << >> /\ n = m + 1
    BY <1>6, <1>7, <1>8, <1>11 DEF Grows
  <2> QED BY <1>9, <1>10, <2>1
<1>12. CASE ~(FlushesAt(p, k) /\ now # << >>)
  <2>1. h.now = now /\ n = m
    BY <1>6, <1>7, <1>8, <1>12 DEF Grows
  <2>2. CASE now = << >>
    BY <1>4, <1>9, <1>10, <2>1, <2>2
  <2>3. CASE now # << >>
    BY <1>9, <1>10, <2>1, <2>3
  <2> QED BY <2>2, <2>3
<1> QED BY <1>11, <1>12

LEMMA Counts ==
  ASSUME NEW p \in Proc, NEW q \in Proc
  PROVE  /\ \A k \in 0 .. Len(Calls[p]) : Ended[p][q][k] = Len(Puts(p, q)[k].past)
         /\ \A k \in 0 .. Len(Calls[p]) : Opened[p][q][k] = Len(Joined(Gets(p, q)[k]))
BY DEF Ended, Opened

LEMMA EndedGrows ==
  ASSUME NEW p \in Proc, NEW q \in Proc
  PROVE  /\ \A k \in 0 .. Len(Calls[p]) : Ended[p][q][k] \in Nat
         /\ \A j, k \in 0 .. Len(Calls[p]) : j <= k => Ended[p][q][j] <= Ended[p][q][k]
<1>1. PICK n \in Nat : n = Len(Calls[p])
  BY CallIs
<1>2. PICK f : f = Ended[p][q]
  OBVIOUS
<1>3. f = [k \in 0 .. n |-> Len(Puts(p, q)[k].past)]
  BY <1>1, <1>2 DEF Ended
<1>4. ASSUME NEW k \in 0 .. n PROVE Len(Puts(p, q)[k].past) \in Nat
  <2>1. PICK g \in Group : g = Puts(p, q)[k]
    BY <1>1, GroupsAre DEF Puts
  <2> QED BY <2>1, JoinedLen
<1>5. f \in [0 .. n -> Nat]
  BY <1>3, <1>4
<1>6. ASSUME NEW k \in 1 .. n PROVE f[k - 1] <= f[k]
  <2>1. k - 1 \in 0 .. n /\ k \in 0 .. n
    BY <1>1
  <2>2. PICK g \in Group : g = Puts(p, q)[k - 1]
    BY <1>1, <2>1, GroupsAre DEF Puts
  <2>3. PICK h \in Group : h = Puts(p, q)[k]
    BY <1>1, <2>1, GroupsAre DEF Puts
  <2>4. Len(g.past) <= Len(h.past)
    BY <1>1, <2>2, <2>3, GroupStep DEF Puts
  <2> QED BY <1>3, <2>1, <2>2, <2>3, <2>4
<1>7. \A j, k \in 0 .. n : j <= k => f[j] <= f[k]
  BY <1>5, <1>6, Monotone
<1> QED BY <1>1, <1>2, <1>5, <1>7

LEMMA OpenedGrows ==
  ASSUME NEW p \in Proc, NEW q \in Proc
  PROVE  /\ \A k \in 0 .. Len(Calls[p]) : Opened[p][q][k] \in Nat
         /\ \A j, k \in 0 .. Len(Calls[p]) : j <= k => Opened[p][q][j] <= Opened[p][q][k]
<1>1. PICK n \in Nat : n = Len(Calls[p])
  BY CallIs
<1>2. PICK f : f = Opened[p][q]
  OBVIOUS
<1>3. f = [k \in 0 .. n |-> Len(Joined(Gets(p, q)[k]))]
  BY <1>1, <1>2 DEF Opened
<1>4. ASSUME NEW k \in 0 .. n PROVE Len(Joined(Gets(p, q)[k])) \in Nat
  <2>1. PICK g \in Group : g = Gets(p, q)[k]
    BY <1>1, GroupsAre DEF Gets
  <2> QED BY <2>1, JoinedLen
<1>5. f \in [0 .. n -> Nat]
  BY <1>3, <1>4
<1>6. ASSUME NEW k \in 1 .. n PROVE f[k - 1] <= f[k]
  <2>1. k - 1 \in 0 .. n /\ k \in 0 .. n
    BY <1>1
  <2>2. PICK g \in Group : g = Gets(p, q)[k - 1]
    BY <1>1, <2>1, GroupsAre DEF Gets
  <2>3. PICK h \in Group : h = Gets(p, q)[k]
    BY <1>1, <2>1, GroupsAre DEF Gets
  <2>4. Len(Joined(g)) <= Len(Joined(h))
    BY <1>1, <2>2, <2>3, GroupStep DEF Gets
  <2> QED BY <1>3, <2>1, <2>2, <2>3, <2>4
<1>7. \A j, k \in 0 .. n : j <= k => f[j] <= f[k]
  BY <1>5, <1>6, Monotone
<1> QED BY <1>1, <1>2, <1>5, <1>7

(* The places on the links, by the programs *)
LEMMA BegunIs ==
  ASSUME TInv, CInv, NEW p \in Proc, NEW q \in Proc
  PROVE  Begun(q, p) = Opened[q][p][pc[q]]
<1>1. pc[q] \in 0 .. Len(Calls[q])
  BY CallIs DEF TInv
<1>2. PICK g \in Group : g = Gets(q, p)[pc[q]]
  BY <1>1, GroupsAre DEF Gets
<1>3. p \in open[q] <=> g.now # << >>
  BY <1>2 DEF CInv, ReaderAt
<1>4. PICK m \in Nat : m = Len(g.past)
  BY JoinedLen
<1>5. PICK j \in Nat : j = Len(Joined(g)) /\ (g.now = << >> => j = m) /\ (g.now # << >> => j = m + 1)
  BY <1>4, JoinedLen
<1>6. Opened[q][p][pc[q]] = j
  BY <1>1, <1>2, <1>5, Counts
<1>7. p \in open[q] => Begun(q, p) = m + 1
  BY <1>2, <1>4 DEF Begun
<1>8. p \notin open[q] => Begun(q, p) = m + 0
  BY <1>2, <1>4 DEF Begun
<1> QED BY <1>3, <1>5, <1>6, <1>7, <1>8

LEMMA WrittenIs ==
  ASSUME TInv, CInv, NEW p \in Proc, NEW q \in Proc
  PROVE  /\ q \notin todo[p] => Written(p, q) = Ended[p][q][pc[p]]
         /\ q \in todo[p] => /\ pc[p] > 0 /\ Written(p, q) = Ended[p][q][pc[p] - 1]
                             /\ Ended[p][q][pc[p]] = Written(p, q) + 1
<1>1. pc[p] \in 0 .. Len(Calls[p])
  BY CallIs DEF TInv
<1>2. PICK n \in Nat : n = Ended[p][q][pc[p]]
  BY <1>1, EndedGrows
<1>3. n = Len(Puts(p, q)[pc[p]].past)
  BY <1>1, <1>2, Counts
<1>4. q \notin todo[p] => Written(p, q) = n - 0
  BY <1>3 DEF Written
<1>5. q \in todo[p] => Written(p, q) = n - 1
  BY <1>3 DEF Written
<1>6. ASSUME q \in todo[p]
      PROVE  pc[p] > 0 /\ n = Ended[p][q][pc[p] - 1] + 1 /\ Ended[p][q][pc[p] - 1] \in Nat
  <2>1. pc[p] > 0 /\ Len(Puts(p, q)[pc[p]].past) = Len(Puts(p, q)[pc[p] - 1].past) + 1
    BY <1>6 DEF CInv, SenderAt
  <2>2. pc[p] - 1 \in 0 .. Len(Calls[p])
    BY <1>1, <2>1
  <2>3. PICK m \in Nat : m = Ended[p][q][pc[p] - 1]
    BY <2>2, EndedGrows
  <2>4. m = Len(Puts(p, q)[pc[p] - 1].past)
    BY <2>2, <2>3, Counts
  <2> QED BY <1>3, <2>1, <2>3, <2>4
<1> QED BY <1>2, <1>4, <1>5, <1>6

(* The call p is at: the one it is in, or its next one *)
Turn(p) == IF todo[p] = {} THEN pc[p] + 1 ELSE pc[p]

LEMMA TurnIs ==
  ASSUME TInv, CInv, NEW p \in Proc, ~Finished(p)
  PROVE  Turn(p) \in 1 .. Len(Calls[p])
<1>1. pc[p] \in 0 .. Len(Calls[p]) /\ Len(Calls[p]) \in Nat
  BY CallIs DEF TInv
<1>2. CASE todo[p] = {}
  <2>1. pc[p] # Len(Calls[p]) /\ Turn(p) = pc[p] + 1
    BY <1>2 DEF Finished, Turn
  <2> QED BY <1>1, <2>1
<1>3. CASE todo[p] # {}
  <2>1. PICK q \in Proc : q \in todo[p]
    BY <1>3 DEF TInv
  <2>2. pc[p] > 0 /\ Turn(p) = pc[p]
    BY <1>3, <2>1, WrittenIs DEF Turn
  <2> QED BY <1>1, <2>2
<1> QED BY <1>2, <1>3

(* What q has done if it is past its j-th call *)
LEMMA PastCall ==
  ASSUME TInv, CInv, NEW p \in Proc, NEW q \in Proc, NEW j \in 1 .. Len(Calls[q]), ~Finished(q) => j < Turn(q)
  PROVE  Opened[q][p][j] <= Begun(q, p) /\ Ended[q][p][j] <= Written(q, p)
<1>1. pc[q] \in 0 .. Len(Calls[q]) /\ j \in 0 .. Len(Calls[q]) /\ Len(Calls[q]) \in Nat
  BY CallIs DEF TInv
<1>2. j <= pc[q] /\ (todo[q] # {} => j <= pc[q] - 1)
  <2>1. CASE Finished(q)
    BY <1>1, <2>1 DEF Finished
  <2>2. CASE ~Finished(q) /\ todo[q] = {}
    <3>1. j < pc[q] + 1
      BY <2>2 DEF Turn
    <3> QED BY <1>1, <2>2, <3>1
  <2>3. CASE ~Finished(q) /\ todo[q] # {}
    <3>1. j < pc[q]
      BY <2>3 DEF Turn
    <3> QED BY <1>1, <3>1
  <2> QED BY <2>1, <2>2, <2>3
<1>3. Opened[q][p][j] <= Begun(q, p)
  BY <1>1, <1>2, OpenedGrows, BegunIs
<1>4. Ended[q][p][j] <= Written(q, p)
  <2>1. CASE p \notin todo[q]
    BY <1>1, <1>2, <2>1, EndedGrows, WrittenIs
  <2>2. CASE p \in todo[q]
    <3>1. pc[q] > 0 /\ Written(q, p) = Ended[q][p][pc[q] - 1] /\ j <= pc[q] - 1
      BY <1>2, <2>2, WrittenIs
    <3>2. pc[q] - 1 \in 0 .. Len(Calls[q])
      BY <1>1, <3>1
    <3> QED BY <1>1, <3>1, <3>2, EndedGrows
  <2> QED BY <2>1, <2>2
<1> QED BY <1>3, <1>4

LEMMA InOrder ==
  ASSUME NEW time, Scheduled(time), NEW q \in Proc, NEW j \in 1 .. Len(Calls[q]), NEW k \in 1 .. Len(Calls[q]),
         time[q][j] < time[q][k]
  PROVE  j < k
<1>1. time[q][j] \in Nat /\ time[q][k] \in Nat /\ \A i \in 1 .. (j - 1) : time[q][i] < time[q][j]
  BY DEF Scheduled
<1>2. Len(Calls[q]) \in Nat
  BY CallIs
<1>3. CASE k < j
  <2>1. k \in 1 .. (j - 1)
    BY <1>2, <1>3
  <2>2. time[q][k] < time[q][j]
    BY <1>1, <2>1
  <2> QED BY <1>1, <2>2
<1>4. CASE k = j
  BY <1>1, <1>4
<1> QED BY <1>2, <1>3, <1>4

(* p is not behind any other process in the schedule *)
First(p, time) ==
  ~Finished(p) /\ \A q \in Proc : ~Finished(q) => time[p][Turn(p)] <= time[q][Turn(q)]

LEMMA SomebodyIsFirst ==
  ASSUME TInv, CInv, NEW time, Scheduled(time), ~Done
  PROVE  \E p \in Proc : First(p, time)
<1> DEFINE Late == { p \in Proc : ~Finished(p) }
           T == { time[p][Turn(p)] : p \in Late }
<1>1. \A p \in Late : time[p][Turn(p)] \in Nat
  BY TurnIs DEF Scheduled
<1>2. Late # {}
  BY DEF Done
<1>3. T \subseteq Nat /\ T # {}
  BY <1>1, <1>2
<1>4. PICK m \in T : \A k \in T : m <= k
  BY <1>3, Smallest
<1>5. PICK p \in Late : m = time[p][Turn(p)]
  BY <1>4
<1>6. \A q \in Late : m <= time[q][Turn(q)]
  BY <1>4
<1> QED BY <1>5, <1>6 DEF First

(* What the first process needs of q is done *)
LEMMA FirstFinds ==
  ASSUME TInv, CInv, NEW time, Scheduled(time), NEW p \in Proc, First(p, time), NEW q \in Proc,
         NEW j \in 1 .. Len(Calls[q]), time[q][j] < time[p][Turn(p)]
  PROVE  Opened[q][p][j] <= Begun(q, p) /\ Ended[q][p][j] <= Written(q, p)
<1>1. ASSUME ~Finished(q) PROVE j < Turn(q)
  <2>1. Turn(q) \in 1 .. Len(Calls[q]) /\ Turn(p) \in 1 .. Len(Calls[p])
    BY <1>1, TurnIs DEF First
  <2>2. time[p][Turn(p)] <= time[q][Turn(q)]
    BY <1>1 DEF First
  <2>3. time[q][j] \in Nat /\ time[p][Turn(p)] \in Nat /\ time[q][Turn(q)] \in Nat
    BY <2>1 DEF Scheduled
  <2>4. time[q][j] < time[q][Turn(q)]
    BY <2>2, <2>3
  <2> QED BY <2>1, <2>4, InOrder
<1> QED BY <1>1, PastCall

LEMMA FirstMayCall ==
  ASSUME TInv, CInv, NEW time, Scheduled(time), NEW p \in Proc, First(p, time), todo[p] = {}
  PROVE  MayCall(p)
<1>1. PICK k \in 1 .. Len(Calls[p]) : k = Turn(p)
  BY TurnIs DEF First
<1>2. pc[p] \in 0 .. Len(Calls[p]) /\ k = pc[p] + 1 /\ Len(Calls[p]) \in Nat
  BY <1>1, CallIs DEF TInv, Turn
<1>3. AtCall(p) /\ Call(p) = Calls[p][k]
  BY <1>2 DEF AtCall, Call
<1>4. ASSUME IsTransfer(Call(p)), NEW q \in RecvPeers(Call(p))
      PROVE  Readable(p, q)
  <2>1. q \in Proc /\ Tags(Calls[p][k], Receives, q) # << >>
    BY <1>3, <1>4, TransferCall
  <2>2. SUFFICES ASSUME q \notin open[p] PROVE wire[q][p] # << >>
    BY DEF Readable
  <2>3. k - 1 \in 0 .. Len(Calls[p]) /\ k \in 0 .. Len(Calls[p]) /\ k - 1 = pc[p]
    BY <1>2
  <2>4. PICK g \in Group : g = Gets(p, q)[k - 1]
    BY <2>3, GroupsAre DEF Gets
  <2>5. PICK h \in Group : h = Gets(p, q)[k]
    BY <2>3, GroupsAre DEF Gets
  <2>6. PICK m \in Nat : m = Len(g.past)
    BY JoinedLen
  <2>7. Len(Joined(h)) = m + 1
    BY <2>1, <2>4, <2>5, <2>6, GroupStep DEF Gets
  <2>8. Opened[p][q][k] = m + 1
    BY <2>1, <2>3, <2>5, <2>7, Counts
  <2>9. Begun(p, q) = m + 0
    BY <2>2, <2>3, <2>4, <2>6 DEF Begun
  <2>10. PICK j \in 1 .. Len(Calls[q]) : Ended[q][p][j] >= Opened[p][q][k] /\ time[q][j] < time[p][k]
    <3>1. Opened[p][q][k] > 0
      BY <2>6, <2>8
    <3> QED BY <2>1, <3>1 DEF Scheduled
  <2>11. Ended[q][p][j] <= Written(q, p)
    BY <1>1, <2>1, <2>10, FirstFinds
  <2>12. Ended[q][p][j] \in Nat /\ Written(q, p) \in Int
    <3>1. j \in 0 .. Len(Calls[q])
      BY <2>1, CallIs
    <3> QED BY <2>1, <3>1, EndedGrows, PlacesAre
  <2>13. Len(wire[q][p]) = Written(q, p) - Begun(p, q)
    BY <2>1 DEF CInv, WireAt
  <2>14. Len(wire[q][p]) > 0
    BY <2>6, <2>8, <2>9, <2>10, <2>11, <2>12, <2>13
  <2>15. Len(<< >>) = 0
    OBVIOUS
  <2> QED BY <2>14, <2>15
<1> QED BY <1>3, <1>4 DEF MayCall

LEMMA FirstMayWrite ==
  ASSUME TInv, CInv, NEW time, Scheduled(time), NEW p \in Proc, First(p, time), todo[p] # {}
  PROVE  \E i \in DOMAIN Processes : MayWrite(p, i, Cap)
<1>1. PICK i \in DOMAIN Processes : /\ Processes[i] \in todo[p]
                                    /\ \A j \in 1 .. (i - 1) : Processes[j] \notin todo[p]
  <2> DEFINE T == { i \in DOMAIN Processes : Processes[i] \in todo[p] }
  <2>1. DOMAIN Processes = 1 .. Len(Processes) /\ Len(Processes) \in Nat
    BY ProcessesAssumption
  <2>2. T \subseteq Nat
    BY <2>1
  <2>3. T # {}
    <3>1. PICK q \in Proc : q \in todo[p]
      BY DEF TInv
    <3>2. PICK i \in DOMAIN Processes : q = Processes[i]
      BY <2>1, <3>1 DEF Proc, ToSet
    <3> QED BY <3>1, <3>2
  <2>4. PICK i \in T : \A k \in T : i <= k
    BY <2>2, <2>3, Smallest
  <2>5. ASSUME NEW j \in 1 .. (i - 1) PROVE Processes[j] \notin todo[p]
    <3>1. j \in DOMAIN Processes /\ ~(i <= j)
      BY <2>1, <2>2, <2>4
    <3> QED BY <2>4, <3>1
  <2> QED BY <2>4, <2>5
<1>2. PICK q \in Proc : q = Processes[i]
  BY <1>1 DEF TInv
<1>3. PICK k \in 1 .. Len(Calls[p]) : k = Turn(p)
  BY TurnIs DEF First
<1>4. k = pc[p] /\ k \in 0 .. Len(Calls[p])
  BY <1>3, CallIs DEF Turn
<1>5. PICK e \in Nat : e = Ended[p][q][k]
  BY <1>4, EndedGrows
<1>6. e = Written(p, q) + 1
  BY <1>1, <1>2, <1>4, <1>5, WrittenIs
<1>7. Written(p, q) \in Int /\ Begun(q, p) \in Nat /\ Cap \in Nat
  BY PlacesAre, CapAssumption
<1>8. Len(wire[p][q]) = Written(p, q) - Begun(q, p)
  BY DEF CInv, WireAt
<1>9. Len(wire[p][q]) < Cap
  <2>1. CASE e <= Cap
    BY <1>5, <1>6, <1>7, <1>8, <2>1
  <2>2. CASE e > Cap
    <3>1. PICK j \in 1 .. Len(Calls[q]) : Opened[q][p][j] >= e - Cap /\ time[q][j] < time[p][k]
      BY <1>5, <2>2 DEF Scheduled
    <3>2. Opened[q][p][j] <= Begun(q, p)
      BY <1>3, <3>1, FirstFinds
    <3>3. Opened[q][p][j] \in Nat
      <4>1. j \in 0 .. Len(Calls[q])
        BY CallIs
      <4> QED BY <4>1, OpenedGrows
    <3>4. PICK w \in Int : w = Written(p, q)
      BY <1>7
    <3>5. PICK b \in Int : b = Begun(q, p)
      BY <1>7
    <3>6. PICK o \in Int : o = Opened[q][p][j]
      BY <3>3
    <3>7. e = w + 1 /\ o <= b /\ o >= e - Cap
      BY <1>6, <3>1, <3>2, <3>4, <3>5, <3>6, Zenon
    <3>8. w - b < Cap
      BY <1>5, <1>7, <3>7
    <3> QED BY <1>8, <3>4, <3>5, <3>8, Zenon
  <2> QED BY <1>5, <1>7, <2>1, <2>2
<1> QED BY <1>1, <1>2, <1>9 DEF MayWrite

(* If the calls of matching programs can be put into one order in which     *)
(* nobody has to wait, then in no order of the processes they come to wait  *)
(* all for each other, in fread or in fflush, before all have returned.     *)
THEOREM NoStandstill ==
  ASSUME Matched, NEW time, Scheduled(time)
  PROVE  Spec => []SomebodyRuns
<1>1. TInv /\ CInv => SomebodyRuns
  <2> SUFFICES ASSUME TInv, CInv, ~Done
               PROVE  \E p \in Proc : MayCall(p) \/ \E k \in DOMAIN Processes : MayWrite(p, k, Cap)
    BY DEF SomebodyRuns
  <2>1. PICK p \in Proc : First(p, time)
    BY SomebodyIsFirst
  <2>2. CASE todo[p] = {}
    BY <2>1, <2>2, FirstMayCall
  <2>3. CASE todo[p] # {}
    BY <2>1, <2>3, FirstMayWrite
  <2> QED BY <2>2, <2>3
<1> QED BY <1>1, CInvAlways, PTL
===============================================================================
