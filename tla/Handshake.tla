------------------------------ MODULE Handshake ------------------------------
(***************************************************************************)
(* How the processes come to have one pair of sockets for every pair of    *)
(* them: the constructors of P2Pchannel and HighSpeedNetIO                 *)
(* (include/net.hpp 140-198, 296-310).  Every process goes through its     *)
(* peers in the order of the map.  Of two processes the one whose number   *)
(* makes the higher port listens, twice; the other dials until somebody    *)
(* listens.  P2PChannel starts where this module ends.                     *)
(*                                                                         *)
(* The processes are on one machine, as config.json has them, so that they *)
(* share one set of ports.  A connection is the pair of its ends; an end   *)
(* is [proc, peer, role], the variable of the object of proc for peer that *)
(* the socket is kept in.                                                  *)
(***************************************************************************)
EXTENDS Integers, Sequences

CONSTANTS
  N,           \* number of processes; 0 .. N-1 is the order of std::map
  Numberings   \* the "port" numbers config.json may give them (a bound)

User == 0 .. (N - 1)

ASSUME NAssumption == N \in Nat \ {0}
(* Numbers of one digit, all different: the ports of two pairs differ *)
ASSUME NumberAssumption ==
  \A f \in Numberings :
    /\ f \in [User -> 0 .. 9]
    /\ \A p, q \in User : f[p] = f[q] => p = q

VARIABLES
  port,        \* the numbers of this run
  at,          \* at[p]: connections p has made
  listening,   \* the processes with a socket in the state LISTEN
  queue,       \* queue[p]: ends that have dialled p's listener, oldest first
  conns,       \* accepted connections
  exited       \* processes that gave up because bind failed

hvars == <<port, at, listening, queue, conns, exited>>

-------------------------------------------------------------------------------
(* Definitions named Bug... are variants of the one that follows, each with *)
(* a mistake the code could have had; no specification here uses them.      *)
BugPeer(p, k) == (p + 1 + k) % N

(* The peers of p in the order of the map, from k = 0 *)
Peer(p, k) == IF k < p THEN k ELSE k + 1

BugPortOf(p, q) == 9000 + port[p] * 3 + port[q]

(* port1 of p for q, which is port2 of q for p *)
PortOf(p, q) == 9000 + port[p] * 10 + port[q]

IsServer(p, q) == PortOf(p, q) > PortOf(q, p)

(* Each object makes two connections *)
Connected(p) == at[p] = 2 * (N - 1)
PeerOf(p) == Peer(p, at[p] \div 2)
IsFirst(p) == at[p] % 2 = 0

(* The port of the connection p is about to make: first the higher one *)
Target(p) ==
  LET q == PeerOf(p)
      high == IF IsServer(p, q) THEN PortOf(p, q) ELSE PortOf(q, p)
      low == IF IsServer(p, q) THEN PortOf(q, p) ELSE PortOf(p, q)
  IN  IF IsFirst(p) THEN high ELSE low

BugRole(p) == IF IsFirst(p) THEN "recv" ELSE "send"

(* The server keeps its first connection in recv_sock, the client in        *)
(* send_sock                                                                *)
Role(p) == IF IsFirst(p) <=> IsServer(p, PeerOf(p)) THEN "recv" ELSE "send"

End(p) == [proc |-> p, peer |-> PeerOf(p), role |-> Role(p)]

HInit ==
  /\ port \in Numberings
  /\ at = [p \in User |-> 0]
  /\ listening = {}
  /\ queue = [p \in User |-> << >>]
  /\ conns = {}
  /\ exited = {}

Running(p) == p \notin exited /\ ~Connected(p)

(* The listeners at the port p is to connect to *)
Listeners(p) == { q \in listening : Target(q) = Target(p) }

(* A server is never held up before accept; in accept it waits for somebody *)
(* to dial, and a client dials in vain until somebody listens.              *)
MayListen(p) == Running(p) /\ IsServer(p, PeerOf(p)) /\ p \notin listening
MayAccept(p) == p \in listening /\ queue[p] # << >>
MayDial(p) == Running(p) /\ ~IsServer(p, PeerOf(p)) /\ Listeners(p) # {}

(* server_listen up to listen: bind fails if the port is taken *)
Listen(p) ==
  /\ MayListen(p)
  /\ IF Listeners(p) # {}
       THEN exited' = exited \cup {p} /\ UNCHANGED listening
       ELSE listening' = listening \cup {p} /\ UNCHANGED exited
  /\ UNCHANGED <<port, at, queue, conns>>

(* server_listen from accept: the listener is closed, and with it what      *)
(* others have dialled                                                      *)
Accept(p) ==
  /\ MayAccept(p)
  /\ conns' = conns \cup { [server |-> End(p), client |-> Head(queue[p])] }
  /\ queue' = [queue EXCEPT ![p] = << >>]
  /\ listening' = listening \ {p}
  /\ at' = [at EXCEPT ![p] = @ + 1]
  /\ UNCHANGED <<port, exited>>

(* client_connect succeeds as soon as somebody listens at the port; while   *)
(* nobody does it tries again                                               *)
Dial(p) ==
  /\ MayDial(p)
  /\ \E q \in Listeners(p) : queue' = [queue EXCEPT ![q] = Append(@, End(p))]
  /\ at' = [at EXCEPT ![p] = @ + 1]
  /\ UNCHANGED <<port, listening, conns, exited>>

AllConnected == \A p \in User : Connected(p)

Constructed == AllConnected /\ UNCHANGED hvars

HStep(p) == Listen(p) \/ Accept(p) \/ Dial(p)

HNext == (\E p \in User : HStep(p)) \/ Constructed

HSpec == HInit /\ [][HNext]_hvars

(* Some process that is not blocked in accept and not dialling in vain goes *)
(* on; each makes finitely many connections                                 *)
HFairSpec == HSpec /\ WF_hvars(\E p \in User : HStep(p))

-------------------------------------------------------------------------------
(* Properties *)

AllEnds == [proc : User, peer : User, role : {"send", "recv"}]

HTypeOK ==
  /\ port \in Numberings
  /\ at \in [User -> 0 .. 2 * (N - 1)]
  /\ \A p \in listening : p \in User /\ Running(p) /\ IsServer(p, PeerOf(p))
  /\ queue \in [User -> Seq(AllEnds)]
  /\ conns \subseteq [server : AllEnds, client : AllEnds]
  /\ exited \subseteq User

(* Every connection joins the two objects that are for each other, and what *)
(* one of them sends on is what the other receives on.                      *)
Cross(e, f) == e.proc = f.peer /\ e.peer = f.proc /\ e.role # f.role

Crosswise == \A k \in conns : Cross(k.server, k.client)

(* Nobody binds a port in use, and nobody dials a listener that another has *)
(* dialled before and that will be closed on it: however far the processes  *)
(* are apart, the ports of the pairs that are connecting differ.            *)
NoClash == exited = {} /\ \A p \in User : Len(queue[p]) <= 1

(* The end that waits in a listener's queue is the one the listener is for, *)
(* and its process has gone on since: it will not dial there again.         *)
Slot(p, q) == IF q < p THEN q ELSE q - 1

Dialled(q) ==
  queue[q] # << >> =>
    LET e == Head(queue[q])
        p == PeerOf(q)
    IN  /\ q \in listening
        /\ Cross(End(q), e)
        /\ at[p] > 2 * Slot(p, q) + (IF IsFirst(q) THEN 0 ELSE 1)

(* The inductive invariant: with the above, nobody clashes *)
HInv == HTypeOK /\ Crosswise /\ NoClash /\ \A q \in User : Dialled(q)

(* There is no circle of processes that wait for each other, in accept or   *)
(* dialling, however far they are apart: all go through their peers in one  *)
(* order, and neither end of a pair is more than one connection ahead.      *)
MayGoOn(p) == MayListen(p) \/ MayAccept(p) \/ MayDial(p)
NeverStuck == AllConnected \/ \E p \in User : MayGoOn(p)

(* The order of the map lets no circle of waiting processes arise: all      *)
(* constructors return, whatever numbers the processes have.                *)
HTermination == <>AllConnected
===============================================================================
