------------------------------ MODULE AuditRounds ------------------------------
(***************************************************************************)
(* The messages of the auditable library (protocol/auditable, and the BMR  *)
(* engine it calls) as P2PChannel programs.  Unlike the four-party         *)
(* protocols it runs with flush mode on throughout, and mixes calls that   *)
(* flush after themselves with bloadcast, which does, and recv_all, which  *)
(* does not.                                                               *)
(*                                                                         *)
(* ReluProgram is relu of auditable.cc on a value that player0 shares;    *)
(* MultProgram is the main of testAB.cpp.                                  *)
(***************************************************************************)
EXTENDS P2PChannel

Owner == "player0"   \* owner and verifier, in every call of the library

ASSUME OwnerAssumption == Owner \in Proc

(* subio is a map: the peers of p in the order of their names *)
Peers(p) == SelectSeq(Processes, LAMBDA q : q # p)

(* One call for each process of ps, in their order *)
Each(ps, call(_)) == [k \in DOMAIN ps |-> << call(ps[k]) >>]

(* get_seed between the owner and q: the owner, whose name is the smaller,  *)
(* sends it                                                                 *)
GetSeed(p, q, tag) ==
  (IF p = Owner THEN << << SendTo(q, tag) >> >> ELSE << << RecvFrom(Owner, tag) >> >>)
    \o << FlushAll >>

(* add_share: the owner shares one seed after the other; the owner is a     *)
(* holder, so that no data follow                                           *)
AddShare(p, tag) ==
  IF p = Owner THEN FlattenSeq([k \in DOMAIN Peers(p) |-> GetSeed(p, Peers(p)[k], tag)])
               ELSE GetSeed(p, p, tag)

(* add_reveal to the owner *)
AddReveal(p, tag) ==
  IF p = Owner THEN Each(Peers(p), LAMBDA q : RecvFrom(q, tag)) ELSE << << SendTo(Owner, tag) >> >>

(* add_reveal to a set of players, here all of them: all sends come first   *)
BugAddRevealAll(p, tag) ==
  Each(Peers(p), LAMBDA q : RecvFrom(q, tag)) \o Each(Peers(p), LAMBDA q : SendTo(q, tag))
AddRevealAll(p, tag) ==
  Each(Peers(p), LAMBDA q : SendTo(q, tag)) \o Each(Peers(p), LAMBDA q : RecvFrom(q, tag))

(* The pattern of all openings: bloadcast, then recv_all *)
Exchange(p, tag) == Bloadcast(Peers(p), tag) \o RecvAllFrom(Peers(p), tag)

-------------------------------------------------------------------------------
(* SPDZ and SPDZXOR *)

SpdzShare(p) == AddShare(p, "m") \o AddShare(p, "r")
SpdzReveal(p) == AddReveal(p, "ms_rs")
XorShare(p) == AddShare(p, "rs_p") \o AddShare(p, "b")
XorReveal(p) == AddReveal(p, "rs") \o AddRevealAll(p, "bs")

(* SPDZ::prepare shares a, b and c *)
Prepare(p) == SpdzShare(p) \o SpdzShare(p) \o SpdzShare(p)

(* SPDZ::mult opens the two differences and does not flush *)
Mult(p) == Exchange(p, "alphas_beta")

-------------------------------------------------------------------------------
(* BMR with the owner's masks *)

(* The constructor *)
BmrNew(p) == XorShare(p) \o << FlushAll >>

(* offline opens the masks of the wires, then the shares of the tables *)
BmrOffline(p) ==
  Exchange(p, "maskbits") \o << FlushAll >> \o Exchange(p, "tabs") \o << FlushAll >>

(* online(verify) opens the labels; the caller flushes *)
BmrOnline(p) == Exchange(p, "Ks_pickeds")

-------------------------------------------------------------------------------
(* Audit_AY *)

Offline(p) == BmrNew(p) \o BmrOffline(p) \o SpdzShare(p) \o XorShare(p)

AuditTransfer(p) ==
  SpdzReveal(p) \o << FlushAll >> \o Exchange(p, "Lambda") \o << FlushAll >>
    \o BmrOnline(p) \o << FlushAll >>

BugRunCir(p) == BmrOnline(p)
RunCir(p) == BmrOnline(p) \o << FlushAll >>
RunCirOffline(p) == BmrNew(p) \o BmrOffline(p)

BugRelu(p) ==   \* at the end the owner opens the bits only
  Offline(p) \o AuditTransfer(p) \o RunCirOffline(p) \o XorReveal(p) \o RunCir(p)
    \o (IF p = Owner THEN AddRevealAll(p, "bs") ELSE XorReveal(p))

(* relu *)
Relu(p) ==
  Offline(p) \o AuditTransfer(p) \o RunCirOffline(p) \o XorReveal(p) \o RunCir(p) \o XorReveal(p)

ReluProgram(p) == SpdzShare(p) \o Relu(p)

(* main of testAB.cpp *)
MultProgram(p) ==
  SpdzShare(p) \o SpdzShare(p) \o Prepare(p) \o << FlushAll >> \o Mult(p) \o SpdzReveal(p)
===============================================================================
