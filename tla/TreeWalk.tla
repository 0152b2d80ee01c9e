-------------------------------- MODULE TreeWalk --------------------------------
(***************************************************************************)
(* A decision tree evaluated by three players none of whom sees the tree   *)
(* or the data (PolyDtEval of protocol/3_parties/outsource_dt.h).  The     *)
(* owner of the tree deposits it in shares.  On every level the players    *)
(* select the node they are at from the tree and the feature it compares   *)
(* from the data, two SOTs, and choose the next node and feature, two      *)
(* CSOTs; all numbers are shares.  They run at their own pace and talk     *)
(* over one queue for each ordered pair, where SubChannel keeps the order. *)
(*                                                                         *)
(* What the players send carries no name of what it is: keys, words and    *)
(* blocks are told apart by their order alone.                             *)
(***************************************************************************)
EXTENDS Csot

CONSTANTS
  Nodes, Feats,  \* node_lens and data_lens
  Deep,          \* levels of the tree
  Trees, Datas,  \* trees and feature values to evaluate (bounds)
  Seeds,         \* runs of the random numbers (a bound)
  Owner          \* whose tree it is

VARIABLES
  seed, tree, data,  \* what is evaluated
  level,             \* the level each player is at
  shares,            \* shares[p]: Ps and Ps_rep
  sks, gks, ics,     \* keys received, for each SOT, and for each CSOT
  sotDeltas, csotDeltas, blocks,  \* matrices of the objects in use
  ki, idi, y,        \* shares of the feature, the node and the result
  x_pick, n_pick     \* shares of what the SOTs select

vars == << seed, tree, data, pc, level, chan, shares, sks, gks, ics,
           sotDeltas, csotDeltas, blocks, ki, idi, y, x_pick, n_pick >>

NodeIds == 0 .. (Nodes - 1)
FeatIds == 0 .. (Feats - 1)
Node == [nl : NodeIds, nr : NodeIds, xl : FeatIds, xr : FeatIds, t : Word, v : Word]

(* A list has fewer elements than an uint16_t counts (SOT::data_lens), of    *)
(* words of 32 bits: positions are words, and so are products of two.        *)
ASSUME SizesAssumption ==
  /\ Nodes \in 1 .. W /\ Nodes * Nodes <= W
  /\ Feats \in 1 .. W /\ Feats * Feats <= W
  /\ Deep \in Nat \ {0}
ASSUME OwnerAssumption == Owner \in Player
ASSUME TreesAssumption ==
  /\ \A tr \in Trees : tr.start \in FeatIds /\ tr.nodes \in [NodeIds -> Node]
  /\ Datas \subseteq [FeatIds -> Word]

(* What is drawn: for the pads of the deposit and of the features, and by   *)
(* the SOTs and the CSOTs of every level                                    *)
Object == ({"deposit"} \X {"nl", "nr", "xl", "xr", "t", "v", "start"} \X {0, 1})
            \cup ({"features"} \X {"x"} \X Player)
            \cup ({"sot", "csot"} \X {"x", "n"} \X (0 .. Deep))
Tag == Object \X {"pad", "pair", "fili", "rou", "z", "zeta"} \X Word \X (0 .. Deep) \X Player

ASSUME RandomAssumption == \A s \in Seeds, tag \in Tag : Random(s, tag) \in Nat

NodeMod == [nl |-> Nodes, nr |-> Nodes, xl |-> Feats, xr |-> Feats, t |-> W, v |-> W]
FeatMod == [x |-> W]
Zeros == [i \in Player |-> [j \in Player |-> 0]]
NoShares == [p \in Player |-> << >>]

Init ==
  /\ seed \in Seeds /\ tree \in Trees /\ data \in Datas
  /\ pc = [p \in Player |-> << "deposit" >>] /\ level = [p \in Player |-> 1]
  /\ chan = NoMessages
  /\ shares = NoShares
  /\ sks = [o \in {"x", "n"} |-> NoShares] /\ gks = [o \in {"x", "n"} |-> NoShares]
  /\ ics = NoShares
  /\ sotDeltas = [o \in {"x", "n"} |-> [p \in Player |-> Zeros]]
  /\ csotDeltas = [o \in {"x", "n"} |-> [p \in Player |-> Zeros]]
  /\ blocks = [o \in {"x", "n"} |-> [p \in Player |-> [q \in Player |-> << 0, 0 >>]]]
  /\ ki = [p \in Player |-> 0] /\ idi = [p \in Player |-> 0] /\ y = [p \in Player |-> 0]
  /\ x_pick = [p \in Player |-> 0] /\ n_pick = NoShares

-------------------------------------------------------------------------------
(* The deposit *)

(* A number drawn for one field of one node by one of the owner's RAND_bytes *)
Pad(which, i, f) == Random(seed, << << "deposit", f, which >>, "pad", i, 0, 0 >>) % NodeMod[f]
PadOf(which) == [i \in NodeIds |-> [f \in DOMAIN NodeMod |-> Pad(which, i, f)]]
Rest == [i \in NodeIds |-> [f \in DOMAIN NodeMod |->
           (tree.nodes[i][f] - Pad(0, i, f) - Pad(1, i, f)) % NodeMod[f]]]

StartPad(which, mod) == Random(seed, << << "deposit", "start", which >>, "pad", 0, 0, 0 >>) % mod
StartOf(mod, at) == (at - StartPad(0, mod) - StartPad(1, mod)) % mod

(* despoit2 at the owner: each player gets two of three shares *)
Despoit(p) ==
  /\ At(p, << "deposit" >>) /\ p = Owner
  /\ shares' = [shares EXCEPT ![p] = << Rest, PadOf(0) >>]
  /\ idi' = [idi EXCEPT ![p] = StartOf(Nodes, 0)]
  /\ ki' = [ki EXCEPT ![p] = StartOf(Feats, tree.start)]
  /\ Send(p, << PadOf(0), PadOf(1), StartPad(0, Nodes), StartPad(0, Feats) >>,
             << PadOf(1), Rest, StartPad(1, Nodes), StartPad(1, Feats) >>)
  /\ Goto(p, << "keys", "x" >>)
  /\ UNCHANGED << seed, tree, data, level, sks, gks, ics, sotDeltas, csotDeltas, blocks,
                  y, x_pick, n_pick >>

(* despoit2 at the two others *)
TakeDespoit(p) ==
  /\ At(p, << "deposit" >>) /\ p # Owner
  /\ LET m == chan[Owner][p] IN
       /\ Len(m) >= 4
       /\ shares' = [shares EXCEPT ![p] = << m[1], m[2] >>]
       /\ idi' = [idi EXCEPT ![p] = m[3]]
       /\ ki' = [ki EXCEPT ![p] = m[4]]
       /\ chan' = [chan EXCEPT ![Owner][p] = Dropped(@, 4)]
  /\ Goto(p, << "keys", "x" >>)
  /\ UNCHANGED << seed, tree, data, level, sks, gks, ics, sotDeltas, csotDeltas, blocks,
                  y, x_pick, n_pick >>

-------------------------------------------------------------------------------
(* Keys *)

LenOf(o) == IF o = "x" THEN Feats ELSE Nodes
SotName(o) == << "sot", o, 0 >>
CsotName(o, l) == << "csot", o, l >>

(* SOT::offline sends the keys of all turns, flushes, and receives *)
SendKeys(p, o) ==
  /\ At(p, << "keys", o >>)
  /\ Send(p, Keys(seed, SotName(o), p, Deep, LenOf(o), TRUE), Keys(seed, SotName(o), p, Deep, LenOf(o), FALSE))
  /\ Goto(p, << "take", o >>)
  /\ UNCHANGED << seed, tree, data, level, shares, sks, gks, ics, sotDeltas, csotDeltas, blocks,
                  ki, idi, y, x_pick, n_pick >>

TakeKeys(p, o) ==
  /\ At(p, << "take", o >>)
  /\ Arrived(p, Deep, Deep)
  /\ sks' = [sks EXCEPT ![o][p] = FromPre(p, Deep)]
  /\ gks' = [gks EXCEPT ![o][p] = FromSuc(p, Deep)]
  /\ Receive(p, Deep, Deep)
  /\ Goto(p, IF o = "x" THEN << "keys", "n" >> ELSE << "ic" >>)
  /\ UNCHANGED << seed, tree, data, level, shares, ics, sotDeltas, csotDeltas, blocks,
                  ki, idi, y, x_pick, n_pick >>

(* PolyDtEval::offline: offline_1 of all CSOTs sends the keys of the own    *)
(* rou, offline_2 receives those of the others                              *)
IcKeysOf(p, side) ==
  [n \in 1 .. (2 * (Deep - 1)) |->
     DealtIc(seed, CsotName(IF n % 2 = 1 THEN "x" ELSE "n", (n + 1) \div 2), p, side)]

SendIc(p) ==
  /\ At(p, << "ic" >>)
  /\ Send(p, IcKeysOf(p, "suc"), IcKeysOf(p, "pre"))
  /\ Goto(p, << "take ic" >>)
  /\ UNCHANGED << seed, tree, data, level, shares, sks, gks, ics, sotDeltas, csotDeltas, blocks,
                  ki, idi, y, x_pick, n_pick >>

TakeIc(p) ==
  LET n == 2 * (Deep - 1) IN
  /\ At(p, << "take ic" >>)
  /\ Arrived(p, n, n)
  /\ ics' = [ics EXCEPT ![p] = [suc |-> FromSuc(p, n), pre |-> FromPre(p, n)]]
  /\ Receive(p, n, n)
  /\ Goto(p, << "ask" >>)
  /\ UNCHANGED << seed, tree, data, level, shares, sks, gks, sotDeltas, csotDeltas, blocks,
                  ki, idi, y, x_pick, n_pick >>

-------------------------------------------------------------------------------
(* A level of the tree *)

(* online_1 of both SOTs *)
Ask(p) ==
  /\ At(p, << "ask" >>)
  /\ LET idx(o) == IF o = "x" THEN ki[p] ELSE idi[p]
         mine == [o \in {"x", "n"} |->
                    MyDeltas(sotDeltas[o][p], seed, SotName(o), p, idx(o), level[p], LenOf(o))]
     IN  /\ sotDeltas' = [o \in {"x", "n"} |-> [sotDeltas[o] EXCEPT ![p] = mine[o]]]
         /\ Send(p, WordsForSuc(mine["x"], p) \o WordsForSuc(mine["n"], p),
                    WordsForPre(mine["x"], p) \o WordsForPre(mine["n"], p))
  /\ Goto(p, << "pick", "x" >>)
  /\ UNCHANGED << seed, tree, data, level, shares, sks, gks, ics, csotDeltas, blocks,
                  ki, idi, y, x_pick, n_pick >>

(* replicated_share gives p a share of the features and deliver, of the     *)
(* shares of the player before it, a copy                                   *)
FeaturePad(p, i) == Random(seed, << << "features", "x", p >>, "pad", i, 0, 0 >>) % W
FeatureShare(p) ==
  [i \in 0 .. (Feats - 1) |-> [x |->
     IF p = Owner THEN (data[i] - FeaturePad(Suc(p), i) - FeaturePad(Pre(p), i)) % W
                  ELSE FeaturePad(p, i)]]

(* What online_2 of one SOT answers when the words have come in *)
Selected(p, o, deltas) ==
  LET gk == gks[o][p][level[p]]
      sk == sks[o][p][level[p]]
  IN  IF o = "x"
      THEN Answer(p, FeatureShare(Pre(p)), FeatureShare(p), gk, sk, deltas, Feats, FeatMod)
      ELSE Answer(p, shares[p][1], shares[p][2], gk, sk, deltas, Nodes, NodeMod)

PickX(p) ==
  /\ At(p, << "pick", "x" >>)
  /\ Arrived(p, 2, 2)
  /\ LET deltas == WithReceived(sotDeltas["x"][p], p, FromSuc(p, 2), FromPre(p, 2))
     IN  /\ sotDeltas' = [sotDeltas EXCEPT !["x"][p] = deltas]
         /\ x_pick' = [x_pick EXCEPT ![p] = Selected(p, "x", deltas).x]
  /\ Receive(p, 2, 2)
  /\ Goto(p, << "pick", "n" >>)
  /\ UNCHANGED << seed, tree, data, level, shares, sks, gks, ics, csotDeltas, blocks,
                  ki, idi, y, n_pick >>

(* The node's value is added up; the last level ends the evaluation *)
PickN(p) ==
  /\ At(p, << "pick", "n" >>)
  /\ Arrived(p, 2, 2)
  /\ LET deltas == WithReceived(sotDeltas["n"][p], p, FromSuc(p, 2), FromPre(p, 2))
         node == Selected(p, "n", deltas)
     IN  /\ sotDeltas' = [sotDeltas EXCEPT !["n"][p] = deltas]
         /\ n_pick' = [n_pick EXCEPT ![p] = node]
         /\ y' = [y EXCEPT ![p] = (@ + node.v) % W]
  /\ Receive(p, 2, 2)
  /\ Goto(p, IF level[p] = Deep THEN << "done" >> ELSE << "choose" >>)
  /\ UNCHANGED << seed, tree, data, level, shares, sks, gks, ics, csotDeltas, blocks,
                  ki, idi, x_pick >>

BugChoiceForSuc(mine, masked, p) ==
  WordsForSuc(mine["x"], p) \o << masked["x"] >> \o WordsForSuc(mine["n"], p) \o << masked["n"] >>

(* The player before p also gets p's blocks *)
ChoiceForSuc(mine, masked, p) == WordsForSuc(mine["x"], p) \o WordsForSuc(mine["n"], p)
ChoiceForPre(mine, masked, p) ==
  WordsForPre(mine["x"], p) \o << masked["x"] >> \o WordsForPre(mine["n"], p) \o << masked["n"] >>

(* online_1 of both CSOTs *)
Choose(p) ==
  /\ At(p, << "choose" >>)
  /\ LET m == << x_pick[p], n_pick[p].t >>
         block(o) == IF o = "x" THEN << n_pick[p].xl, n_pick[p].xr >> ELSE << n_pick[p].nl, n_pick[p].nr >>
         mine == [o \in {"x", "n"} |-> Differences(Zeros, seed, CsotName(o, level[p]), p, m)]
         masked == [o \in {"x", "n"} |-> MaskedBlocks(seed, CsotName(o, level[p]), p, block(o), LenOf(o))]
     IN  /\ csotDeltas' = [o \in {"x", "n"} |-> [csotDeltas[o] EXCEPT ![p] = mine[o]]]
         /\ blocks' = [o \in {"x", "n"} |-> [blocks[o] EXCEPT ![p] = [@ EXCEPT ![p] = masked[o]]]]
         /\ Send(p, ChoiceForSuc(mine, masked, p), ChoiceForPre(mine, masked, p))
  /\ Goto(p, << "chosen", "x" >>)
  /\ UNCHANGED << seed, tree, data, level, shares, sks, gks, ics, sotDeltas,
                  ki, idi, y, x_pick, n_pick >>

(* online_2 of one CSOT; the second ends the level *)
Chosen(p, o) ==
  /\ At(p, << "chosen", o >>)
  /\ Arrived(p, 3, 2)
  /\ LET deltas == WithReceived(csotDeltas[o][p], p, FromSuc(p, 2), FromPre(p, 2))
         next == FromSuc(p, 3)[3]
         key(from) == ics[p][from][2 * (level[p] - 1) + (IF o = "x" THEN 1 ELSE 2)]
         betaSuc == IcShare(key("suc"), 0, Tao, Delta(deltas, Suc(p), W))
         betaPre == IcShare(key("pre"), 0, Tao, Delta(deltas, Pre(p), W))
         share == Choice(blocks[o][p][p], next, betaSuc, betaPre, LenOf(o))
     IN  /\ csotDeltas' = [csotDeltas EXCEPT ![o][p] = deltas]
         /\ blocks' = [blocks EXCEPT ![o][p][Suc(p)] = next]
         /\ IF o = "x" THEN ki' = [ki EXCEPT ![p] = share] /\ UNCHANGED idi
                       ELSE idi' = [idi EXCEPT ![p] = share] /\ UNCHANGED ki
  /\ Receive(p, 3, 2)
  /\ IF o = "x" THEN Goto(p, << "chosen", "n" >>) /\ UNCHANGED level
                ELSE Goto(p, << "ask" >>) /\ level' = [level EXCEPT ![p] = @ + 1]
  /\ UNCHANGED << seed, tree, data, shares, sks, gks, ics, sotDeltas, y, x_pick, n_pick >>

-------------------------------------------------------------------------------
Evaluate(p) ==
  \/ Despoit(p) \/ TakeDespoit(p)
  \/ \E o \in {"x", "n"} : SendKeys(p, o) \/ TakeKeys(p, o) \/ Chosen(p, o)
  \/ SendIc(p) \/ TakeIc(p)
  \/ Ask(p) \/ PickX(p) \/ PickN(p) \/ Choose(p)

Done == \A p \in Player : pc[p] = << "done" >>

Returned == Done /\ UNCHANGED vars

Next == (\E p \in Player : Evaluate(p)) \/ Returned

Spec == Init /\ [][Next]_vars

(* Every player is a process of its own *)
FairSpec == Spec /\ \A p \in Player : WF_vars(Evaluate(p))

-------------------------------------------------------------------------------
(* Properties *)

Sum(f) == f[0] + f[1] + f[2]
Together(step, l) == \A p \in Player : pc[p] = step /\ level[p] = l

(* What a value v gains in the SOT over the list of dealer d: what the key  *)
(* of the player after d makes of it less what the other makes of it, both  *)
(* at the position that d hides                                             *)
Gained(v, d, o, l, modulus) ==
  LET lead == sks[o][Suc(d)][l]
      other == gks[o][Pre(d)][l]
  IN  (((v * EqEval(lead, lead.at)) % W) % modulus) - (((v * EqEval(other, lead.at)) % W) % modulus)

(* What the lists of the dealers have at a place: shares of one number      *)
NodeShares(i, f) == [d \in Player |-> shares[Pre(d)][1][i][f]]
FeatureShares(i) == [d \in Player |-> FeatureShare(Suc(d))[i].x]

(* SOT is oblivious and yet selects one element: what the players have      *)
(* selected when they are through with both SOTs of a level (the end of     *)
(* sot.hpp:349) comes of the shares at the position they share, and of no   *)
(* other, whatever the masks, the pads and the hidden positions are; and    *)
(* the shares there are those of the tree's node and of the feature.  Each  *)
(* share counts by what its pair of keys gains at the hidden position,      *)
(* which is 1 for none of them but by chance.                               *)
SelectsOne ==
  \A l \in 1 .. Deep : Together(<< "choose" >>, l) \/ Together(<< "done" >>, l) =>
    LET i == Sum(idi) % Nodes
        k == Sum(ki) % Feats
        gains(v, o, modulus) == Sum([d \in Player |-> Gained(v[d], d, o, l, modulus)])
    IN  /\ \A f \in DOMAIN NodeMod :
             /\ Sum(NodeShares(i, f)) % NodeMod[f] = tree.nodes[i][f] % NodeMod[f]
             /\ Sum([p \in Player |-> n_pick[p][f]]) % NodeMod[f]
                  = gains(NodeShares(i, f), "n", NodeMod[f]) % NodeMod[f]
        /\ Sum(FeatureShares(k)) % W = data[k]
        /\ Sum(x_pick) % W = gains(FeatureShares(k), "x", W) % W

(* CSOT chooses: when the players have come to the next level, their shares *)
(* of the feature and of the node add up to the left one of what the last   *)
(* level's SOTs gave if its word is not less than the feature's, and to the *)
(* right one otherwise (csot.hpp:270).  Only, the two parts of a comparison *)
(* add up to 0 or 1 modulo the words, and are reduced by mod each before    *)
(* they are used: where their sum wraps, and mod does not divide the words, *)
(* the player's masked difference is added W times too often.  There is no  *)
(* other choice that the shares can make up.                                *)
ChoosesOne ==
  \A l \in 1 .. (Deep - 1), o \in {"x", "n"} : Together(<< "ask" >>, l + 1) =>
    LET half(a, b) == IF o = "x" THEN Sum([p \in Player |-> n_pick[p][a]])
                                 ELSE Sum([p \in Player |-> n_pick[p][b]])
        reaches == (Sum([p \in Player |-> n_pick[p].t]) - Sum(x_pick)) % W \in 0 .. Tao
        apart(p) == blocks[o][p][p][1] - blocks[o][p][p][2]
    IN  \E slip \in [Player -> {0, 1}] :
          Sum(IF o = "x" THEN ki ELSE idi) % LenOf(o)
            = ((IF reaches THEN half("xl", "nl") ELSE half("xr", "nr"))
                 + W * Sum([p \in Player |-> slip[p] * apart(p)])) % LenOf(o)

Walking(p) == pc[p][1] \in {"ask", "pick", "choose", "chosen"}

(* However far the players drift apart, they are at most a level apart, and *)
(* what one has sent another and that one not received is never more than   *)
(* the words of one online_1 of all four objects; in the end it is nothing: *)
(* each receives as many words as it is sent.                               *)
InStep ==
  /\ Done => \A p, q \in Player : chan[p][q] = << >>
  /\ \A p, q \in Player : Walking(p) /\ Walking(q) =>
       /\ level[p] - level[q] \in -1 .. 1
       /\ Len(chan[p][q]) <= IF q = Suc(p) THEN 8 ELSE 10

(* The three evaluations end *)
Termination == <>Done
===============================================================================
