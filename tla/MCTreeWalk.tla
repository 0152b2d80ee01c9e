------------------------------- MODULE MCTreeWalk -------------------------------
(***************************************************************************)
(* A tree of three levels, walked for a fourth, over words of six bits.    *)
(***************************************************************************)
EXTENDS TreeWalk

(* Numbers that look drawn: every name has a weight *)
Names == << "sot", "csot", "deposit", "features", "x", "n", "nl", "nr", "xl", "xr", "t", "v", "start",
            "pair", "fili", "pad", "rou", "z", "zeta" >>
Weight(name) == CHOOSE k \in DOMAIN Names : Names[k] = name

MCRandom(s, tag) ==
  LET k == s * 29 + Weight(tag[1][1]) * 7 + Weight(tag[1][2]) * 11 + tag[1][3] * 5
             + Weight(tag[2]) * 13 + tag[3] * 17 + tag[4] * 3 + tag[5] * 19
  IN  ((k * k + k) \div 2) % 61

MCPrime == 101

(* The seeds of a pair are equal but at the hidden position, where nothing  *)
(* makes their difference, times the factor, a 1                            *)
MCLeafSeed(key, i) ==
  3 * key.pad + 5 * i + (IF key.lead /\ key.at = i THEN 8 + key.pad ELSE 0)
MCFactor(at, pad) == at + 2 * pad + 1

NodeOf(nl, nr, xl, xr, t, v) == [nl |-> nl, nr |-> nr, xl |-> xl, xr |-> xr, t |-> t, v |-> v]
Leaf(v) == NodeOf(5, 5, 0, 0, v, v)

(* from_path: a leaf points at a node with no value, which points at itself; *)
(* six nodes do not divide the 64 words, four features do                    *)
Deep3 ==
  << NodeOf(1, 2, 1, 3, 20, 0), NodeOf(3, 4, 2, 0, 33, 0), Leaf(41), Leaf(6), Leaf(59), Leaf(0) >>

Data(a, b, c, d) == [i \in 0 .. 3 |-> << a, b, c, d >>[i + 1]]
MCDatas == { Data(12, 35, 1, 60), Data(33, 2, 47, 18), Data(61, 20, 5, 9) }

Tree(start, nodes) == [start |-> start, nodes |-> [i \in 0 .. (Len(nodes) - 1) |-> nodes[i + 1]]]
MCTrees == { Tree(0, Deep3) }
===============================================================================
