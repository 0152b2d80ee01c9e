---------------------------------- MODULE Bmr ----------------------------------
(***************************************************************************)
(* Multi-party garbling of a Boolean circuit (protocol/mparties/BMR.cpp).  *)
(* Every player masks every wire with a bit, chooses two labels for it     *)
(* that differ by its own R, and contributes to the table of every AND     *)
(* gate; with one label per input wire and player everybody then evaluates *)
(* the circuit alone, and knows each wire's value only under its mask.     *)
(*                                                                         *)
(* Lens instances of the circuit are kept in one array: instance w of a    *)
(* wire is at w * Stride + wire.  The inputs of an instance are held by    *)
(* single players (online(holder, data)) or are bits shared by all         *)
(* (Audit_AY::transfer and online(verify)).                                *)
(*                                                                         *)
(* A block is a set of atoms, and XOR their symmetric difference: a random *)
(* block is an atom of its own, and so is what a hash returns.  A message  *)
(* is kept by its sender under the step that sends it; a receiver waits    *)
(* for those of all others.                                                *)
(***************************************************************************)
EXTENDS Integers, Sequences, FiniteSets

CONSTANTS
  NumPlayers,   \* get_players_num
  NumWire, InSize, OutSize,  \* num_wire, n1 + n2, n3
  Gates,        \* the gates: [op, a, b, c], c the wire they write
  Lens,         \* instances in the arrays
  BlockBytes,   \* sizeof(block)
  Stride,       \* how far apart they are
  Holder,       \* which player holds an input wire
  MaskChoices,  \* the bits of one player's wires RAND_bytes returns (a bound)
  InputChoices, \* the input bits of one player (a bound)
  Modes         \* subset of {"held", "shared"}

Player == 0 .. (NumPlayers - 1)
Bit == 0 .. 1
InWire == 0 .. (InSize - 1)
Wire == 0 .. (NumWire - 1)
OutWire == (NumWire - OutSize) .. (NumWire - 1)
Slot == 0 .. (Lens * NumWire - 1)
Instance == 0 .. (Lens - 1)
NumGate == Len(Gates)

(* What gate n may read: an input, or what an earlier gate has written *)
Known(s, n) == s \in InWire \/ \E g \in 1 .. (n - 1) : Gates[g].c = s

ASSUME CircuitAssumption ==
  /\ NumPlayers \in Nat \ {0} /\ Lens \in Nat \ {0} /\ Stride \in Nat /\ BlockBytes \in Nat \ {0}
  /\ NumWire \in Nat /\ InSize \in Nat /\ Lens * InSize <= NumWire /\ OutSize \in 0 .. NumWire
  /\ Gates \in Seq([op : {"AND", "XOR", "INV"}, a : Nat, b : Nat, c : Nat])
  /\ \A g \in 1 .. NumGate : Known(Gates[g].a, g) /\ Known(Gates[g].b, g) /\ Gates[g].c \in Wire \ InWire
  /\ \A s \in Wire \ InWire : \E g \in 1 .. NumGate : Gates[g].c = s
  /\ \A g, h \in 1 .. NumGate : Gates[g].c = Gates[h].c => g = h
  /\ Holder \in [InWire -> Player]
  /\ MaskChoices \subseteq [Slot -> Bit]
  /\ InputChoices \subseteq [Instance -> [InWire -> Bit]]
  /\ Modes \subseteq {"held", "shared"}

BitXor(a, b) == (a + b) % 2
Xor(x, y) == (x \ y) \cup (y \ x)
Odd(S) == Cardinality(S) % 2 = 1
XorBits(S, f(_)) == IF Odd({ k \in S : f(k) = 1 }) THEN 1 ELSE 0
XorBlocks(S, f(_)) == { t \in UNION { f(k) : k \in S } : Odd({ k \in S : t \in f(k) }) }

(* Hash::hash_for_block(label a, label b, gate, player) *)
Hash(x, y, i, j) == { << x, y, i, j >> }

-------------------------------------------------------------------------------
VARIABLES
  mode, input,  \* how inputs come, and what each player has of them
  phase,        \* phase[p]: what p does next
  gate,         \* gate[p]: the gate its loop is at, over all instances
  maskbits,     \* maskbits[p][s]
  opened,       \* opened_bits
  Ks,           \* Ks[p][s][u]
  tabs,         \* tabs[p][g][j]: four blocks for each AND gate and player
  Lambda,       \* Lambda_bits
  picked,       \* Ks_pickeds[p][k][s]
  res,          \* res[p]: shares of the outputs, online(verify)
  msg           \* msg[p][step]: what p has broadcast

vars == <<mode, input, phase, gate, maskbits, opened, Ks, tabs, Lambda, picked, res, msg>>

R(p) == { << p >> }

Constant(v) == [s \in Slot |-> v]

(* The labels of the inputs.  The constructor for several instances writes  *)
(* the first labels of instance k at k * InSize but pairs them at           *)
(* k * NumWire; the loop over the gates overwrites both.                    *)
FirstKs(p) ==
  LET random(s) == IF s < Lens * InSize THEN { << p, s, 0 >> } ELSE {}
  IN  [s \in Slot |-> [u \in Bit |->
         CASE u = 0 -> random(s)
           [] u = 1 /\ s \in InWire -> Xor(R(p), random(s))
           [] u = 1 /\ s \notin InWire -> IF s % NumWire \in InWire THEN R(p) ELSE {}]]

Init ==
  /\ mode \in Modes
  /\ input \in [Player -> InputChoices]
  /\ phase = [p \in Player |-> "mask"]
  /\ gate = [p \in Player |-> 1]
  /\ maskbits \in [Player -> MaskChoices]
  /\ opened = [p \in Player |-> Constant(0)]
  /\ Ks = [p \in Player |-> FirstKs(p)]
  /\ tabs = [p \in Player |-> << >>]
  /\ Lambda = [p \in Player |-> Constant(0)]
  /\ picked = [p \in Player |-> [k \in Player |-> Constant({})]]
  /\ res = [p \in Player |-> << >>]
  /\ msg = [p \in Player |-> << >>]

(* The gate a loop over instances and gates is at, and its wires' slots *)
GateAt(p) == Gates[((gate[p] - 1) % NumGate) + 1]
At(p, wire) == ((gate[p] - 1) \div NumGate) * Stride + wire
GateIndex(p) == (gate[p] - 1) % NumGate
InLoop(p, ph) == phase[p] = ph /\ gate[p] <= Lens * NumGate
LoopEnds(p, ph) == phase[p] = ph /\ gate[p] > Lens * NumGate

Advance(p) == gate' = [gate EXCEPT ![p] = @ + 1]
Goto(p, ph) == phase' = [phase EXCEPT ![p] = ph] /\ gate' = [gate EXCEPT ![p] = 1]

Others(p) == Player \ {p}
Sent(q, step) == Len(msg[q]) >= step
Broadcast(p, m) == msg' = [msg EXCEPT ![p] = Append(@, m)]
(* Definitions named Bug... are variants of the one that follows, each with *)
(* a mistake the code could have had; no specification here uses them.      *)
BugAllSent(p, step) == \A q \in Others(p) : Sent(q, step + 1)

AllSent(p, step) == \A q \in Others(p) : Sent(q, step)

-------------------------------------------------------------------------------
(* Offline *)

(* What an XOR or NOT gate leaves on its output wire's mask *)
GateMask(p, m) ==
  LET g == GateAt(p)
      a == m[At(p, g.a)]
  IN  CASE g.op = "XOR" -> BitXor(a, m[At(p, g.b)])
        [] g.op = "INV" -> IF p = 0 THEN BitXor(a, 1) ELSE a
        [] g.op = "AND" -> m[At(p, g.c)]

MaskGate(p) ==
  /\ InLoop(p, "mask")
  /\ maskbits' = [maskbits EXCEPT ![p][At(p, GateAt(p).c)] = GateMask(p, maskbits[p])]
  /\ Advance(p)
  /\ UNCHANGED <<mode, input, phase, opened, Ks, tabs, Lambda, picked, res, msg>>

SendMasks(p) ==
  /\ LoopEnds(p, "mask")
  /\ Broadcast(p, maskbits[p])
  /\ Goto(p, "open")
  /\ UNCHANGED <<mode, input, maskbits, opened, Ks, tabs, Lambda, picked, res>>

RecvMasks(p) ==
  /\ phase[p] = "open" /\ AllSent(p, 1)
  /\ LET mask(q, s) == IF q = p THEN maskbits[p][s] ELSE msg[q][1][s]
     IN  opened' = [opened EXCEPT ![p] = [s \in Slot |-> XorBits(Player, LAMBDA q : mask(q, s))]]
  /\ Goto(p, "garble")
  /\ UNCHANGED <<mode, input, maskbits, Ks, tabs, Lambda, picked, res, msg>>

(* The masked output of an AND gate for the masked inputs u and v *)
SBit(p, u, v) ==
  LET g == GateAt(p)
      o(wire) == opened[p][At(p, wire)]
  IN  BitXor(BitXor(o(g.a), u) * BitXor(o(g.b), v), o(g.c))

BugRow(p, key, j, k) ==
  LET g == GateAt(p)
      u == k \div 2
      v == k % 2
      hash == Hash(Ks[p][At(p, g.a)][u], Ks[p][At(p, g.b)][v], GateIndex(p), j)
      mine == IF SBit(p, u, v) = 1 THEN Xor(key, R(p)) ELSE key
  IN  IF p = j THEN Xor(hash, mine) ELSE hash

(* p's contribution to row k of the table for player j, where key is the    *)
(* first label of the output wire                                           *)
Row(p, key, j, k) ==
  LET g == GateAt(p)
      u == k % 2
      v == k \div 2
      hash == Hash(Ks[p][At(p, g.a)][u], Ks[p][At(p, g.b)][v], GateIndex(p), j)
      mine == IF SBit(p, u, v) = 1 THEN Xor(key, R(p)) ELSE key
  IN  IF p = j THEN Xor(hash, mine) ELSE hash

(* The pair of labels of a gate's output wire *)
GateKey(p) ==
  LET g == GateAt(p)
      a == Ks[p][At(p, g.a)]
      fresh == { << p, At(p, g.c), gate[p] >> }
  IN  CASE g.op = "AND" -> [u \in Bit |-> IF u = 0 THEN fresh ELSE Xor(fresh, R(p))]
        [] g.op = "XOR" -> LET k == Xor(a[0], Ks[p][At(p, g.b)][0])
                           IN  [u \in Bit |-> IF u = 0 THEN k ELSE Xor(k, R(p))]
        [] g.op = "INV" -> a

GarbleGate(p) ==
  /\ InLoop(p, "garble")
  /\ LET g == GateAt(p)
         key == GateKey(p)
         table == [j \in Player |-> [k \in 0 .. 3 |-> Row(p, key[0], j, k)]]
     IN  /\ Ks' = [Ks EXCEPT ![p][At(p, g.c)] = key]
         /\ tabs' = IF g.op = "AND" THEN [tabs EXCEPT ![p] = Append(@, table)] ELSE tabs
  /\ Advance(p)
  /\ UNCHANGED <<mode, input, phase, maskbits, opened, Lambda, picked, res, msg>>

SendTables(p) ==
  /\ LoopEnds(p, "garble")
  /\ Broadcast(p, tabs[p])
  /\ Goto(p, "tables")
  /\ UNCHANGED <<mode, input, maskbits, opened, Ks, tabs, Lambda, picked, res>>

RecvTables(p) ==
  /\ phase[p] = "tables" /\ AllSent(p, 2)
  /\ LET table(q) == IF q = p THEN tabs[p] ELSE msg[q][2]
     IN  tabs' = [tabs EXCEPT ![p] =
                    [n \in DOMAIN @ |-> [j \in Player |-> [k \in 0 .. 3 |->
                       XorBlocks(Player, LAMBDA q : table(q)[n][j][k])]]]]
  /\ Goto(p, "input")
  /\ UNCHANGED <<mode, input, maskbits, opened, Ks, Lambda, picked, res, msg>>

-------------------------------------------------------------------------------
(* Online *)

InSlot(w, i) == w * Stride + i
IsInput(s) == \E w \in Instance, i \in InWire : s = InSlot(w, i)

(* The last instance that writes s as one of its inputs *)
InstanceOf(s) ==
  CHOOSE w \in Instance :
    /\ s - w * Stride \in InWire
    /\ \A v \in Instance : s - v * Stride \in InWire => v <= w

(* online(holder, data): the holder of an input broadcasts it under the     *)
(* opened mask.  transfer: every player masks its share of the bit with its *)
(* share of the mask.  Where two instances overlap the later one is kept.   *)
Masked(p, w, i) ==
  IF mode = "held" THEN BitXor(input[p][w][i], opened[p][InSlot(w, i)])
                   ELSE BitXor(input[p][w][i], maskbits[p][InSlot(w, i)])

SendInputs(p) ==
  /\ phase[p] = "input"
  /\ Broadcast(p, [w \in Instance |-> [i \in InWire |-> Masked(p, w, i)]])
  /\ Goto(p, "lambda")
  /\ UNCHANGED <<mode, input, maskbits, opened, Ks, tabs, Lambda, picked, res>>

(* The masked value of input i of instance w, as p has it: its own or the   *)
(* holder's, or the sum of what all have sent                               *)
MaskedInput(p, w, i) ==
  IF mode = "held"
    THEN IF Holder[i] = p THEN Masked(p, w, i) ELSE msg[Holder[i]][3][w][i]
    ELSE XorBits(Player, LAMBDA q : IF q = p THEN Masked(p, w, i) ELSE msg[q][3][w][i])

RecvInputs(p) ==
  /\ phase[p] = "lambda" /\ AllSent(p, 3)
  /\ Lambda' = [Lambda EXCEPT ![p] = [s \in Slot |->
                  IF IsInput(s) THEN MaskedInput(p, InstanceOf(s), s - InstanceOf(s) * Stride)
                                ELSE @[s]]]
  /\ Goto(p, "keys")
  /\ UNCHANGED <<mode, input, maskbits, opened, Ks, tabs, picked, res, msg>>

(* The label of an input wire.  Every instance is picked by the masked bits *)
(* of the first one.                                                        *)
InputKey(p, w, i) == Ks[p][InSlot(w, i)][Lambda[p][i]]

SendKeys(p) ==
  /\ phase[p] = "keys"
  /\ Broadcast(p, [w \in Instance |-> [i \in InWire |-> InputKey(p, w, i)]])
  /\ Goto(p, "labels")
  /\ UNCHANGED <<mode, input, maskbits, opened, Ks, tabs, Lambda, picked, res>>

(* The label q has sent for input i of instance w, as it is copied from the *)
(* message: from byte w * InSize on, not from block w * InSize on.  What is *)
(* cut from two labels is neither of them.                                  *)
KeyFrom(q, w, i) ==
  LET byte == w * InSize + i * BlockBytes
      block == byte \div BlockBytes
  IN  IF byte % BlockBytes = 0 THEN msg[q][4][block \div InSize][block % InSize]
                               ELSE { << q, "cut", byte >> }

RecvKeys(p) ==
  /\ phase[p] = "labels" /\ AllSent(p, 4)
  /\ LET key(q, s) == LET w == InstanceOf(s)
                          i == s - w * Stride
                      IN  IF q = p THEN InputKey(p, w, i) ELSE KeyFrom(q, w, i)
     IN  picked' = [picked EXCEPT ![p] = [k \in Player |-> [s \in Slot |->
                      IF IsInput(s) THEN key(k, s) ELSE @[k][s]]]]
  /\ Goto(p, "eval")
  /\ UNCHANGED <<mode, input, maskbits, opened, Ks, tabs, Lambda, res, msg>>

(* How many AND gates the loop has passed: itr_tab *)
Tables(p) ==
  Cardinality({ n \in 1 .. (gate[p] - 1) : Gates[((n - 1) % NumGate) + 1].op = "AND" })

(* The label of player j an AND gate's table holds for the labels picked *)
Decrypted(p, j) ==
  LET g == GateAt(p)
      row == 2 * Lambda[p][At(p, g.b)] + Lambda[p][At(p, g.a)]
      hash(k) == Hash(picked[p][k][At(p, g.a)], picked[p][k][At(p, g.b)], GateIndex(p), j)
  IN  Xor(tabs[p][Tables(p) + 1][j][row], XorBlocks(Player, hash))

EvalAnd(p) ==
  /\ InLoop(p, "eval") /\ GateAt(p).op = "AND"
  /\ LET out == At(p, GateAt(p).c)
         mine == Decrypted(p, p)
         pair == Ks[p][out]
     IN  /\ picked' = [picked EXCEPT ![p] = [k \in Player |-> [@[k] EXCEPT ![out] = Decrypted(p, k)]]]
         /\ \/ /\ mine = pair[0]
               /\ Lambda' = [Lambda EXCEPT ![p][out] = 0]
               /\ Advance(p) /\ UNCHANGED phase
            \/ /\ mine = Xor(pair[0], R(p))
               /\ Lambda' = [Lambda EXCEPT ![p][out] = 1]
               /\ Advance(p) /\ UNCHANGED phase
            \/ /\ mine \notin { pair[0], Xor(pair[0], R(p)) }  \* "detected croupted"
               /\ phase' = [phase EXCEPT ![p] = "corrupted"]
               /\ UNCHANGED <<Lambda, gate>>
  /\ UNCHANGED <<mode, input, maskbits, opened, Ks, tabs, res, msg>>

(* XOR and INV gates need no table *)
FreeLambda(p) ==
  LET g == GateAt(p)
      a == Lambda[p][At(p, g.a)]
  IN  IF g.op = "XOR" THEN BitXor(a, Lambda[p][At(p, g.b)]) ELSE a

EvalFree(p) ==
  /\ InLoop(p, "eval") /\ GateAt(p).op # "AND"
  /\ LET g == GateAt(p)
         label(k) == IF g.op = "XOR" THEN Xor(picked[p][k][At(p, g.a)], picked[p][k][At(p, g.b)])
                                     ELSE picked[p][k][At(p, g.a)]
     IN  /\ picked' = [picked EXCEPT ![p] = [k \in Player |-> [@[k] EXCEPT ![At(p, g.c)] = label(k)]]]
         /\ Lambda' = [Lambda EXCEPT ![p][At(p, g.c)] = FreeLambda(p)]
  /\ Advance(p)
  /\ UNCHANGED <<mode, input, phase, maskbits, opened, Ks, tabs, res, msg>>

BugOutputBit(p, s) == BitXor(maskbits[p][s], Lambda[p][s])

(* online(verify): the mask's share of an output wire, which player0 flips *)
(* where the masked value is 1                                              *)
OutputBit(p, s) == IF p = 0 THEN BitXor(maskbits[p][s], Lambda[p][s]) ELSE maskbits[p][s]

Output(p) ==
  /\ LoopEnds(p, "eval")
  /\ res' = [res EXCEPT ![p] = [w \in Instance |-> [i \in OutWire |-> OutputBit(p, InSlot(w, i))]]]
  /\ Goto(p, "done")
  /\ UNCHANGED <<mode, input, maskbits, opened, Ks, tabs, Lambda, picked, msg>>

Step(p) ==
  \/ MaskGate(p) \/ SendMasks(p) \/ RecvMasks(p)
  \/ GarbleGate(p) \/ SendTables(p) \/ RecvTables(p)
  \/ SendInputs(p) \/ RecvInputs(p) \/ SendKeys(p) \/ RecvKeys(p)
  \/ EvalAnd(p) \/ EvalFree(p) \/ Output(p)

(* Every player has returned, or given up *)
Returned == (\A p \in Player : phase[p] \in {"done", "corrupted"}) /\ UNCHANGED vars

Next == (\E p \in Player : Step(p)) \/ Returned

Spec == Init /\ [][Next]_vars

(* Some player that is not waiting for a message runs; a player makes       *)
(* finitely many steps                                                      *)
FairSpec == Spec /\ WF_vars(\E p \in Player : Step(p))

-------------------------------------------------------------------------------
(* Properties *)

(* The circuit's values on its wires, from the players' inputs *)
Plain(w) ==
  LET value[i \in Wire] ==
        IF i \in InWire
          THEN IF mode = "held" THEN input[Holder[i]][w][i]
                                ELSE XorBits(Player, LAMBDA p : input[p][w][i])
          ELSE LET g == Gates[CHOOSE n \in 1 .. NumGate : Gates[n].c = i] IN
               CASE g.op = "AND" -> value[g.a] * value[g.b]
                 [] g.op = "XOR" -> BitXor(value[g.a], value[g.b])
                 [] g.op = "INV" -> BitXor(value[g.a], 1)
  IN  value

(* Honest players never find a corrupted label (BMR.cpp:179) *)
NeverCorrupted == \A p \in Player : phase[p] # "corrupted"

(* online(verify) leaves the players with shares of the circuit's outputs *)
SharedOutput ==
  (\A p \in Player : phase[p] = "done") =>
    \A i \in OutWire : XorBits(Player, LAMBDA p : res[p][0][i]) = Plain(0)[i]

(* The players do not wait for each other for ever *)
Termination == <>(\A p \in Player : phase[p] \in {"done", "corrupted"})
===============================================================================
