# A TLA+ development of oram_pro

oram_pro is a set of multi-party protocols in C++: a replicated oblivious RAM,
an oblivious machine on top of it, decision trees, garbled circuits and some
verifiable protocols, all over one small socket layer. This directory holds the
specifications kept beside that code: modules that model it, TLC
configurations that check them on small instances, and proofs checked by
TLAPS. Line numbers are those of the source tree (`src/`).

## 1. The system

Every process runs the same program and is told by its name (`player0` ..
`player3`, and for the RAM the helper `aid`, which deals keys and shares) what
part it plays. Processes share nothing. They are single threaded; all
concurrency is between processes, and all interaction goes through
`P2Pchannel`.

| component | state | operations | used by |
|---|---|---|---|
| link: `SubChannel`, `HighSpeedNetIO` (`include/net.hpp` 30-251) | per direction: `buf`, `ptr`, `counter`, stdio's buffer, the socket | `send_data`, `recv_data`, `flush` | P2Pchannel |
| `P2Pchannel` (`net.hpp` 253-368) | one link per peer, `is_flush` | the constructor's handshake, `send_data_to`, `recv_data_from`, `flush_all`, `set_flush`, `bloadcast`, `recv_all` | everything |
| four-party primitives (`preliminaries.hpp` 20-371, `fss_help.hpp`, `io.hpp`) | none | `*_share`, `*_reveal` and their halves `_1`, `_2`, `send_eq_key`, `add_reveal` | RAM, machine, compare |
| `Ram<T>` (`preliminaries.hpp` 372-894) | `data_ptr` (share), `read_triples`, `write_triples`, `read_times`, `write_times` | `init`, `prepare_read`, `prepare_write`, `read`, `write`, split forms | benchmark, machine |
| `Convert` (`protocol/convert.h`) | `zero_share`, `ptr` | `fourpc_zeroshare`, `fourpc_share_2_replicated_share` and its halves | benchmark, machine |
| XOR ORAM (`fss_mpc.h`, `fss_mpc.cpp`) | key levels, `res_list` | `gen`, `Oram::prepare_write`, `Oram::write` | benchmark |
| machine (`protocol/src/risc.cpp`, `operation.h`) | `myenv` (pc, flag), registers and memory in `Ram`s, `res`, `flags` | `load_env`, `load_ins`, `run_op`, `ret_res` | `test_risc` |
| `Compare` (`scmp.hpp`, `scmp.cpp`) | queues of interval keys and masks | `equal`, `msb`, `overflow`, split forms | machine |
| OT and garbled circuits (`gc_op.h`, `gc_op.cpp`) | labels, `r`, `r_set` | `Pratical_OT::send/recv`, `Bitwise::to_Y/runs/to_As` | machine, XOR ORAM |
| FSS library (`fss/`) | keys | `generateTreeEq`, `generateTreeEq_32`, `generateTreeLt`, `evaluateEq`, `evaluateLt` | RAM, Compare, SOT |
| SOT, CSOT, DT (`protocol/3_parties`) | keys, `filis`, `deltas`, `blocks` | offline, `online_1`, `online_2` of SOT and CSOT; `PolyDtEval`, `ConstDtEval` | `Test_3_parties`, `Test_3_dt_const` |
| SPDZ and the auditable library (`protocol/auditable`) | triples, commitments | `share`, `reveal`, `mult`, `transfer`, `run_cir`, `relu` | `testAB`, `test_auditable` |
| malicious PPML (`protocol/malicious_ppml`) | `AShare` registers | multiply, inner product, `Trunc`, `Sign`, `PolyRingVerify` | `test_malicious_ppml`, `test_mul_ver` |
| BMR, GCM (`protocol/mparties`, `protocol/2_parties`) | masks, labels, tables | `offline`, `online`, for BMR | auditable library, `test_gcm` |
| configuration, timing, encoding, argument parsing, circuit and tree files | - | - | - |

What is hard about it:

- *Block boundaries.* A flush of the sender pads the stream to a block of
  128K, a flush of the receiver drops what is left of its block, and neither
  leaves a mark on the wire. Both ends must flush between the same two
  messages, and `flush_all` resets the buffers of *all* peers.
- *Order.* Messages have no names. What a process reads is right only if the
  order of its receives on a link is the order of the other end's sends. In
  `run_op` the rounds of some fifteen operations are interleaved by hand.
- *Mutual waiting.* A receive blocks; a flush blocks when the socket is full;
  without flush mode what a process has sent stays in its buffer.
- *Wrapping arithmetic.* Index shares are 32-bit words, positions are modulo
  the length of the RAM.
- *Replication.* Two players hold each share and each changes its own copy,
  after opening different messages.
- *Own pace.* With three players nobody is in step: one may be a round ahead of
  another, whose messages carry no name of the round they belong to.
- *Connecting.* Of two processes one has to listen before the other can dial,
  and each does so with one peer after the other.

Nothing is persisted and no process restarts; the code has no timeouts, and
retries nothing but `connect`.

What makes each part correct: a link is a FIFO stream, and what is flushed
arrives; a program's processes never read another message than the expected
one, drop none and all end; RAM operations implement an array, keep the two
copies of each share equal and never run out of zero shares; the machine runs
the instructions of an ordinary one; every pair of processes gets its own two
sockets, crosswise; the evaluations of a pair of keys differ by the hidden value
at the hidden point and nowhere else; an oblivious transfer selects from the one
shared position, and the next position of a shared decision tree is the left or the
right block by the comparison; a garbled circuit evaluates to shares of the circuit's outputs; and
products, truncations and signs of masked values are those of the values.

## 2. Modules

    Handshake, P2PChannel <- P2PChannelProofs                    (proved)
    Handshake     <- MCHandshake                                 (checked)
    BlockChannel  <- BlockChannelProofs;  <- MCBlockChannel
                  implements FifoStream
    P2PChannel    <- Reveals <- OramRounds             <- MCOramRounds
                             <- RiscRounds             <- MCRiscRounds
                  <- AuditRounds                       <- MCAuditRounds
                  <- Timetable (used by these three MC modules)
    RamShares     <- RamProofs;  <- MCRamShares
                  implements Memory
    PointFunction <- PointFunctionProofs;  <- MCPointFunction
    Interval, ThreeParty <- Sot <- Csot <- TreeWalk <- TreeWalkProofs;  <- MCTreeWalk
    Bmr           <- BmrProofs;  <- MCBmr
    MaskedShares  <- MaskedProofs;  <- MCMaskedShares
    Arithmetic    <- all proofs but BlockChannelProofs           (lemmas only)

Operators named `Bug...` are variants of the definition that follows them with
one mistake each. No specification uses them; exchanging one for its original
makes a property fail, which is how the properties are known to be able to
fail.

### Link and channel

**Handshake** is where a program starts: the constructors of `P2Pchannel` and
`HighSpeedNetIO`. `at[p]` counts the connections `p` has made, two for each peer
in the order of the map; `Listen`, `Accept` and `Dial` are `server_listen` before
and from `accept`, and the successful turn of `client_connect`'s loop. A listener
that closes takes what others have dialled with it, and `bind` fails on a port in
use. Who listens follows from the ports, 9000 + 10a + b; processes have different
numbers of one digit (`NumberAssumption`), as in `config.json`.

**BlockChannel** is one direction of a link. `counter` is the C++ `counter` of
the sender, `ptr` its `ptr`; `rcounter`, `rptr` those of the receiver; `remain`
is the local variable of `recv_data`'s loop, so that the receiver can be
interrupted between two blocks. `SendBuffered`/`SendOversize` are the two
branches of `send_data`, `RecvBuffered`/`RecvBegin`/`RecvBlock` those of
`recv_data`, `SendFlush`/`RecvFlush` the two `flush` functions; `StdioDrain`
is stdio writing a part of its buffer whenever it likes. Bytes are offsets in the
stream, so "the right bytes" is "the right extent" (`sent`, `got`). A behaviour
has a `script`: the lengths of the messages, and after which of them both ends
flush. That both ends do so is the *assumption* of the link, and the programs
below are what has to meet it. Flushing twice in a row, and before the first
message, is allowed to either end alone, and harmless.

**FifoStream** is what such a link promises.

**P2PChannel** is the channel object of every process one level up: a message
is a tag, a flush puts one batch on the wire. A process is a sequence of
*calls*. `Transfer` is `send_data_to`/`recv_data_from` together with the
`flush_all` they make in flush mode: the receive buffers of all peers are reset
(`Discard`) and the peers with unsent data are queued in `todo`; `FlushPeer`
writes to them in the order of the map, and blocks when a socket holds `Cap`
batches. `bloadcast` is one call of several sends, flushed at its end;
`recv_all` is one receive from each peer, and no flush. Outside of flush mode a
run of sends and receives is one call, since a process touches only its own
buffers; it begins when all blocks it needs have arrived. A batch is taken to
fit in one block; BlockChannel covers longer ones.

The end of the module says what a program alone determines, whatever the other
processes do: `Puts(p, q)[k]` are the batches `p` has made for `q` after `k` calls,
`Gets` those it has read, and `Matched` says that on every link the two are the
same in the end, batch by batch. `Scheduled(time)` says that the calls can be made at
the times `time[p][k]` without anybody waiting: what a call reads was flushed
earlier, what it flushes finds room. **Timetable** computes such times for a
given program, round by round; `ProgramsFit` is the property that programs that
come to their ends match and have such times.

### Programs over the channel

**Reveals**, **OramRounds**, **RiscRounds** and **AuditRounds** are
translations of the protocols into programs: who sends what to whom, in which
order, with which flushes. OramRounds is `ORAM_TEST` with one-word elements,
helper included up to its last message. RiscRounds is the online part of
`run_op` and the write of `ret_res` for the four players, with the build's
`NEED_MUL`, `NEED_CMOV` and `Total_bitwise`. OT is run for one block or one
label; each further one repeats the same messages. AuditRounds is the auditable
library: `ReluProgram` is `relu` (seeds, sharing, `Audit_AY::offline`,
`transfer`, `run_cir` with BMR's broadcasts, `mult`, openings), `MultProgram`
the `main` of `testAB.cpp`.

### Values

**RamShares** holds the values behind OramRounds: shares of the elements at
four players, index shares, opened distances, the two lists a key pair expands
to, zero shares and the conversion, one action per operation of the loop (read,
convert, write). The four players run the same operations in the same order,
and what one computes depends on its own state and on the messages of that
operation only (OramRounds checks that those arrive), so an operation is one
step; `asked` records the target of the last write, so that the array below can
say what a write must store. **Memory** is the array it implements.

**PointFunction** is `fss/`: the client walks down the hidden path, one level a
step (`GenRoot`, `GenLevel`, `Finish`), and chooses the correction words; the
servers then follow the bits of any point (`EvalRoot`, `EvalLevel`). They
exchange nothing, so they walk side by side. `prf` is an arbitrary function of
seeds (`Prg`), with whatever collisions it has.

**Interval** is the arithmetic of interval containment (`scmp.hpp`, used by CSOT):
one comparison key for each of two players, `Carry` for what the dealer's mask
turns around.

**ThreeParty**, **Sot**, **Csot**, **TreeWalk** are the oblivious transfers of
`protocol/3_parties` and `PolyDtEval` on top of them. ThreeParty has the ring of
players and a queue for each ordered pair. Sot and Csot say what each player
computes and sends in each half of a transfer; TreeWalk runs the three
players, each at its own pace: deposit, then on every level two SOTs (node and
feature) and two CSOTs (next node, next feature) whose halves overlap. Every
number is a share; messages are told apart by their order alone. What a point key
gives is as in the list evaluation SOT calls (`fss-server.cpp` 16-107): the
corrected 16-byte seed of a leaf times `w` (`EqEval`), with arbitrary seeds and
factors. Of them `PointAssumption` says only that the seeds of a pair agree off the
hidden position, which is `Agree` of PointFunction. Nothing is assumed of the
hidden position itself: `generateTreeEq` makes `w` for another expansion of that seed
(`fss-client.cpp` 436-456), so the pair need not differ by 1 there.

**Bmr** is multi-party garbling: masks, labels with a difference of each player's
own, tables of AND gates, then evaluation by each player alone. Blocks are sets
of atoms, XOR their symmetric difference, so that a label is right only if every
pad really cancels. Inputs are held by single players, or shared by all
(`online(verify)`), as the auditable library has them.

**MaskedShares** is `malicious_ppml`: registers `[r_1, r_2, r]` at three players
with whatever declared memory holds, and the operations on them. A call is made
by all three, and nobody waits within a call for what is not sent before, so a
call is one step. `Rand` is a constant because `random_T` gives the same at every
player and in every call (`semi.h` 14-24 encrypts a zero block under a zero key); polynomials of the ring protocols are words,
since only their sums and products matter.

## 3. Runs

| run | instance | what it shows |
|---|---|---|
| `handshake` | five processes, all 120 orders of their numbers; 76,186 states | `Crosswise`: each connection joins the two ends meant for each other; `NoClash`: no port is bound twice and no listener is dialled twice; `NeverStuck`, `HTermination`: no circle of waiting processes |
| `block_channel` | block of 3 bytes; up to 3 messages of 1, 2, 3, 4 or 7 bytes, each pattern of flushes with one at the end | `IInv` (the inductive invariant), `Faithful`: every message is read from where it was written; `PadStaysInBuffer`; `ImplementsFifo`; `FlushedArrives` |
| `oram_rounds` | five processes, one iteration, one tree level, one batch per socket; 203,528 states | `NoCrossTalk`: nobody reads another message than the one expected; `NothingDropped`: no flush throws an unread message away; `ProgramsFit`; `Termination` |
| `risc_rounds` | four players, one instruction, two batches per socket; 102,996 states | `Drained`: nothing is left unread at the end; `SomebodyRuns`: never do all players wait, in `fread` or in `fflush`; `ProgramsFit`; `Termination` |
| `audit_rounds` | `relu` among three players, one batch per socket; 4,180 states | `NoCrossTalk`, `ProgramsFit`, `Termination`, with `bloadcast` and `recv_all` in between |
| `oram_no_flush` | as `oram_rounds`, `is_flush` initially false | the first finding below |
| `spdz_rounds` | `testAB` with two players | the second finding below |
| `ram_shares` | 3 elements of 2 bits, 4-bit words, 2 iterations | `ImplementsMemory`, `Replicas`, `RInv`, `OrgIsCurrent` |
| `point_function` | 3 levels, seeds of 2 bits, words below 4, prime 5, all points and all three key kinds; 198,360 states | `Agree`: off the path the servers' seeds are the same; `PointEq`, `LessThan`: the results differ by the value at (below) the point only |
| `tree_walk` | a tree of 6 nodes walked for 4 levels, four features, 6-bit words, two runs of random numbers; 3,006 states | `SelectsOne`: what the SOTs of a level give comes from the shares at the one shared position, which are the tree's node and the feature, each counted by what its keys gain; `ChoosesOne`: the next position and feature are the left or the right block, by the comparison, but for the wraps; `InStep`: no two players are more than a level apart and no queue holds more than one round; `Termination` |
| `bmr` | two players, a circuit of two ANDs, a XOR and an INV, both kinds of input; 75,776 states | `NeverCorrupted`, `SharedOutput`, `Termination`, in every interleaving of the broadcasts |
| `masked_shares` | 4-bit words, `int` of 3 bits, P = 7, registers behind two masks and one the players disagree on; 17,239 states | `ProductRight`; `TruncNear`: right up to one and the wraps of m - r; `SignTells`: which values `Sign` tells apart, with the half that an `int` shifted too far makes; `FoldTells`: by how much an error survives folding |

### Bounds

*Handshake*: with five processes every process can be server and client on
either side of itself in the order of the map; the proofs remove the bound.
*BlockChannel*: the code compares a length with what is left in a
block, so lengths below, at, just above and above twice a block reach every
branch, three messages put each behind each state of either buffer, and the
proofs remove the bound. *Rounds*: a program is finite; a further iteration
repeats the same calls from the same state, because an iteration ends with
empty buffers (`Drained`) - this was tried with two instructions of RiscRounds
(214,625 states), which also passes. `Depth = 1` runs `mpc_block2`, which
contains `mpc_block1`. *RamShares*: with 3 elements the sum of the distances
wraps once and twice below zero and reaches the largest positive one, so that
the normalisation loop turns 0, 1 and 2 times (`MCDeals`, `MCSplits` contain
such cases); 4-bit words are large enough for `3 * (L - 1) <= W \div 2`, which the
code needs and has with 32 bits. Two iterations let a read follow a write; the proofs
remove the bound.
*PointFunction*: three levels have a first, a middle and a last one, which the
code treats apart; the generator has two seeds with the same first bytes and two
that expand to the same residue, so that no step is right by luck of the
expansion; the proofs remove the bound. *TreeWalk*: four levels let a player be a level ahead in the
middle of the walk; the nodes reached differ with the random numbers. Six nodes do
not divide the 64 words, so that the sums of CSOT do slip, and four features do; no
pair of keys gains 1 throughout. The proofs remove the bound. *Bmr*: an AND gate behind INV behind XOR behind AND puts each rule of
labels in front of a table; two players suffice for a share to be missing. The
wires are not written in the order of their numbers, since the circuit files do
not do so either. A batch has one circuit; for those the proofs remove the bound.
*MaskedShares*: the registers and their sums have values
on both sides of zero, with masks that wrap around and masks that do not; words are
wider than an `int`, as `uint64_t` is; `P` is the smallest prime `Sign` can do with
at that length, as 67 is for 64 bits; the proofs remove the bound. Random values are drawn from small sets throughout.

*Safety of the rounds.* The invariants of P2PChannel are shared out among the three
runs. With `ProgramsFit` and `Termination` each run shows that its programs
match and can be run in rounds, and from that the theorems of section 4 give all
four invariants (`NoCrossTalk`, `NothingDropped`, `Drained`, `SomebodyRuns`) for
each of the three programs.

*Socket capacity.* `risc_rounds` needs `Cap = 2`: with one batch per socket all
players block in `fflush` within `ret_res`, because `write_1` flushes two
batches on each link before anybody reads. With 128K blocks that is 256K in
flight; whether it fits depends on the machine's socket buffers.

Deadlock is checked in all passing runs whose system should not stop
(`Terminated`, `Constructed` and the like are the stuttering of processes that
are done). The runs that reproduce a finding disable the check because their
property reports the state.

### Fairness

In BlockChannel each end is a sequential program that goes on: weak fairness of
its sends, flushes and receives; none of `StdioDrain`, which nothing obliges. In
Handshake, P2PChannel and Bmr only that some process that is not blocked takes a
step (`WF` of the disjunction): each makes finitely many calls, so no fairness
between processes is needed. In TreeWalk each player is a process the operating
system runs again and again: weak fairness for each. PointFunction, RamShares and
MaskedShares are sequential and have safety properties only.

### Findings

1. `README.md` line 36 of the repository asks for `is_flush = false` for ORAM. In
   that mode neither `send_data_to` nor `recv_data_from` flushes (`net.hpp` 340,
   349), and the flushes `HighSpeedNetIO` would have made on a change of
   direction are commented out (237-239, 245-247). All players then wait for each
   other in the first `Ram::read` of the loop: `oram_no_flush` finds the
   behaviour.
2. `SPDZ::mult` (`protocol/auditable/spdz.h` 319) returns right after `recv_all`,
   which, unlike `bloadcast`, does not flush (`net.hpp` 321-330): the pad behind
   the peer's message stays in the receive buffer. `testAB.cpp` 59-62 opens the
   product next, and reads that pad for a share: `spdz_rounds`. The callers in
   `transfer`, `run_cir` and `BMR::offline` call `flush_all` after `recv_all`.

Some places were seen to disagree with their neighbours while translating, and
lie outside the checked instances; each is named here so that nobody takes the
runs for more than they show.

- `fss-server.cpp` 71-76: the evaluation into a list of big integers, which SOT uses,
  multiplies the 16 bytes of a leaf's seed by the `w` made for its 34-byte expansion.
  At the hidden position the two servers do not differ by 1, each share is selected
  with a factor of its own, and a walk does not follow the plain one ("fetch id, k",
  `outsource_dt.h` 511). TreeWalk keeps the factors: `SelectsOne` says what is
  selected, with them in.
- `BMR.cpp` 265: `memcpy` takes byte `i * itr` of a message for block `i * itr`,
  and label pairs are written at one stride and read at another: right for a batch
  of one circuit only. Bmr keeps these offsets.
- `csot.hpp` 276: shares that add up modulo 2^32 are reduced modulo the number of
  nodes or features; a number that does not divide 2^32 adds 2^32 times a masked
  difference of blocks whenever a sum wraps (`ChoosesOne`). `Test_3_dt_const.cpp` 40
  has 100 features.
- `semi.h` 708: `1 << shiftsize` is an `int` shifted by 63 for the 64-bit words
  the programs use. MaskedShares has the width as `IntBits` and takes 0 or the lowest
  `int`, sign extended, for the half. With 0 small values come out turned over; with the lowest
  `int` nearly all come out as 0 (`SignTells` at those halves). `ShareA` (213) takes the register by value, and a
  register holds its arrays: nothing it computes reaches the caller, whose
  register keeps what was in memory (`Memories`).
- `spdz.h` 54, 274: `neg` subtracts a commitment from the prime, where the
  commitment to the negated value is the inverse; 538 leaves the term of both
  openings out of the product of bits.

## 4. Proofs

All theorems hold for every value of the constants that the named assumptions
allow.

**P2PChannelProofs**, first part: Handshake (`NAssumption`, `NumberAssumption`; any number
of processes):
`TypeCorrect`, `Inductive` (`[]HInv`), `RightEnds` (`[]Crosswise`) and `OwnPorts`
(`[]NoClash`). Ports of different pairs differ (`PortsDiffer`), so two processes
at one port are at each other, and at the same one of their two connections
(`Meeting`). Crosswise is not inductive alone: what waits in a listener's queue
must be the end the listener is for, and whoever dialled must have gone on
(`Dialled`), or the same listener could be dialled twice. `NoDeadlock`
(`[]NeverStuck`): somebody can listen, accept or dial until all
are connected. It needs one more invariant, `Paired`: the two ends of a pair
differ by the connection that is dialled and not yet accepted. Among the pairs
somebody is held up at, take the smallest process; its peer cannot be held up at
an earlier one, so the two face each other, and then one of them can go on. The
argument rests on all processes taking their peers in the same order.

**P2PChannelProofs**, second part: P2PChannel (`CapAssumption`, `IsFlushAssumption`,
`ProcessesAssumption`, `ProgramAssumption`; any number of processes, any programs
made of the calls there are, any room in the sockets). `ChannelTypes` (`[]TypeOK`)
needs the inductive `TInv`, which bounds `pc` by the length of the program and every
socket by `Cap`. The other theorems assume `Matched`: `NoCrossTalkAlways`
(`[]NoCrossTalk`), `NothingDroppedAlways` (`[]NothingDropped`), `DrainedAlways`
(`[]Drained`). None of the three is inductive: a message has no name on the
wire, and which one comes next follows only from how often either end has
flushed. `CInv` says that for every link, from the two places in the two programs:
what the sender holds back is the part of a batch it is making (`SenderAt`), the
wire carries the batches between the last the reader has begun and the last the
sender has written (`WireAt`), and what the reader has not read of its block is
the rest of one batch (`ReaderAt`). A call moves all three (`SenderMoves`,
`ReaderMoves`, `WireMoves`), a write of one batch the sender and the wire
(`SenderWrites`, `WireGrows`), and between the flushes of one end the other may
be anywhere. That the flush of all peers loses nothing is where `Matched` is
needed most: the rest of a block is empty whenever a program that matches flushes.

`NoStandstill` (`[]SomebodyRuns`) assumes besides that some order of the calls lets
nobody wait (`Scheduled`). In any state take the process whose next call is the first
in that order. The calls before it have all been made, though perhaps in
another order; so what it wants to read has been flushed and is on the wire
(`FirstMayCall`), and if it is writing what it flushed, the batches that must have
left the socket have been read (`FirstMayWrite`). It can go on. So one
schedule without waiting is enough for all interleavings: the programs can only
stop in a place where every order of them does. The hypotheses are those that `ProgramsFit`
checks of each program; `MultProgram` of `testAB.cpp` (finding 2) does not match, and
ORAM_TEST without flush mode (finding 1) does not either.

**BlockChannelProofs** (`BAssumption`, `ScriptsAssumption`; every block size and
every set of scripts): `Inductive` (`[]IInv`), `TypeCorrect`, `Faithfulness`,
`PadSafety` and `Refinement` (`Spec => ImplementsFifo`). `Faithful` alone is not
inductive: it says nothing about where the ends stand. `IInv` adds that each end
stands at an offset determined by script and message number alone (`End`,
`NextOff`, `At`), that the stream is a whole number of blocks except for `ptr`
unless a message has gone past `buf`, and that inside `recv_data`'s loop
`rcounter + remain` is the end of the message being read. There is one lemma per
action; those that send share `SendStep`, those that finish a receive share
`RecvStep`.

**RamProofs** (`SizeAssumption`, `RandomAssumption`): `Recover` (the
normalisation loop gives the residue of every sum between `-2L + 2` and `3L - 3`
from its wrapped word), `Opened` (what a pair opens is the distance of the
address to the hidden point, for all shares and wherever they wrap), and from
these `Inductive` (`[]RInv`) and `Replicated` (`[]Replicas`): both players of a
pair open the same distance and the same difference, and a zero share is left for
each conversion (`Counting`), so their copies never part. Replicas is not
inductive without the counting: a conversion that finds no zero share leaves
additive shares behind.

The same module then proves what the run checks of the values. `ArrayInductive`
(`[]AInv`) adds to RInv the types and that `org`'s shares add up to the element at
the index. Its core is `Products`: the product of a RAM's share with the lists of
a key pair is a sum over all addresses, of which the lists leave one term. From
AInv follow `TypeCorrect` (`[]TypeOK`), `Current` (`[]OrgIsCurrent`) and
`Implements` (`Spec => ImplementsMemory`): a read returns the element, a
conversion changes no value (a stutter of Memory), a write changes the one
element - provided the old value is the current one, which is what `Current` is
needed for.

**PointFunctionProofs** (`TreeAssumption`; every depth, point, value and
generator): `TypeCorrect`, `Inductive` (`[]PInv`) and `Agreement` (`[]Agree`). PInv
says that on the path the servers are at the very seeds the client chose the next
correction for, with different t bits, and that off it they are equal; `OffPath`
is the step that makes them equal, `StepSame` that equal servers stay so.
`ValuesInductive` (`[]VInv`) adds the sums the servers form on their way: what
each level of a comparison key gives one server more than the other when the
input leaves the path there (`RootGain`, `LevelGain`), and that their sums are equal
on the path and differ by the value once the input has left it to the left
(`Difference`, `BelowStep`). From it `Comparison` (`[]LessThan`): the results differ
by the value exactly below the point. `PointEquality` (`[]PointEq`) needs
what the code takes for granted of its last step: that the inverse it computes is
one (`InvertAssumption`), that the modulus is prime (`PrimeAssumption`) and that
seeds with the same half expansions have the same whole one
(`WholeAssumption`).

**MaskedProofs** (`MaskedAssumption`; every width, mask, factor, number of
operands and content of the memory): `Products` (`[]ProductRight`), `Truncation`
(`[]TruncNear`), `Folding` (`[]FoldTells`) and `Signs` (`[]SignTells`). Every equation of
these protocols holds modulo `W` only, so the lemmas carry `Same(W, a, b)` through
sums and products. The inductive invariant `MInv` says that the registers are
shares and that the last call left what it promises. `TruncNear` has the wraps of
m - r in it: there is no condition on the masks. `Signs` needs `PrimeAssumption` for the
factors, and nothing of the width of an `int`: it says what the comparison tells for
whatever half `1 << shiftsize` has made, and this is the sign only for the half of a
word that fits an `int`, and a mask `r` with which `v + r - half + 1` has the sign of
`v`. Sign compares bit by bit: the
first place at which two numbers differ is the only one where what the players
compute becomes zero (`FirstDifference`, `Ones`), and no factor makes
anything else zero modulo a prime.

**BmrProofs** (`CircuitAssumption`; every number of players, circuit, choice of
masks and inputs): `BmrInductive` (`[]BInv`), `LabelsGood` (`[]NeverCorrupted`) and
`Outputs` (`[]SharedOutput`), for one circuit in a batch (`Lens = 1`; with more the
code is wrong, see the hazard at `BMR.cpp` 265). A circuit is any list of gates that
read inputs or what earlier gates have written, each writing a wire of its own.
NeverCorrupted says nothing about how a label came to be; BInv adds, per player and
phase, that masks and label pairs follow the gates' rules up to the gate the
player is at (`MaskInv`, `KeyInv`), that its own rows are `RowFor` of what it holds
(`TabInv`), that a message once sent is what its sender still holds (`MsgInv`,
which makes the order of arrival irrelevant), and that wires it has evaluated are
`Right`: their bit is the plain value under the mask and their labels those of
that bit. `DecryptedIs` is the step that matters: the sum over the players of the rows
for the masked inputs is the label of the masked output, all pads cancelling. What the
plain circuit computes is a recursive function; that it exists is proved by
induction over the gates (`PlainExists`).

**TreeWalkProofs** (`WidthAssumption`, `OwnerAssumption`, `SizesAssumption`; every
depth and tree, every interleaving; no fairness): `Containment` - for every word width, every
interval, mask, pad and word the two answers add up to whether the word lies in
the interval. The proof is about the two comparisons both players can make
themselves, the two they make by key, and the dealer's `Carry`, each of which may
be on either side of a wrap (`Comparisons`). `PaceInductive` (`[]PaceInv`) and `Pace`
(`[]InStep`): PaceInv says that the words under way between two players are those
the one has sent up to its place in the program (`SentToSuc`, `SentToPre`) less those
the other has taken up to its own (`TakenFromPre`, `TakenFromSuc`). InStep follows
because a queue cannot hold less than nothing: a player a level ahead would have
taken words its neighbour has not sent yet (`Drift`), and the third player is a
neighbour of both.

The same module proves what the run checks of the shares, `SelectsShared`
(`[]SelectsOne`) and `Chooses` (`[]ChoosesOne`), with `TreesAssumption`,
`RandomAssumption` and `PointAssumption`, for any number of nodes and features that
`SizesAssumption` allows, divisors of the number of words or not. The argument has two
halves. What happens on a level is arithmetic: `Selection` (the three answers of a SOT
add up to the gains of the three shares at the shared position, all others cancel,
since the keys agree there and both holders turn the list alike) and
`ChosenAdds` (the three shares of a CSOT add up to one block or the other, by
`Containment`, plus `W` times a masked difference for each player whose two parts
wrap). What remains is that the players, at their own pace, with words that carry no
names, do make the sequence `g` of what they hold at each level, each made from the
one before by `Onward`: `WalkInductive` (`[]WalkInv`). The `World` of a run is
what is fixed once it is drawn; `Nth(w, g, p, q, k)` is the k-th word `p` ever sends `q`
when the world is `w`, `Streams` that what waits in a queue is what comes next of it,
and `Holds` what a player has at each place of its program, `Settled` what it has
picked and chosen included. A step that sends adds
the next words of the stream (`StreamsSend`), one that receives gets the words it
takes them for, because PaceInv counts how many came before (`Came`); there is one
lemma per action. SelectsOne and ChoosesOne say nothing of the moments at which the
players are on different levels, which is nearly always; that is why neither is
inductive, and why the invariant names what each player holds by itself.

**Arithmetic** has the lemmas these modules share: induction over sets of numbers
and of subsets, remainders, powers of two, sums of `SumFunctionOnSet`. The library's
induction theorems take an operator as a parameter, which the provers at hand cannot
instantiate; a *set* that holds 0 and with every number the next one can be
(`CountUp`), and that is how the sums and recursive functions above are dealt
with.

Only model-checked: all liveness (`FlushedArrives`, `HTermination`, `Termination`), which is
out of the prover's reach with ENABLED; and `ProgramsFit`, a fact about three
concrete programs, which TLC evaluates. Proving it for any number of iterations
or levels would be an induction over programs computed by recursion.

## 5. Not modelled, and why

- Peers that go away: `recv_data_raw` then spins for ever (`net.hpp` 121), and no
  process of the modelled programs leaves early. `flush_player`: nothing calls it.
- `ConstDtEval` and `despoit1`, generating and reading trees: item 6 of the plan.
- The values and commitments of SPDZ and of the openings in `Audit_AY`; a
  commitment is a product of powers of big integers, of which TLC could check toy
  groups only.
- The values of the machine, of Compare's equality, sign and overflow, and of the
  XOR ORAM; `dupliM`, `recover_list`. `relu` of the malicious library: no live
  program calls it.
- `load_env`, `load_ins`, the offline part of `run_op` and the helper's part
  of the machine; in ORAM_TEST the block-element variant, and the helper after
  its last message.
- ORAM_TEST passes the same constant as every player's additive index share;
  RamShares models the operations for proper shares, as the machine uses them.
- What keeps shares secret. Keys are the lists they expand to; encryption,
  pseudorandom functions and commitments are not modelled.
- GCM (the emp library's garbling of one circuit) and `gmw.cpp`.
- Restatements and older copies: `sign.h`, `signv.h`, `sharem.h`, `bicoptor.h`,
  `newnetshare.h`, `BMR copy.cpp`, `spdz.cc`, `spdz2.*`, `spdz copy.h`.
- Configuration files, timing, encoding, argument parsing; vendored code and data.

## 6. Plan

1. *(done)* BlockChannel with FifoStream, and its proofs.
2. *(done)* P2PChannel; programs OramRounds, RiscRounds and AuditRounds.
3. *(done)* RamShares with Memory; index and replication proofs.
4. *(done)* Handshake, its invariant and freedom from deadlock.
5. *(done)* PointFunction and Agree; Interval and Containment; SOT, CSOT and the
   decision tree; BMR; masked shares.
6. ConstDtEval: the costs of the leaves and the key the players wait for
   (`outsource_dt.h` 433).
7. Machine: values of `run_op` and `ret_res` on abstract shares (select by
   `betas`, flags, pc, registers), refining an abstract instruction set;
   properties on `pc`, `flag` and the write back; the helper and the offline part
   as further programs over P2PChannel.
8. Compare's equality, sign and overflow on top of Interval; the split forms'
   queues. XOR ORAM: values of `gen` and `Oram::write`. SPDZ's triples and openings
   without their commitments.
9. *(done)* Proofs: RamShares implements Memory; both results of PointFunction;
   MaskedShares for every width; the labels and outputs of Bmr.
10. *(done)* Proofs: TreeWalk's players stay in step; what they select, and what they
    choose.
11. *(done)* Proofs: safety of P2PChannel for arbitrary matching programs, and its
    freedom from deadlock for those that can be run in rounds.
