# A TLA+ model of satpg

satpg generates test vectors for stuck-at and transition-delay faults of a
sequential gate-level circuit with a SAT solver, and simulates faults to drop
those that a vector detects by chance and to minimise the set of vectors. It is
a sequential C++ library with a Tcl shell (`atpg_tclsh`) and Cython bindings.

Nothing runs concurrently. What is hard here is of another kind: word-parallel
simulation in which up to 64 simulations share the state of every node;
node values changed in place and put back afterwards; scratch data (masks, marks,
buffers, result arrays) that outlives the call it belongs to; an event queue
whose termination rests on an argument about levels; commands given repeatedly over
shared status, skip marks and vectors; and several components that must agree
about what is observed at all.

## 1. Inventory

| Component | Code | State | Operations | Correct when |
|---|---|---|---|---|
| Simulation network | `fsim/SimNode`, `Sn*`, `PackedVal3.h` | node value, marks, adjacency | gate functions, masked assignment, fanout lists, levels, FFRs | gates compute their function lane by lane, derived data agree with the fanins |
| Event queue | `fsim/EventQ` | lists by level, current level, count, clear list, flip masks | `put_trigger`, `put`, `get`, `simulate` | reports the lanes in which a complemented node is observed, finds every event, leaves no trace |
| Fault simulator | `fsim/FsimX`, `Fsim`, `InputVals` | node values, previous values, skip marks, masks, patterns, results | `spsfp`, `sppfp`, `ppsfp`, `set_skip`, `set_pattern`, ... | reports exactly the faults detected, independent of earlier calls |
| Sequential simulation | `FsimX::set_state`, `calc_wsa` | node values, previous values | `set_state`, `get_state`, `calc_wsa` | follows the synchronous machine and counts its transitions |
| Test generation command | `atpg_tclsh/DtpgCmd`, `AtpgMgr`, `dop/`, `uop/`, `FaultStatusMgr` | fault status, vectors, skip marks, verify result | `dtpg` with its options, one engine call per undetected fault | status and vectors agree, classes are final, no vector is superfluous with `-drop` |
| Network, fault collapsing | `tpg_network/` | nodes, FFRs, MFFCs, faults, representatives | `set`, `set_rep_faults`, `set_ffr`, `set_mffc` | equivalent faults only are merged, every fault has a representative |
| SAT engines | `dtpg/`, `struct_enc/` | variables, clauses | `gen_good_cnf`, `gen_faulty_cnf`, D-chain, `gen_pattern` | a model is a test; unsatisfiable means untestable |
| Sufficient conditions | `ex/` | marks | `get_assignment(s)` | the assignments alone propagate the fault |
| Justification | `jt/` | marks, weights | `justify` | the input assignment implies the required values |
| Assignments, vectors | `tvect/`, `NodeValList`, `TestVector.h` | sorted lists, packed bits | `merge`, `diff`, `compare`, `merge` of vectors | set semantics on sorted lists; compatible and merge agree |
| Pattern minimisation | `minpat/`, `colcov/` | conflict graph, colours, candidate lists | `coloring`, `heuristic`, fault reduction, merging | every fault stays covered, merged vectors are compatible |
| Tcl shell, bindings, scripts | `atpg_tclsh/`, `cython-src/`, `py-src/`, `python/` | options, one network | printing and option parsing | - |
| Not built | `sa/`, `td/`, `minpat.old/`, `rtpg/` | - | - | - |

How they interact: `DtpgCmd` walks the fault lists of the FFRs or MFFCs, asks an
engine about each fault that is still *undetected* and runs the list of detect
operations on the vector found. `DopDrop` calls `Fsim::sppfp` with the vector,
and marks the faults it reports as detected and skipped. `Fsim` is compiled
four times (two or three values, stuck-at or transition faults) from `FsimX`;
it traces faults to the root of their fanout-free region and hands the roots to
`EventQ`. `EventQ` changes the values of the shared `SimNode`s, and restores them.

`TpgNetworkImpl::set()` builds the network all of them share: its representative
faults, regions and cones are the lists `DtpgCmd` walks, its immediate
dominators are forced to carry the difference by the engines. An engine
belongs to one region (`DtpgFFR`) or one cone (`DtpgMFFC`) and keeps its solver
between calls; what the solver finds goes through `Extractor` and `Justifier`
before it is a vector. The Python programs go further: `python/dtpg_test5.py`
finds the faults that have a test, lets `MinPatMgr::fault_reduction()` shorten
their list, has the class `Dtpg` of `py-src/dtpg.py` generate up to k tests for
each fault that is left, and calls `coloring()`, which finds groups of compatible vectors that detect
those faults and merges them; then it does so again with another k.

The hazards these interactions bring are listed, line by line, in
`PROJECT.json`; the properties below are stated against them.

## 2. Modules

| Module | Models | State and actions |
|---|---|---|
| `Gates` | gate types of two values | pure operators |
| `Circuit` | a network of `TpgNode`s, what a fault does in it | pure operators: values with and without a fault, the region of a node, the region's condition |
| `TpgNetwork` | `TpgNetworkImpl::set()`, `TpgNodeFactory`, `AuxNodeInfo` | one action per item of each loop: source node, connection, fault list, dominator, region, cone |
| `Dtpg` | `dtpg/DtpgFFR`, `DtpgMFFC`, `DtpgEngine`, `ex/`, `jt/` | one action per call, per round of its loop and per answer of the solver |
| `SimNet` | `SimNode`, gate classes, packed words | constants for the network, `Word == [Lane -> Vals]`, `CalcVal` |
| `Netlist` | `FsimX::set_network()`, gate constructors | pure operators that derive fanouts, levels, region roots and the queue's size from the fanins |
| `EventQ` | `fsim/EventQ` | one action per loop turn: `PutTrigger`, `PutFanout`, `NextLevel`, `Evaluate`, `Finish` |
| `FaultReference` | - | direct evaluation of a network with complemented nodes |
| `FaultPropagation` | what `EventQ` promises | abstract specification: trigger, begin, return |
| `FaultModel` | fault records; what it means to detect a fault | faulty network evaluated pattern by pattern |
| `FaultSimulation` | what `Fsim.h` promises | abstract specification: marks, patterns, call, return |
| `Fsim` | `FsimX`, `InputVals`, `Fsim` | one action per call, per region of a loop, per `simulate()` |
| `Wsa` | `set_state`, `get_state`, `calc_wsa`, `RandWsaCmd` | one action per clock cycle |
| `Atpg` | `DtpgCmd`, `AtpgMgr`, `dop/`, `uop/`, `FaultStatusMgr` | one action per outcome of `gen_pattern` and per detect operation |
| `FaultReducer` | `minpat/FaultReducer`, `UndetChecker`, `DomChecker` | one action per block simulated and per fault visited |
| `MinPat` | `MinPatMgr::coloring()`, `MatrixGen`, `MpColGraph`, the matrix, `TestVector` | one action per block, reduction step, column deleted, group member, node coloured and vector merged |
| `Compaction` | `python/dtpg_test5.py`, `exec_one.py`, `py-src/dtpg.py` | reduction, one action per fault the generator visits, colouring |
| `NetworkLemmas`, `CircuitProofs` | - | lemmas: recursion, gates and networks of the simulator; values, regions, cones and faults of `Circuit` |
| `SeqNet`, `FsimState` | flip-flops and inputs of the network; `FsimX::mVal`, `mPrevVal` | the constants and variables that several modules of the simulator share |
| `EventQProofs`, `FsimProofs` (with `Wsa`), `DtpgProofs` (with `Atpg`), `CompactionProofs` | - | theorems |
| `TpgNetworkProofs`, `TpgNetworkConstruction` | - | theorems about `TpgNetwork`: what it builds and collects; the sizes counted beforehand and the equivalence of faults |
| `MC*` | - | instances for TLC |

A packed word (`PackedVal3`, two machine words) is a function from lanes to
`"0"`, `"1"`, `"X"`, and a bit mask is a set of lanes. A node is its id, the lists of `mArray` (linked through `SimNode::mLink`,
newest first) are sequences, and the marks in `SimNode::mFanoutNum` are sets of
nodes. A test vector of `MinPat` is a function from positions to `"0"`, `"1"`,
`"X"`; an assignment list of `Dtpg` is a set. A complex gate is the sequence of
its subexpressions in post-order, a clause of the solver what it says of the
models. The variables `gval`, `trig` (EventQ), `call` (Fsim), `cycles`,
`weighted` (Wsa) and `seen` (FaultReducer) are history: no action reads them except to state a property
(`trig` and `call` also carry the arguments of the call in progress).

How the modules compose.

* `EventQ` meets its callers in `MayTrigger`, which says what FsimX
  passes to `put_trigger()`: roots of fanout-free regions that are no outputs. `Fsim` uses the queue through `FaultPropagation`,
  which `EventQ` is shown to implement, and its own obligation towards the queue is
  the property `QueueContract`.
* `Atpg` uses the simulator as a relation between faults and vectors, which
  `Fsim` is shown to compute exactly, and the engines as an answer that is a test, a
  proof or nothing, which `Dtpg` is shown to give.
* `TpgNetwork`, `Dtpg` and `MCFaultReducerTD` instance `Circuit`, so that
  representatives, conditions and tests are judged by one definition of
  what a fault does. `ImmDomIsFirst` of `TpgNetwork` is what `Dtpg` assumes of
  `immDom`, and `FaultsPartitioned` is what `Atpg` assumes of the fault lists
  it walks.
* `Compaction` extends `FaultReducer` and `MinPat` and joins them by the
  assumption `SameCircuit`: both see the same faults, vectors and tests.

## 3. Runs

| Run | Question | Bounds |
|---|---|---|
| `MCEventQ` | Does the queue stay sound at every step, compute what direct evaluation computes, return, and leave nothing behind for the next simulation? | 11 nodes, 2 lanes, 3 values; one `simulate()` with lanes that differ (16 pairs of patterns) or two with lanes alike |
| `MCEventQControl` | Does the size of the queue suffice if a clock terminal lies above the outputs? **No** | 7 nodes |
| `MCFsim` | Do `spsfp`, `sppfp` and `ppsfp` report exactly what is detected, whatever calls came before? | 9 nodes, 9 faults, 5 regions, 2 lanes, up to 4 calls; stuck-at with 2 and with 3 values, transition with 2 |
| `MCWsaOne` | Does the sequential simulation follow the machine (one input)? | 2 flip-flops, 5 cycles |
| `MCWsaTwo` | And with two inputs? **No** | the same |
| `MCAtpg` | With `-drop`: are classes final, is nothing skipped that is open, do the vectors cover what is called detected, is none superfluous? | 3 faults, 2 vectors, every relation, 2 orders, 2 commands |
| `MCAtpgControl` | And if the simulator observes more than the engine? **No** | the same |
| `MCTpgNetwork` | Do the sizes counted suffice, are representatives equivalent, dominators the first, is each representative fault in one region and one cone, is a region's condition exact? | every circuit of 2 inputs and 3 gates (NOT, NAND, XOR), and about 30 larger ones |
| `MCTpgNetworkXnor` | Does every fault lie at a fanin its node has, if the gate is a wide XNOR? **No** | one gate |
| `MCDtpg` | For every model the solver may return: is the condition sufficient, does the vector detect, is unsatisfiable a proof, are the k patterns new, does the core suffice? | 5 circuits, both classes of engine, stuck-at and transition, k up to 3 |
| `MCCompaction` | From the full fault list over the generated tests to the merged vectors: is no fault lost, is the optimum kept, do matrix and graph agree, do the programs end? | 4 sets of 3 faults, 2 partitions into regions, every choice of up to 2 tests of 2 bits with X for each fault, blocks of 3 |
| `MCFaultReducerTD` | Is a transition fault deleted only if its tests are implied? **No** | 2 faults, 2 inputs, 2 cycles |

Why the bounds are enough to be interesting.

* The network of `MCEventQ` has
  reconvergence over paths of different length (an event overtaken by another),
  an output below the highest level, an output reached twice and a gate with
  two inputs on one node. Four nodes are roots that may be triggered, two of them inputs; two triggers at
  once cover a trigger above another, and two lanes show
  interference between lanes.
* The network of `MCFsim` has three regions whose roots need a simulation
  and two lanes, so the buffer of roots is full once and partly filled once in a
  call; its flip-flop closes a loop for the second cycle of a transition fault, and two roots are outputs.
  The constants `Single`, `PatternsTwice` and `Transition` bound which calls are
  made one after the other; two or three are enough for what a call leaves to be
  read by another.
* In `MCAtpg` the relation between faults and vectors ranges over everything, so
  that the three faults stand for a target, a fault dropped and one left.
* The larger circuits of `MCTpgNetwork` have what three simple gates have not:
  a wide XOR, complex gates with a literal used twice or negated (each needs
  nodes of its own), a constant, a flip-flop with all its terminals, and a node
  that drives nothing.
* The circuits of `MCDtpg` have a side input that masks a difference, two
  differences that cancel, a stem with two outputs, a redundant gate and a
  flip-flop. All models of the clauses are tried, and where a circuit gets a
  second call the clauses of the first are still there.
* In `MCCompaction` three faults with up to two tests give lists of up to six vectors, so that a block of
  three is filled, partly filled or followed by another; the cubes are such that some of the tests conflict
  and some faults imply others.
  One fault may have two cubes, so that a vector detects it in different ways.

All runs but `MCCompaction` say `CHECK_DEADLOCK FALSE`, since a bound on the
number of calls, or the end of a program that runs once, ends each
behaviour. `Compaction` goes on with another k when it has merged: a deadlock anywhere
would be an error.

The five violations are findings:

* `calc_wsa(InputVector)` (`FsimX.cc:618-622`) lacks the `++ i` that `set_state()` has.
  `SetInputsFrozen` models what it does; with more than one input the
  simulated cycle is not the one asked for.
* `set_network()` (`FsimX.cc:233-239`) sizes the queue by the levels of the
  (pseudo) primary outputs, but clock, clear and preset terminals are outputs
  too and may lie higher, with the logic that feeds them alone. `get()` and `put()` then index behind `mArray`, against the
  comment at `EventQ.h:207`.
* The same terminals are observed by the simulator and not by the engine
  (`DtpgEngine.cc:367`): a fault may be proved untestable and then be reported as
  detected, against the assertion at `DopDrop.cc:59`.
* `make_logic_node()` records for the branch faults of a decomposed XNOR gate the
  input positions of the whole gate (`TpgNetworkImpl_make_node.cc:297`), where the loop for XOR
  records the second position of each node: a gate with more than two inputs gets sites its
  nodes do not have, against the assertion at `AuxNodeInfo.cc:121`.
* `DomChecker` and `UndetChecker` ask whether a fault may stay undetected in the
  last cycle and leave out the condition on the cycle before, so that a
  transition fault is kept out of the list although a test of the other need not
  detect it, against the comment at `FaultReducer.cc:477`. For stuck-at faults the
  deletions are right, and that is a theorem.

**Fairness.** `EventQ!Spec` has weak fairness of `QueueStep`: `simulate()` and
`put_fanouts()` are straight-line code, so once entered they go on. Nothing
makes a caller trigger or simulate. It is used by `Returns` alone.
`Compaction` has weak fairness of its next-state relation, for the same reason
and for `Compacted` alone: reduction and colouring run to their end without
waiting for anybody, and the generator visits each fault once. All other modules are checked for safety.

## 4. Proofs

Everything in this section is checked by TLAPS for every value of the constants.

Most definitions are recursive functions over a network, `f[n \in S] == ... f[m] ...`, which
TLA+ takes as a CHOOSE of a solution of an equation. `NetworkLemmas` and `CircuitProofs`
derive from `WFMin` of the library, for sets and functions and without operator parameters, that
something which passes from the elements of lower rank to those of higher rank holds of all (`RankInduction`),
and that such an equation has one solution (`RecursionExists`, `RecursionUnique`).
Each definition is unfolded with them once; what follows are inductions over node numbers, levels or cycles.

### Event queue (`EventQProofs`)

The theorems hold for every finite network whose levels rise along the edges
(`LevelAssumption`, `FanoutAssumption`), every set of lanes and every set of consistent fault-free
valuations. They follow from one inductive invariant `IInv`, proved in `Invariance`
with a step for each action. The properties checked by TLC are not inductive by themselves:

* `ListsMatchMarks` and `NothingBelowCurLevel` are close to inductive, but need types
  and `GatesQueued` (only gates are queued, at a level above 0).
* `EnteredOnce` for the clear list needs that a node evaluated is not on it yet.
  `ListedBelow` gives that: during `simulate()` everything on the list lies below
  everything still in the queue or about to be put there. For the next
  node taken it needs in turn that nothing is queued below the current level.
* `TriggerPhase` says what may be in the queue before `simulate()` begins (the
  triggered nodes, or the fanouts of the one triggered immediately or of inputs),
  and `RememberedOnce` relates the flip marks, masks and the list of them.
* `OldValuesKept` is the heart of `Undoable`: an entry of the clear list holds
  the fault-free value of its node, and a node without entry still has it.

`LevelsFit` shows `LevelInArray` from one more assumption, that every node
without fanout lies below the size of `mArray`. This is the assumption that the
control terminals of flip-flops break: with the run `MCEventQControl` it
shows where the finding begins. `EventsRise` is the argument for termination.

`QueueImplementsPromise` is the refinement of `FaultPropagation`. Its invariant, `ValuesInv`, says
that in every lane not yet observed a node that is neither queued nor about to be put has
the value that its gate computes from its fanins (`Settled`), complemented where it is
triggered. When the queue is empty all nodes are settled, and a network has only one such
valuation, the one of direct evaluation.

### Fault simulator (`FsimProofs`)

`ContractIsKept` shows that `FsimX` calls `put_trigger()` as the queue expects, for
every network, order of regions and width of a word. `RootsAreMarked` gives that
a node which is its own root has no or several fanouts, since the walk up from any other node ends above it.
With it, what
`EventQProofs` says under `MayTrigger` holds for the simulator. The invariant
`LInv` ties three things together: the triggers are those of `ffr_buff`, lane by
lane (`LanesBelongToFfrs`), their number is its length (`TriggersCounted`), and
the roots in it belong to regions behind the loop (`RootsPassed`), so that the next
root, which occurs once in the list, is not triggered yet.

`CallsReportExactly` is the refinement of `FaultSimulation`: each call returns the faults that
evaluation of the faulty network, pattern by pattern, detects. The argument has two halves.
Within one pattern, tracing a fault through its region and simulating the root is the same as
evaluating the faulty network, because a change inside the region reaches the outputs by the root only and passes
a gate exactly when the side inputs let it, also if they are X (`EdgeAssumption`: a node with one
fanout feeds one input of it). Over a call, `RInv` says of every state between two turns of the loop
that the results are right for the regions behind it, that those of `ffr_buff` are
still to be swept, and that the values loaded are still those of the call. `EachFaultReportedOnce`
follows from the order in which the regions and their faults are swept, so that the result arrays cannot overflow.

### Sequential simulation (`FsimProofs`)

`MachineIsSimulated`: with at most one primary input, `calc_wsa()` returns the transitions of the
machine replayed from the recorded inputs. The hypothesis is where the finding of `MCWsaTwo` begins. Two facts carry it: the values
depend on the inputs and flip-flops only (`TerminalAssumption`), and the replay of a longer history begins with the replay of the shorter one.

### Test generation command (`DtpgProofs`)

`BaseInv` relates the position in the loop, the operations still to run and
the target. From it follow the types, `SkipOnlyClassified`, and, where the
engine observes what the simulator does (`OnlyPpoObserved`), that only untestable faults are called
untestable and classes are final. `Kept` strengthens `DetectedIsCovered` by the operations
still to be run (a vector not yet kept whose fault is not yet called
detected) and assumes that no command had `-nopat`. `NotYetDropped` does the same for
`EveryVectorCounts` and assumes `-drop` in every command: every fault that an
old vector detects has been classified, or is about to be.

### Construction of the network (`TpgNetworkProofs`, `TpgNetworkConstruction`)

The theorems hold for every source network that `ProperSource` describes: what the
external library hands over has its gates in an order in which fanins come first, gates
with inputs, and expressions over these inputs. From it alone follow `TypesAreKept`,
`DominatorsAreFirst`, `ConditionsAreExact`, `FaultsArePartitioned` and `SizesAreSufficient`,
and with one more hypothesis `RepresentativesAreEquivalent`. `IInv` has one part per stage of `TpgNetworkImpl::set()`:

* `Building`: while nodes are made, each input pin has a connection of its own on
  `connection_list` and every connection leads to a pin (`Wired`), fanins are nodes
  made before and never terminals, `NodeMap` knows the nodes of the source so far (`Maps`), and the faults
  sit on nodes and pins that exist (`Faulted`). `make_logic_node()` decomposes wide XOR gates and
  expressions by recursion; in the model these are functions that build a node from
  what the turn before built, so that `GuardedRecursion` is needed: a result of the induction is
  also what makes the next application of the function defined.
* `Analysed`: once set, the fanout list of a node is what its connections say, the fault
  lists keep to faults of their node, and a dominator lies above its node.
* `Dominators`: `ChainedAbove`, by descending node number: the nodes on all ways from n to
  an output are n, its `imm_dom()` and those of that. `MergeFacts` shows of the loop
  of `merge()` that, given two such chains, it stops at the first node they have in common, or at null when they have none.
* `Regions`: what `set_ffr()` has on its list, and the faults it has collected, belong to the root of the region.

`FaultsPartitioned` needs more, which is inductive together with `IInv` (`Collected`):

* `FfrsCollected`, `MffcsCollected`: the regions so far are those of the first roots, and
  each has the faults of its nodes, once (`Collects`). For the one on the way there is a set of nodes
  visited whose faults it has: what leads to them was visited too or waits on the
  list, which has nothing twice (`Visiting`). When the list is empty all nodes of the region were
  visited, since each but the root leads to one of it further up (`VisitedAll`).
  For `set_ffr()`, which keeps no mark, nothing is pushed twice because a node that is no root
  has one fanout (`FfrReached`); for `set_mffc()` the mark sees to it (`MffcKinIs`).
* `ListsOnce`: a site has one fault of each value, so no node lists a fault twice, and
  a node that leads to no output lists none.

Every node that leads to an output is in the FFR of one root, and in the MFFC of its last dominator, the only
one without an `imm_dom()` (`LastDominator`). A node of a cone other than its root leads to a node of
the cone (`ConeStep`), and a node is in a cone exactly if the root of its FFR is, so that
a cone consists of whole FFRs (`RegionInCone`).

`SizesSuffice` needs an invariant that counts (`Counted`, inductive together with `IInv`). It has two parts:

* `NodesCounted`: the number of nodes is that of the source nodes done so far, the places that
  `LogicNodes` counts for their gates, and one for each terminal.
* `RoomKept`: the node of a source node has the room that `FanoutNum` counts, and feeds as many pins as
  the gates and terminals made so far take from it (`Taken`); every other node is full.

At the end `Taken` is `FanoutNum` (`TakenAll`), and the fanouts of a node are the pins it feeds,
because each pin has one connection (`FanoutCount`). What remains is that making one gate keeps the invariant (`Filled`). For
a simple gate it is a matter of its pins; for a chain of XORs of the number of links (`ChainShape`). For an
expression, buffers, inverters and operators get keys (`Keys`): `ExprShape` says that after each turn of the recursion
the nodes made are numbered by the keys so far, one to one (`Numbers`), and that a pin leads where its
literal or operand says. The pins that a node feeds are thus counted by the keys that use it, which `RoomOf` gives it as room:
the number of positive or negative literals of the input, or 1.

`RepresentativesEquivalent` is proved for sources without an XNOR of three inputs or more (`NarrowXnor`). The
hypothesis is needed: the positions that the chain of such a gate records for its third and later inputs do not
exist (the finding of the run `MCTpgNetworkXnor`; `SitesExist` is proved from the same hypothesis), so that
`set_rep_faults()` never comes across their faults and no list gets them. The argument has three parts:

* What a fault is made with (`Original`, kept by every step that makes nodes): a fault with a representative is at
  an input that forces the output of its source gate (`Covers`). The nodes made for the gate are a `Region`:
  nodes from lo to q of which others see only q. `Forces` says that with the pin stuck no values of the
  region's nodes agree with each other unless q has the forced value. For an expression this is an induction over its
  operators: `cval()` evaluates it with all other inputs X, and an operator's node computes what the
  subexpression has, unless that is X (`OperatorsBelow`). That the pin of an input is its only way into
  the gate is `SiteOn`: the buffer, the inverter, or the operator that has the bare literal.
* Structural equivalence in a finished network: such a fault has the tests of the stuck output q
  (`RegionEquivalent`), and the output of a node with one fanout those of the branch (`BranchEquivalent`).
* `Represented`, by descending node number: above the node that comes next every fault that leads to an output has a
  representative with its tests on a list; below it the faults are as they were made. A fault is linked to one
  further up or to the output of its own node, which is done first (`RepsGiven`), and the root of a region leads
  to an output if a node of the region does (`RootIsData`).

`ConditionIsExact` follows from `RegionExact` below: the faults of a region have its
root, and the network at the end is one about which `CircuitProofs` speaks. `TypeOK` says
the latter (`ProperNetwork`), which is what `Dtpg` assumes.

### Test generation engines (`CircuitProofs`, `DtpgProofs`)

The theorems hold for every network that `ProperEngine` describes: fanins before their
gates, fanouts that mirror them, and for `imm_dom()` a node on all ways to an output. This is what
`TpgNetwork` hands on, which `TpgNetworkProofs` proves of it. They do not depend on the order in which the solver
finds models, and it may give up at any time.

* `RegionExact` (a lemma): beyond a fanout-free region, a fault whose condition holds is the complement of the
  region's root, and one whose condition does not hold is nothing. So `Detects`
  is the condition of the region and a difference of the flipped root at an output.
* `PropagatesIs`: the chain of `make_dchain_cnf()` can be satisfied exactly if an output differs. The largest
  assignment to the variables d is the set of *carriers*, the nodes from which a way of
  differing nodes leads to an output. A node with a difference that reaches
  an output passes it through its immediate dominator, for both classes of engine;
  hence `UnsatisfiableIsProof` and `DetectedIsSolution`, where the control variables (`CallsInv`) keep the
  clauses of earlier calls away.
* `ExtractSuffices` (`Extractor`) and `ExpressionSuffices` (`MultiExtractor`): let another model agree with the values recorded.
  Then for every node that was visited, either both its values are those of the first model or they
  are those two swapped (`Swapped`). This passes through every gate: a side input has been recorded, a fanin
  in the cone was visited, and a masking gate has a controlling value that the fault leaves
  alone. At the output the two values differ, swapped or not. That a node's two values may
  be swapped is what a weaker induction (they stay as they were) misses: it fails at the first node of the cone.
* `VectorSuffices` (`Justifier`): the marked nodes form a set in which each gate has either all fanins or one with the
  controlling value (`MarkedDecide`), and a valuation that agrees on the inputs of such a set agrees on
  the set. For transition faults this is done for the second cycle, then through the flip-flops for the first.
* `DtpgInv` is the inductive invariant. Beside the properties it says that
  every clause needs a control variable of a call already made, and that `gen_k_patterns()` has added the
  negation of every vector but the last (`Negated`), from which `VectorsDiffer` follows.

### Fault reduction (`CompactionProofs`)

`Counting` says which faults the simulations have seen, and `CandidatesExact` that
the candidates of a fault are the faults that all its patterns so far detect with
it. `DeletedIsImplied` is inductive because a fault is only deleted on account of
one that is alive, and no representative is deleted without another that
stands for it and for all it stood for. It rests on two premises, named `ProperInput`
(the faults on the list have tests) and `StuckAt` (there is no condition on the cycle before); the run
`MCFaultReducerTD` shows that the second cannot be dropped.

### Colouring (`CompactionProofs`)

Matrix and graph are kept apart in the code and agree only because of what each loop
leaves behind. `IInv` has the parts

* `Stages`: which nodes are active, selected or pending in each loop;
* `Colours`, `ColoursUsed`, `ColoursCompatible`, `GroupCompatible`: the last colour belongs
  to the group being coloured, every colour is used, the vectors of a colour are
  pairwise compatible, and a candidate is compatible with all of the group;
* `GraphFollowsMatrix`: the lists of the graph hold exactly the vectors still in use;
* `MatrixIsRight`, `RowsHaveColumns`, `RowsStayCovered`: an element is a
  detection, and a row that is dropped is covered by a selected or coloured vector or by a row that asks no more;
* `Merging`: the vector under construction has what has been merged into it and nothing else.

`CoverageIsKept` concludes that the merged vectors detect every fault of the matrix.
The pairwise compatibility of a colour is what makes `merge()` succeed each time:
every specified bit of the vector under construction comes from a member.

`NoOptimumIsLost` is about `reduce()`: taking essential columns and deleting dominated rows and columns
never makes the best cover cost more colours. `OptimumStays` says that for every k, the
columns selected and some of those left cover the rows left with k colours exactly if
some columns cover all rows with k colours. A deleted column is replaced by the one that
dominates it, whose conflicts are among its own; a deleted row is covered with the one that dominates it.

### Composition (`CompactionProofs`)

`NoFaultIsLost` combines the last two: when no fault is marked any more, that is, unless the engine gave one
up, every fault of the list handed to the
reducer is detected by a merged vector, however its X are filled. `CInv` carries the
invariants of both programs and what joins them: the reducer's tests are the matrix's detections
(`SharedCircuit`), a fault that is left has a test on the generator's list or keeps its mark
(`Generator`), and the rows of the matrix are the faults of that list (`Coverable`). It
assumes neither finiteness of the fault list nor a bound on vectors or blocks. What the engine
returns is an assumption here (`TestLists`), which `VectorsAreTests` and `VectorsDiffer` prove of `Dtpg`.

### Only model-checked

* Liveness: `Returns`, `Compacted`. Fairness and ENABLED are beyond the prover; `EventsRise` is the argument for the first.
* `TpgNetwork`, if a source gate is an XNOR of three inputs or more: no theorem speaks of `SitesExist` and
  `RepresentativesEquivalent` there, as both are violated.

## 5. Not modelled, and the plan

Left out within the modelled parts:

* Simulator: the `target` argument of `simulate()`
  (nullptr in every call), the variants of `spsfp`/`sppfp` that take a
  `NodeValList` (no program that is built calls them), `calc_wsa(TestVector)` (an unfinished stub), the
  widths of the fields packed into a `SimNode` (`SimNode.cc:154`). `calc_wsa()` reads previous values that
  `sppfp` and `ppsfp` overwrite for transition faults (`FsimX.cc:677`); no program mixes the two calls.
* Network: reading files and the Boolean network are external. A wide XOR inside an
  expression runs into an assertion of `TpgNodeFactory` and is not an input of the model.
  Representatives are computed for the cones of data outputs only, and the model follows that: faults that reach nothing but clear and preset terminals get none.
* Engines: the SAT solver is external; an answer is any model of the clauses, unsatisfiable, or giving up.
  The control variables of a cone's engine are modelled by what they do, the complement of one region's root.
  `gen_k_patterns()` is modelled for stuck-at faults: for transition faults its blocking clause
  takes values of one frame for variables of the other. The mandatory
  conditions that `gen_core_expr()` computes are discarded by the code. `add_negation()` reaches an assertion for the
  constant 1; the model adds no clause then. The engines built on `StructEnc` (`Dtpg_se`) and `Dtpg2` are left out.
* Justification: `Just2` picks a controlling fanin by weights; the model lets it pick any, which
  includes what it does.
* Assignments: `NodeValList` as sets. That `merge()` and `diff()` keep the lists sorted is not shown.
* Pattern minimisation: the matrix `McMatrix` is external. `containment_check()` answers less often yes
  than the comment at `MpColGraph.cc:133` suggests; the model has its answers. Random patterns are any blocks. The checks of the
  reducer are modelled as decided, as no limit is set there. `TvMerger` and
  `gen_mcsets()` are bound in `cython-src/` but no program calls them; `Analyzer` only prints.
* Python programs: `dtpg_test2.py:183` and `dtpg_test3.py:54` drop the list that `fault_reduction()` returns (the binding makes
  a new one), so that their colouring starts from the full list and nothing is lost but the reduction. `mffc_mode()`
  of `py-src/dtpg.py` refers to a name that does not exist (`faul.id`, line 84); the programs modelled use the other modes.
  The other algorithms of `minpat.py` and `compaction.py` hand the list to an external covering or graph colouring package.
* Everywhere: memory management, statistics, timers, printing.

Not modelled at all: colour covering (`colcov/`, which only an uncalled function of `python/dtpg_test2.py` uses), `UopSkip` (its effect
is commented out), the Tcl shell around the commands, and `sa/`, `td/`, `minpat.old/` and `rtpg/`, which nothing builds.
Unit tests and test programs are read as documentation of the code and
not modelled. Between them these are most of the lines of the repository.

What could follow, in this order:

1. `NodeValList` as sorted sequences with its `merge()`, `diff()` and `compare()`, shown to be sets.
2. `StructEnc` and its cones, shown to have the same models as `DtpgEngine`.
3. `TvMerger`, `ColCov`, against the matrix of `MinPat`.
