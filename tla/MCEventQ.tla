------------------------------ MODULE MCEventQ ------------------------------
(***************************************************************************)
(* Instances of EventQ for TLC.  The circuit has a stem (4) that reaches   *)
(* an output along two paths of different length and meets itself again    *)
(* in an XOR, a second output below the highest level, and a gate two of   *)
(* whose inputs are the same node.  The nodes that FsimX may trigger are   *)
(* the inputs 2 and 3 and the gates 4 and 6, which have several fanouts.   *)
(*                                                                         *)
(*   1, 2, 3  inputs        4 = NAND(1, 2)      5 = NOT(4)                 *)
(*   6 = OR(5, 3)           7 = XOR(4, 6)       8 = AND(3, 3, 2)           *)
(*   9 = output of 7        10 = output of 6    11 = output of 8           *)
(***************************************************************************)
EXTENDS EventQ, Netlist, FaultReference

MCType ==
  <<"Input", "Input", "Input", "Nand", "Not", "Or", "Xor", "And", "Buff", "Buff", "Buff">>
MCFanin ==
  << << >>, << >>, << >>, <<1, 2>>, <<4>>, <<5, 3>>, <<4, 6>>, <<3, 3, 2>>, <<7>>, <<6>>, <<8>> >>
MCNode == 1 .. 11
MCOutput == {9, 10, 11}
MCLevel == LevelOf(MCFanin)
MCFanout == FanoutOf(MCFanin)
MCArraySize == MaxLevelOf(MCFanin, MCOutput) + 1
MCMaskLimit == Cardinality(Lane)


MCInput == {n \in MCNode : MCType[n] = "Input"}
ValuesFor(patterns) == {GoodValue(a) : a \in patterns}

\* _calc_gval() before sppfp and spsfp: all lanes carry the same pattern.
SamePattern == ValuesFor([MCInput -> {[b \in Lane |-> x] : x \in {"0", "1"}}])
\* _calc_gval() before ppsfp: every lane carries a pattern of its own, lane 1
\* any pattern without X, the other lanes one without and one with an X.
OwnPatterns ==
  ValuesFor({[i \in MCInput |-> [b \in Lane |-> IF b = 1 THEN p[i] ELSE q[i]]] :
               p \in [MCInput -> {"0", "1"}],
               q \in {<<"1", "1", "0">>, <<"X", "0", "1">>}})

MCGoodValues == SamePattern \cup OwnPatterns

\* The bounds of the model: simulate() is called once, with patterns and masks
\* that differ from lane to lane, or twice, with all lanes alike.
VARIABLES lanes, runs

MaxRuns == IF lanes = "own" THEN 1 ELSE 2
LanesAlike == gval \in SamePattern /\ \A n \in Node : trig[n] \in {{}, Lane}

MCInit ==
  /\ Init
  /\ lanes \in {"own", "alike"}
  /\ gval \in IF lanes = "own" THEN OwnPatterns ELSE SamePattern
  /\ runs = 0
MCCaller ==
  /\ CallerStep
  /\ IF lanes = "own" THEN gval' \in OwnPatterns ELSE LanesAlike'
  /\ runs < MaxRuns
  /\ runs' = IF running' THEN runs + 1 ELSE runs
  /\ UNCHANGED lanes
MCQueue == QueueStep /\ UNCHANGED <<lanes, runs>>
MCSpec ==
  /\ MCInit
  /\ [][MCCaller \/ MCQueue]_<<eventQVars, lanes, runs>>
  /\ WF_<<eventQVars, lanes, runs>>(MCQueue)

=============================================================================
