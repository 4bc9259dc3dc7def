------------------------------- MODULE MCFsim -------------------------------
(***************************************************************************)
(* Instances of Fsim for TLC: a sequential circuit with one flip-flop, two *)
(* stems that reconverge (4 and 5), three FFRs that need a simulation      *)
(* (roots 5, 4 and 2, more than the two lanes of a word), two whose root   *)
(* is an output (8 and 9), and faults on stems and on branches.            *)
(*                                                                         *)
(*   1, 2   inputs            3   the flip-flop's output                   *)
(*   4 = NAND(1, 2)           5 = XOR(4, 3)           6 = OR(4, 5)         *)
(*   7 = AND(6, 2)            8   output of 7         9   flip-flop input, *)
(*                                                        of 5             *)
(***************************************************************************)
EXTENDS Fsim, Netlist

MCType ==
  <<"Input", "Input", "Input", "Nand", "Xor", "Or", "And", "Buff", "Buff">>
MCFanin ==
  << << >>, << >>, << >>, <<1, 2>>, <<4, 3>>, <<4, 5>>, <<6, 2>>, <<7>>, <<5>> >>
MCNode == 1 .. 9
MCOutput == {8, 9}
MCLevel == LevelOf(MCFanin)
MCFanout == FanoutOf(MCFanin)
MCFanoutIpos == FanoutIposOf(MCFanin)
MCFfrRoot == FfrRootOf(MCFanin, MCOutput)
MCFfrList == <<9, 8, 5, 4, 2>>
MCInput == <<1, 2>>
MCDff == << <<3, 9>> >>

Stem(n, x) == [node |-> n, pos |-> 0, val |-> x]
Branch(n, i, x) == [node |-> n, pos |-> i, val |-> x]
MCFaults ==
  << Stem(1, "1"), Stem(2, "0"), Stem(3, "1"), Stem(4, "0"), Branch(5, 1, "1"),
     Branch(6, 1, "0"), Branch(6, 2, "1"), Branch(7, 2, "1"), Stem(9, "0") >>

\* A few vectors that tell the lanes apart, one of them with an X, which a
\* simulator of two values takes for 0.
Vector(x1, x2, x3) == [ppi |-> <<x1, x2, x3>>, aux |-> <<x2, x1>>]
FewVectors ==
  {Vector("0", "1", "0"), Vector("1", "1", "1"), Vector("X", "0", "1")}
XVectors == {Vector("1", "1", "X"), Vector("X", "0", "1"), Vector("0", "1", "1")}

\* The bounds of the model: the simulator, its test vectors, and the calls
\* allowed as the first, the second ...
Single ==
  [kind |-> [faults |-> "SA", vals |-> {"0", "1"}], vectors |-> FewVectors,
   calls |-> << {"skip", "sppfp"}, {"skip", "spsfp"}, {"sppfp", "spsfp"} >>]
PatternsTwice ==
  [kind |-> [faults |-> "SA", vals |-> {"0", "1", "X"}], vectors |-> XVectors,
   calls |-> << {"patterns"}, {"patterns", "sppfp"}, {"patterns", "ppsfp"}, {"ppsfp", "sppfp"} >>]
Transition ==
  [kind |-> [faults |-> "TD", vals |-> {"0", "1"}], vectors |-> FewVectors,
   calls |-> << {"patterns", "sppfp"}, {"patterns", "ppsfp"},
                {"ppsfp", "sppfp", "spsfp"} >>]
AllVectors == FewVectors \cup XVectors

VARIABLES plan, calls

Allowed(kinds) ==
  \/ "skip" \in kinds /\ Skipping
  \/ "patterns" \in kinds /\ ClearPatterns
  \/ "patterns" \in kinds /\ \E b \in Lane, tv \in plan.vectors : SetPattern(b, tv)
  \/ "spsfp" \in kinds /\ \E tv \in plan.vectors, f \in Faults : Spsfp(tv, f)
  \/ "sppfp" \in kinds /\ \E tv \in plan.vectors : Sppfp(tv)
  \/ "ppsfp" \in kinds /\ Ppsfp

MCInit ==
  /\ plan \in {Single, PatternsTwice, Transition}
  /\ Init
  /\ kind = plan.kind /\ patBuff[1] \in plan.vectors
  /\ calls = 0
MCCalls == calls < Len(plan.calls) /\ Allowed(plan.calls[calls + 1]) /\ calls' = calls + 1
MCLoops == Loops /\ UNCHANGED calls
MCNext == (MCCalls \/ MCLoops) /\ UNCHANGED <<kind, plan>>
MCSpec == MCInit /\ [][MCNext]_<<fsimVars, plan, calls>>
=============================================================================
