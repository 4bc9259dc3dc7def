--------------------------- MODULE MCEventQControl --------------------------
(***************************************************************************)
(* A circuit in which the buffer of a flip-flop's clock terminal lies      *)
(* above every (pseudo) primary output.  set_network() marks the buffer as *)
(* an output but gives EventQ::init() the highest level of mPPOArray only. *)
(*                                                                         *)
(*   1, 2  inputs    3 = AND(1, 2)    4  output of 3    5 = NOT(3)        *)
(*   6 = OR(5, 1)    7  clock buffer of 6                                   *)
(***************************************************************************)
EXTENDS EventQ, Netlist, FaultReference

MCType == <<"Input", "Input", "And", "Buff", "Not", "Or", "Buff">>
MCFanin == << << >>, << >>, <<1, 2>>, <<3>>, <<3>>, <<5, 1>>, <<6>> >>
MCNode == 1 .. 7
MCPpo == {4}
MCOutput == {4, 7}
MCLevel == LevelOf(MCFanin)
MCFanout == FanoutOf(MCFanin)
MCArraySize == MaxLevelOf(MCFanin, MCPpo) + 1
MCMaskLimit == Cardinality(Lane)
MCInput == {1, 2}
MCGoodValues == {GoodValue(a) : a \in [MCInput -> [Lane -> Vals]]}
=============================================================================
