-------------------------------- MODULE MCWsa -------------------------------
(***************************************************************************)
(* Instances of Wsa for TLC: a two-stage shift register behind an XOR, in  *)
(* a circuit with one primary input and in one with two.                   *)
(*                                                                         *)
(*   1  input             2, 3  flip-flop outputs                          *)
(*   4 = XOR(1, 3) or, with the second input 7, XOR(1, 7)                  *)
(*   5  input of flip-flop 2, of 4    6  input of flip-flop 3, of 2        *)
(***************************************************************************)
EXTENDS Wsa, Netlist

OneType == <<"Input", "Input", "Input", "Xor", "Buff", "Buff">>
OneFanin == << << >>, << >>, << >>, <<1, 3>>, <<4>>, <<2>> >>
OneNode == 1 .. 6
OneLevel == LevelOf(OneFanin)
OneFanout == FanoutOf(OneFanin)
OneInput == <<1>>

TwoType == OneType \o <<"Input">>
TwoFanin == << << >>, << >>, << >>, <<1, 7>>, <<4>>, <<2>>, << >> >>
TwoNode == 1 .. 7
TwoLevel == LevelOf(TwoFanin)
TwoFanout == FanoutOf(TwoFanin)
TwoInput == <<1, 7>>

MCOutput == {5, 6}
MCDff == << <<2, 5>>, <<3, 6>> >>

\* The bound of the model: the cycles after set_state().
CONSTANT MaxCycles
MCNext == Len(cycles.inputs) < MaxCycles /\ WsaNext
MCSpec == WsaInit /\ [][MCNext]_wsaVars
=============================================================================
