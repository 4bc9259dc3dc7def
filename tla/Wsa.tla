--------------------------------- MODULE Wsa --------------------------------
(***************************************************************************)
(* The sequential use of the fault simulator (FsimX::set_state, get_state, *)
(* calc_wsa): the circuit is clocked, and the transitions of its nodes     *)
(* from one clock cycle to the next are counted, plain or weighted with    *)
(* the number of fanouts (RandWsaCmd).                                     *)
(*                                                                         *)
(* All lanes of a word carry the same value here, so a node has one value. *)
(* After a call the flip-flop outputs already hold the values of the next  *)
(* cycle, and mPrevValArray holds the whole cycle that was simulated.      *)
(***************************************************************************)
EXTENDS SeqNet, FsimState, FiniteSetsExt

ASSUME WsaAssumption ==
  /\ Input \in Seq(Node)
  /\ \A i \in DOMAIN Input : GateType[Input[i]] = "Input"
  /\ Dff \in Seq(Node \X Node)
  /\ \A i \in DOMAIN Dff : GateType[Dff[i][1]] = "Input" /\ Dff[i][2] \in Output

\* set_network() makes one input node for each primary input and each flip-flop
\* output, and no other.
ASSUME TerminalAssumption ==
  /\ \A i, j \in DOMAIN Dff : Dff[i][1] = Dff[j][1] => i = j
  /\ \A i \in DOMAIN Input, j \in DOMAIN Dff : Input[i] # Dff[j][1]
  /\ \A n \in Node : GateType[n] = "Input" =>
       (\E i \in DOMAIN Input : Input[i] = n) \/ (\E i \in DOMAIN Dff : Dff[i][1] = n)

VARIABLES
  wsa,      \* what the last calc_wsa() returned
  cycles,   \* history: the inputs of the cycles since set_state(), and its state
  weighted  \* history: the argument of the last calc_wsa()

wsaVars == <<val, prevVal, wsa, cycles, weighted>>

InputVectors == [DOMAIN Input -> Vals]
DffVectors == [DOMAIN Dff -> Vals]

\* _calc_val(): the gates in the order of their creation, from the values v
\* of the inputs and flip-flops.
CalcAll(v) ==
  LET value[n \in Node] ==
        IF GateType[n] = "Input" THEN v[n]
        ELSE GateFunction(GateType[n], [i \in DOMAIN Fanin[n] |-> value[Fanin[n][i]]])
  IN  [n \in Node |-> value[n]]

SetInputs(v, iv) ==
  [n \in Node |-> IF \E i \in DOMAIN Input : Input[i] = n
                  THEN iv[CHOOSE i \in DOMAIN Input : Input[i] = n] ELSE v[n]]

\* calc_wsa() never advances the index into its argument (FsimX.cc:618-622).
SetInputsFrozen(v, iv) ==
  [n \in Node |-> IF \E i \in DOMAIN Input : Input[i] = n THEN iv[1] ELSE v[n]]

SetFlipFlops(v, fv) ==
  [n \in Node |-> IF \E i \in DOMAIN Dff : Dff[i][1] = n
                  THEN fv[CHOOSE i \in DOMAIN Dff : Dff[i][1] = n] ELSE v[n]]

\* Copy what the flip-flop inputs have computed to the flip-flop outputs.
Shift_InPlace(v) ==
  LET after[k \in 0 .. Len(Dff)] ==
        IF k = 0 THEN v
        ELSE [after[k - 1] EXCEPT ![Dff[k][1]] = after[k - 1][Fanin[Dff[k][2]][1]]]
  IN  after[Len(Dff)]
Shift(v) == SetFlipFlops(v, [i \in DOMAIN Dff |-> v[Dff[i][2]]])

\* _calc_wsa() of one node.
NodeWsa(n, before, after, w) ==
  IF before[n] = after[n] THEN 0 ELSE IF w THEN 1 + Len(Fanout[n]) ELSE 1

Count(before, after, w) ==
  MapThenSumSet(LAMBDA n : NodeWsa(n, before, after, w), Node)

SetState(iv, fv) ==
  LET v == CalcAll(SetFlipFlops(SetInputs(val, iv), fv))
  IN  /\ prevVal' = v
      /\ val' = Shift(v)
      /\ cycles' = [state |-> fv, inputs |-> <<iv>>]
      /\ UNCHANGED <<wsa, weighted>>

\* The callers set a state first.
CalcWsa(iv, w) ==
  LET v == CalcAll(SetInputsFrozen(val, iv))
  IN  /\ cycles.inputs # << >>
      /\ wsa' = Count(prevVal, v, w)
      /\ prevVal' = v
      /\ val' = Shift(v)
      /\ cycles' = [cycles EXCEPT !.inputs = Append(@, iv)]
      /\ weighted' = w

WsaInit ==
  /\ val = [n \in Node |-> "0"]
  /\ prevVal = [n \in Node |-> "0"]
  /\ wsa = 0
  /\ cycles = [state |-> [i \in DOMAIN Dff |-> "0"], inputs |-> << >>]
  /\ weighted = FALSE

WsaNext ==
  \/ \E iv \in InputVectors, fv \in DffVectors : SetState(iv, fv)
  \/ \E iv \in InputVectors, w \in BOOLEAN : CalcWsa(iv, w)

WsaSpec == WsaInit /\ [][WsaNext]_wsaVars

-----------------------------------------------------------------------------
(* The synchronous machine that is meant.                                  *)

\* The values of the circuit in each cycle, and the state each starts from.
Cycle ==
  LET run[k \in 1 .. Len(cycles.inputs)] ==
        LET state == IF k = 1 THEN cycles.state
                     ELSE [i \in DOMAIN Dff |-> run[k - 1][Dff[i][2]]]
            Start(n) == IF \E i \in DOMAIN Input : Input[i] = n
                        THEN cycles.inputs[k][CHOOSE i \in DOMAIN Input : Input[i] = n]
                        ELSE state[CHOOSE i \in DOMAIN Dff : Dff[i][1] = n]
        IN  CalcAll([n \in {m \in Node : GateType[m] = "Input"} |-> Start(n)])
  IN  run

\* After any sequence of cycles calc_wsa() has returned the transitions of the
\* nodes between the last two cycles of the machine that was given its input
\* vectors, and get_state() returns the machine's next state (Fsim.h:180-206).
MatchesMachine ==
  LET k == Len(cycles.inputs)
  IN  k > 0 =>
        /\ prevVal = Cycle[k]
        /\ \A i \in DOMAIN Dff : val[Dff[i][1]] = Cycle[k][Dff[i][2]]
        /\ k > 1 => wsa = Count(Cycle[k - 1], Cycle[k], weighted)
=============================================================================
