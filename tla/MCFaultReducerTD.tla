--------------------------- MODULE MCFaultReducerTD -------------------------
(***************************************************************************)
(* The fault reducer on transition faults of one small circuit: an input   *)
(* that is an output as well, and an AND of it with another input.  A      *)
(* vector is a pair of inputs, of the cycle before (time 0) and the cycle  *)
(* of the capture (time 1).                                                *)
(***************************************************************************)
EXTENDS FaultReducer

Node(type, fanin) == [type |-> type, fanin |-> fanin]
Nodes ==
  <<Node("Input", << >>), Node("Input", << >>), Node("And", <<1, 2>>),
    Node("Output", <<3>>), Node("Output", <<1>>)>>
FanoutsOfNodes == <<<<3, 5>>, <<3>>, <<4>>, << >>, << >>>>
C == INSTANCE Circuit WITH Gate <- Nodes, Fanout <- FanoutsOfNodes

\* Slow to rise: the line of the input, and the output of the AND.
SlowRise(n) == [node |-> n, pos |-> 0, val |-> "0"]
TwoFaults == {SlowRise(1), SlowRise(3)}
TwoCycles == [0 .. 1 -> C!Inputs]

\* Each block of patterns keeps the inputs of the cycle before.
SmallBatches == {{v \in TwoCycles : v[0] = in} : in \in C!Inputs}
OneStep == <<"red2">>

Init ==
  /\ launch = [f \in Fault |-> {v \in Vector : C!Values(v[0])[C!FaultyLine(f)] = f.val}]
  /\ show = [f \in Fault |-> {v \in Vector : C!Shows(v[1], f)}]
  /\ region = [f \in Fault |-> C!FfrRoot(f.node)]
  /\ ReducerInit

Spec == Init /\ [][ReducerNext]_reducerVars
=============================================================================
