----------------------------- MODULE FaultModel -----------------------------
(***************************************************************************)
(* The faults of a network and what it means that a test vector detects    *)
(* one: the stuck-at and the transition-delay fault models, stated on one  *)
(* pattern at a time by evaluating the faulty network.                     *)
(*                                                                         *)
(* A fault is a record: the node at which it sits, the input position (0   *)
(* for a stem fault, at the output of the node) and the faulty value.      *)
(* A test vector gives a value to every input and flip-flop (ppi), and for *)
(* transition faults the inputs of the second clock cycle (aux).           *)
(***************************************************************************)
EXTENDS FaultReference, SeqNet

CONSTANT FaultList   \* the representative faults, in the order of set_network()

\* The simulator that init_fsim2() or init_fsim3() has made: it is for stuck-at
\* ("SA", FSIM_SA) or transition faults ("TD", FSIM_TD), and its lanes have two
\* (FSIM_VAL2) or three values (FSIM_VAL3).
VARIABLE kind

Simulators == [faults : {"SA", "TD"}, vals : {{"0", "1"}, {"0", "1", "X"}}]

Faults == {FaultList[i] : i \in DOMAIN FaultList}
DffOutputs == {Dff[i][1] : i \in DOMAIN Dff}
PPI == {Input[i] : i \in DOMAIN Input} \cup DffOutputs

ASSUME FaultAssumption ==
  /\ FaultList \in Seq(Faults)
  /\ \A f \in Faults : /\ f.node \in Node
                       /\ f.pos = 0 \/ f.pos \in DOMAIN Fanin[f.node]
                       /\ f.val \in {"0", "1"}
  /\ \A i, j \in DOMAIN FaultList : FaultList[i] = FaultList[j] => i = j

ASSUME PpiAssumption ==
  /\ PPI = {n \in Node : IsInput(n)}
  /\ \A i \in DOMAIN Dff : Dff[i][2] \in Output

\* SimFault::mInode: the node on whose line the fault sits.
InputNode(f) == IF f.pos = 0 THEN f.node ELSE Fanin[f.node][f.pos]

\* val3_to_packedval(): a simulator of two values takes X for 0.
AsVal_Keep(x) == x
AsVal(x) == IF x \in kind.vals THEN x ELSE "0"

-----------------------------------------------------------------------------
(* One pattern.  in is the value of each input and flip-flop.              *)

NoFault == [node |-> -1, pos |-> 0, val |-> "0"]

\* The value of every node when the line of fault f is stuck.
ValuesUnder(in, f) ==
  LET value[n \in Node] ==
        IF f.node = n /\ f.pos = 0 THEN f.val
        ELSE IF IsInput(n) THEN in[n]
        ELSE GateFunction(GateType[n],
               [i \in DOMAIN Fanin[n] |->
                  IF f.node = n /\ f.pos = i THEN f.val ELSE value[Fanin[n][i]]])
  IN  [n \in Node |-> value[n]]

FirstCycle(tv) ==
  ValuesUnder([n \in PPI |-> AsVal(tv.ppi[n])], NoFault)

\* The flip-flops take over what the first cycle has computed for them.
SecondInputs(tv) ==
  [n \in PPI |->
     IF n \in DffOutputs
     THEN FirstCycle(tv)[(CHOOSE d \in {Dff[i] : i \in DOMAIN Dff} : d[1] = n)[2]]
     ELSE AsVal(tv.aux[n])]

\* Some output has definite and different values with and without the fault.
Distinguished(in, f) ==
  \E n \in Output :
    {ValuesUnder(in, NoFault)[n], ValuesUnder(in, f)[n]} = {"0", "1"}

\* A transition fault is launched by a line that had the faulty value in the
\* first cycle and is then a stuck-at fault in the second.
Detects(tv, f) ==
  IF kind.faults = "SA"
  THEN Distinguished([n \in PPI |-> AsVal(tv.ppi[n])], f)
  ELSE /\ FirstCycle(tv)[InputNode(f)] = f.val
       /\ Distinguished(SecondInputs(tv), f)
=============================================================================
