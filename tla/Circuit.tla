------------------------------- MODULE Circuit ------------------------------
(***************************************************************************)
(* The network of the test generator as data (TpgNode), what its gates     *)
(* compute with and without a stuck line, and the condition under which a  *)
(* fault shows at the root of its fanout-free region.                      *)
(*                                                                         *)
(* A fault is a record with the fields node, pos (0 at the output of the   *)
(* node, else the number of the fanin) and val, the faulty value.          *)
(***************************************************************************)
EXTENDS Gates

CONSTANTS
  Gate,     \* the nodes in topological order, as records with type and fanin
  Fanout    \* node -> the sequence of its fanouts

PpoTypes == {"Output", "DffInput"}
PpiTypes == {"Input", "DffOutput"}
ControlTypes == {"DffClock", "DffClear", "DffPreset"}
PPOs == {n \in DOMAIN Gate : Gate[n].type \in PpoTypes}
PPIs == {n \in DOMAIN Gate : Gate[n].type \in PpiTypes}
FaninSet(n) == {Gate[n].fanin[k] : k \in DOMAIN Gate[n].fanin}
FanoutSet(n) == {Fanout[n][k] : k \in DOMAIN Fanout[n]}

\* What TpgNetwork hands on: fanins have smaller numbers, a node has a fanout for
\* each of its connections (twice the same if it is connected twice), terminals
\* are connected once and nothing is connected to an output.
NodeTypes == GateTypes \cup PpoTypes \cup ControlTypes \cup {"DffOutput", "Const0", "Const1"}
NoFanin == PpiTypes \cup {"Const0", "Const1"}
OneFanin == {"Buff", "Not"} \cup PpoTypes \cup ControlTypes
ProperNetwork(gate, fanout) ==
  /\ Len(gate) \in Nat /\ DOMAIN gate = 1 .. Len(gate) /\ DOMAIN fanout = DOMAIN gate
  /\ \A n \in DOMAIN gate :
       /\ gate[n].type \in NodeTypes
       /\ gate[n].fanin \in Seq(1 .. n - 1)
       /\ gate[n].type \in NoFanin => gate[n].fanin = << >>
       /\ gate[n].type \in OneFanin => Len(gate[n].fanin) = 1
       /\ gate[n].type \notin NoFanin => gate[n].fanin # << >>
       /\ fanout[n] \in Seq(DOMAIN gate)
       /\ gate[n].type \in PpoTypes => fanout[n] = << >>
  /\ \A m, n \in DOMAIN gate :
       /\ (\E k \in DOMAIN fanout[m] : fanout[m][k] = n)
            <=> (\E k \in DOMAIN gate[n].fanin : gate[n].fanin[k] = m)
       /\ \A j, k \in DOMAIN gate[n].fanin :
            j # k /\ gate[n].fanin[j] = m /\ gate[n].fanin[k] = m => Len(fanout[m]) # 1

\* nval(): of terminals it is X, as of buffers.
Nval(n) == SideValue(Gate[n].type)

\* The nodes of S and those reached from it through fanins, or fanouts.
\* Numbers increase along the edges: one pass from the last node, or the first.
Tfi(S) ==
  LET last == Len(Gate)
      inTfi[k \in 0 .. last] ==
        IF k = 0 THEN S
        ELSE LET rest == inTfi[k - 1]
             IN  rest \cup IF last + 1 - k \in rest THEN FaninSet(last + 1 - k) ELSE {}
  IN  inTfi[last]
Tfo(S) ==
  LET inTfo[k \in 0 .. Len(Gate)] ==
        IF k = 0 THEN S
        ELSE LET rest == inTfo[k - 1] IN rest \cup IF k \in rest THEN FanoutSet(k) ELSE {}
  IN  inTfo[Len(Gate)]

\* dmarks of set(): the data part, which leads to an output or a flip-flop.
DataNodes == Tfi(PPOs)

\* ffr_root(): follow the single fanouts.
FfrRoot(n) ==
  LET root[k \in DOMAIN Gate] == IF Len(Fanout[k]) # 1 THEN k ELSE root[Fanout[k][1]]
  IN  root[n]

-----------------------------------------------------------------------------
(* The values of the nodes, in is the value of each input and flip-flop.   *)

\* The output of a node: terminals are buffers.
Output(type, ins) ==
  CASE type = "Const0" -> "0"
    [] type = "Const1" -> "1"
    [] type \in GateTypes -> GateFunction(type, ins)
    [] OTHER -> ins[1]

NoFault == [node |-> 0, pos |-> 0, val |-> "0"]
ValuesUnder(in, f) ==
  LET ValueOf(n, before) ==
        IF f.node = n /\ f.pos = 0 THEN f.val
        ELSE IF Gate[n].type \in PpiTypes THEN in[n]
        ELSE Output(Gate[n].type,
               [k \in DOMAIN Gate[n].fanin |->
                  IF f.node = n /\ f.pos = k THEN f.val ELSE before[Gate[n].fanin[k]]])
      values[n \in 0 .. Len(Gate)] ==
        IF n = 0 THEN << >>
        ELSE LET before == values[n - 1] IN Append(before, ValueOf(n, before))
  IN  values[Len(Gate)]
Values(in) == ValuesUnder(in, NoFault)

\* The inputs with which some output shows the stuck-at fault.
Inputs == [PPIs -> {"0", "1"}]
Shows(in, f) == LET good == Values(in)
                    bad == ValuesUnder(in, f)
                IN  \E n \in PPOs : good[n] # bad[n]
TestsOf(f) == {in \in Inputs : Shows(in, f)}

-----------------------------------------------------------------------------
(* ffr_propagate_condition(): assignments [node, time, val]; time 1 is the *)
(* clock cycle in which the fault shows, time 0 the one before.            *)

Assign(n, t, v) == [node |-> n, time |-> t, val |-> v]

\* TpgFault::tpg_inode().
FaultyLine(f) == IF f.pos = 0 THEN f.node ELSE Gate[f.node].fanin[f.pos]

Activation(f, type) ==
  {Assign(FaultyLine(f), 1, Complement(f.val))}
  \cup (IF type = "TD" THEN {Assign(FaultyLine(f), 0, f.val)} ELSE {})

\* The other fanins of a gate hold the value that lets a difference pass.
SideAt(n, positions) ==
  IF Nval(n) = "X" THEN {} ELSE {Assign(Gate[n].fanin[k], 1, Nval(n)) : k \in positions}
BranchCondition(f) ==
  IF f.pos = 0 THEN {} ELSE SideAt(f.node, (DOMAIN Gate[f.node].fanin) \ {f.pos})
PathCondition(n) ==
  LET along[m \in DOMAIN Gate] ==
        IF Len(Fanout[m]) # 1 THEN {}
        ELSE LET o == Fanout[m][1]
             IN  SideAt(o, {k \in DOMAIN Gate[o].fanin : Gate[o].fanin[k] # m}) \cup along[o]
  IN  along[n]

FfrCondition_NoBranch(f, type) == Activation(f, type) \cup PathCondition(f.node)
FfrCondition(f, type) == Activation(f, type) \cup BranchCondition(f) \cup PathCondition(f.node)
=============================================================================
