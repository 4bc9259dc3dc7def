------------------------------- MODULE SimNet -------------------------------
(***************************************************************************)
(* The gate network of the fault simulator (SimNode and its subclasses in  *)
(* fsim/): its nodes, the gate function of each node, and the packed       *)
(* three-valued words the nodes carry.                                     *)
(*                                                                         *)
(* The code packs kPvBitLen independent simulations into one machine word: *)
(* bit b of every node belongs to simulation b.  A bit position is a Lane  *)
(* here, a PackedVal (bit mask) is a subset of Lane, and a PackedVal3 (the *)
(* pair of words val0, val1) is a function from Lane to "0", "1", "X".     *)
(***************************************************************************)
EXTENDS Gates

CONSTANTS
  Node,      \* the ids of mNodeArray, in the order of creation
  GateType,  \* node -> its gate type
  Fanin,     \* node -> the sequence of its fanins
  Fanout,    \* node -> the sequence of its fanouts
  Level,     \* node -> its logic level
  Output,    \* the nodes marked by set_output()
  Lane,      \* the bit positions 0 .. kPvBitLen - 1 of a packed word
  Vals       \* the values of a lane: with "X" (VAL3) or without (VAL2)

ASSUME NetAssumption ==
  /\ Node \subseteq Nat
  /\ IsFiniteSet(Node)
  /\ GateType \in [Node -> GateTypes]
  /\ Fanin \in [Node -> Seq(Node)]
  /\ Fanout \in [Node -> Seq(Node)]
  /\ Output \subseteq Node
  /\ \A n \in Node : GateType[n] = "Input" <=> Fanin[n] = << >>

\* A gate is created after its fanins, one level above the highest of them;
\* inputs are at level 0.
ASSUME LevelAssumption ==
  /\ Level \in [Node -> Nat]
  /\ \A n \in Node : GateType[n] = "Input" => Level[n] = 0
  /\ \A n \in Node : \A i \in DOMAIN Fanin[n] : Level[Fanin[n][i]] < Level[n]

\* The two adjacency lists describe the same edges; an output drives nothing.
ASSUME FanoutAssumption ==
  /\ \A m, n \in Node :
       (\E i \in DOMAIN Fanout[m] : Fanout[m][i] = n)
         <=> (\E i \in DOMAIN Fanin[n] : Fanin[n][i] = m)
  /\ \A n \in Output : Fanout[n] = << >>

ASSUME LaneAssumption ==
  /\ IsFiniteSet(Lane)
  /\ Lane # {}
  /\ Vals \in {{"0", "1"}, {"0", "1", "X"}}

-----------------------------------------------------------------------------
(* Packed words.                                                           *)

Word == [Lane -> Vals]
Valuation == [Node -> Word]

\* operator^(PackedVal3, PackedVal): complement the lanes of a mask.
Flip_BothWords(w, mask) ==
  [b \in Lane |-> IF b \notin mask THEN w[b]
                  ELSE IF w[b] = "X" THEN "val0 and val1" ELSE Complement(w[b])]
Flip(w, mask) == [b \in Lane |-> IF b \in mask THEN Complement(w[b]) ELSE w[b]]

\* diff(PackedVal3, PackedVal3): the lanes where one word is 0, the other 1.
Diff(u, w) == {b \in Lane : u[b] # w[b] /\ u[b] # "X" /\ w[b] # "X"}

\* set_with_mask(val, mask): only the lanes of the mask take the new value.
SetWithMask(old, new, mask) ==
  [b \in Lane |-> IF b \in mask THEN new[b] ELSE old[b]]

-----------------------------------------------------------------------------
(* The values of the gates (_calc_val() of the gate classes).              *)

FaninVals(n, v, b) == [i \in DOMAIN Fanin[n] |-> v[Fanin[n][i]][b]]

\* SimNode::_calc_val() of node n over the values v of the network.
CalcVal(n, v) == [b \in Lane |-> GateFunction(GateType[n], FaninVals(n, v, b))]

\* v is what _calc_val() leaves behind: every gate agrees with its fanins.
Consistent(v) == \A n \in Node : GateType[n] # "Input" => v[n] = CalcVal(n, v)
=============================================================================
