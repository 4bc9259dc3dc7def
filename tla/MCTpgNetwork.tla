---------------------------- MODULE MCTpgNetwork ----------------------------
(***************************************************************************)
(* Instances of TpgNetwork for TLC: every circuit of two inputs and three  *)
(* gates of a few types, whose nodes without a fanout are the outputs, and *)
(* some larger ones with complex gates, wide XORs, constants, a flip-flop  *)
(* with its control terminals and a node that drives nothing.              *)
(***************************************************************************)
EXTENDS TpgNetwork

Gt(type, fanin) == [type |-> type, fanin |-> fanin, expr |-> << >>]
Complex(expr, fanin) == [type |-> "Expr", fanin |-> fanin, expr |-> expr]
Source(inputs, dff, logic, output) ==
  [inputs |-> inputs, dff |-> dff, logic |-> logic, output |-> output]

\* The circuits of three gates.
GatesOver(m) ==
  {Gt("Not", <<a>>) : a \in 1 .. m}
  \cup {Gt(type, <<p[1], p[2]>>) : type \in {"Nand", "Xor"},
                                   p \in {q \in (1 .. m) \X (1 .. m) : q[1] <= q[2]}}
Unused(logic) ==
  {n \in 1 .. 2 + Len(logic) : \A k \in DOMAIN logic : n \notin ToSet(logic[k].fanin)}
ThreeGates ==
  {Source(2, << >>, logic, SetToSortSeq(Unused(logic), <)) :
     logic \in {<<g, h, k>> : g \in GatesOver(2), h \in GatesOver(3), k \in GatesOver(4)}}

\* Expressions.
Var(v) == [op |-> "Var", var |-> v, kids |-> << >>]
Neg(v) == [op |-> "Neg", var |-> v, kids |-> << >>]
Op(op, kids) == [op |-> op, var |-> 0, kids |-> kids]
AndOr == <<Var(1), Var(2), Op("And", <<1, 2>>), Var(3), Op("Or", <<3, 4>>)>>
Select ==   \* (1 and 2) or (not 1 and 3)
  <<Var(1), Var(2), Op("And", <<1, 2>>), Neg(1), Var(3), Op("And", <<4, 5>>), Op("Or", <<3, 6>>)>>
Majority ==
  <<Var(1), Var(2), Op("And", <<1, 2>>), Var(2), Var(3), Op("And", <<4, 5>>),
    Var(1), Var(3), Op("And", <<7, 8>>), Op("Or", <<3, 6, 9>>)>>
NegTwice == <<Neg(1), Var(2), Op("Or", <<1, 2>>), Neg(1), Var(3), Op("Xor", <<4, 5>>),
              Op("And", <<3, 6>>)>>

\* A flip-flop: its terminals are source nodes, 0 where there is none.
Dff(input, clock, clear, preset) ==
  [input |-> input, clock |-> clock, clear |-> clear, preset |-> preset]

Larger ==
  {Source(3, << >>, <<Complex(e, <<1, 2, 3>>), Gt(t, <<4, p>>)>>, <<5>>) :
     e \in {AndOr, Select, Majority, NegTwice}, t \in {"And", "Nor"}, p \in {1, 3}}
  \cup {Source(3, << >>, <<Gt("Not", <<1>>), Complex(e, <<4, 2, 4>>), Gt("Buff", <<5>>)>>, <<6, 4>>) :
     e \in {AndOr, Select, Majority}}
  \cup {Source(4, << >>, <<Gt("Xor", <<1, 2, 3, 4>>), Gt(t, <<5, 1>>)>>, <<6>>) :
     t \in {"Or", "Xnor"}}
  \cup {Source(2, << >>, <<Gt("Const1", << >>), Gt("And", <<1, 3>>), Gt("Or", <<4, 2>>)>>, <<5, 4>>)}
  \cup {Source(3, << Dff(6, 2, c, p) >>,
               <<Gt("Nand", <<1, 3>>), Gt("Or", <<5, 4>>), Gt("Not", <<3>>)>>, <<6>>) :
     c \in {0, 3}, p \in {0, 5}}
  \cup {Source(2, << >>, <<Gt("And", <<1, 2>>), Gt("Not", <<3>>), Gt("Or", <<3, 1>>)>>, <<5>>)}

AllSources == ThreeGates \cup Larger

WideXnor == {Source(3, << >>, <<Gt("Xnor", <<1, 2, 3>>)>>, <<4>>)}
=============================================================================
