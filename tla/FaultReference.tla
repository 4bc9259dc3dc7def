--------------------------- MODULE FaultReference ---------------------------
(***************************************************************************)
(* What fault simulation is meant to compute, by direct evaluation of the  *)
(* whole network from the inputs to the outputs: the reference with which  *)
(* the event-driven code is compared.                                      *)
(***************************************************************************)
EXTENDS SimNet

IsInput(n) == GateType[n] = "Input"

\* The values of the network when its inputs carry the words of in and the
\* outputs of the nodes are complemented in the lanes of their masks t.
ValuesWith(in, t) ==
  LET value[n \in Node] ==
        Flip(IF IsInput(n) THEN in[n] ELSE CalcVal(n, value), t[n])
  IN  [n \in Node |-> value[n]]

GoodValue(in) == ValuesWith(in, [n \in Node |-> {}])

\* The values with the complemented nodes, from the fault-free values g.
FaultyValue(g, t) == ValuesWith(g, t)

\* The lanes in which some output tells the two valuations apart.
Observed(g, v) == UNION {Diff(g[n], v[n]) : n \in Output}
=============================================================================
