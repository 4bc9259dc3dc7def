------------------------------- MODULE MCDtpg -------------------------------
(***************************************************************************)
(* Engines of Dtpg for TLC: small circuits with what makes extraction and  *)
(* justification hard, reconvergence that masks and that cancels, gates    *)
(* with several controlling inputs, redundant faults and a flip-flop.      *)
(***************************************************************************)
EXTENDS Dtpg

Node(type, fanin) == [type |-> type, fanin |-> fanin]
In == Node("Input", << >>)

\* The fanouts of a node in the order in which set() finds them.
FanoutsOf(gates) ==
  [n \in DOMAIN gates |->
     FoldSeq(LAMBDA k, fo : IF \E p \in DOMAIN gates[k].fanin : gates[k].fanin[p] = n
                            THEN Append(fo, k) ELSE fo,
             << >>, [k \in DOMAIN gates |-> k])]

\* The first node on every path from n to where it ends, 0 if there is none.
ImmDomOf(gates, fo) ==
  LET Avoids(d, n) ==
        LET avoids[m \in DOMAIN gates] ==
              m # d /\ (fo[m] = << >> \/ \E k \in DOMAIN fo[m] : avoids[fo[m][k]])
        IN  avoids[n]
      Doms(n) == {d \in n + 1 .. Len(gates) : ~Avoids(d, n)}
  IN  [n \in DOMAIN gates |-> IF Doms(n) = {} THEN 0 ELSE Min(Doms(n))]

Network(gates, dff) ==
  LET fo == FanoutsOf(gates)
  IN  [gate |-> gates, fanout |-> fo, dff |-> dff, immDom |-> ImmDomOf(gates, fo)]

\* An AND and an OR of one stem: the difference is masked on one path.
Reconverging ==
  Network(<<In, In, In, Node("Nand", <<1, 2>>), Node("And", <<4, 1>>), Node("Or", <<4, 3>>),
            Node("Xor", <<5, 6>>), Node("Output", <<7>>), Node("Output", <<6>>)>>, << >>)
\* Both branches carry the difference and cancel each other at the OR (8).
Cancelling ==
  Network(<<In, In, In, Node("And", <<1, 2>>), Node("Not", <<4>>), Node("And", <<4, 3>>),
            Node("Nor", <<5, 2>>), Node("Or", <<6, 7, 1>>), Node("Output", <<8>>)>>, << >>)
\* A stem that reaches two outputs, and a gate with two flipped fanins.
TwoOutputs ==
  Network(<<In, In, In, Node("Nor", <<1, 2>>), Node("Nand", <<4, 2>>), Node("And", <<4, 3, 5>>),
            Node("Xnor", <<5, 3>>), Node("Output", <<6>>), Node("Output", <<7>>)>>, << >>)
\* A redundant gate: n AND NOT n.
Redundant ==
  Network(<<In, In, Node("Not", <<1>>), Node("And", <<1, 3, 2>>), Node("Nor", <<4, 2>>),
            Node("Output", <<5>>)>>, << >>)
\* A flip-flop, node 2, whose input is node 7.
Sequential ==
  Network(<<In, Node("DffOutput", << >>), In, Node("Nand", <<1, 2>>), Node("Or", <<4, 3>>),
            Node("Output", <<5>>), Node("DffInput", <<4>>)>>, 2 :> 7)

EnginesOf(network, classes, types, maxCalls) ==
  LET Roots(c) == {n \in DOMAIN network.gate :
                     IF c = "DtpgFFR" THEN Len(network.fanout[n]) # 1 ELSE network.immDom[n] = 0}
  IN  UNION {{network @@ [class |-> c, type |-> t, root |-> r, maxCalls |-> maxCalls] :
                t \in types, r \in Roots(c)} : c \in classes}
MCEngines ==
  UNION {EnginesOf(n, {"DtpgFFR", "DtpgMFFC"}, {"SA", "TD"}, 1) :
           n \in {Reconverging, Cancelling, Sequential, TwoOutputs}}
  \cup EnginesOf(Redundant, {"DtpgFFR"}, {"SA"}, 2)
  \cup EnginesOf(Redundant, {"DtpgMFFC"}, {"TD"}, 1)
=============================================================================
