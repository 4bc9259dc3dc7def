------------------------------ MODULE TpgNetwork ----------------------------
(***************************************************************************)
(* TpgNetworkImpl::set(): how the network of the test generator is built   *)
(* from a Boolean network (BnNetwork, of an external library), the faults  *)
(* it gets, their representatives, the immediate dominators, and the       *)
(* fanout-free regions (FFR) and fanout-free cones (MFFC) with their lists *)
(* of representative faults.                                               *)
(*                                                                         *)
(* The nodes of the source are numbered: its inputs, the outputs of its    *)
(* flip-flops, then its logic nodes in topological order.  A complex gate  *)
(* (an Expr of the library) is the sequence of its subexpressions in       *)
(* post-order, the root last: [op, var, kids], where kids are positions of *)
(* the sequence and a literal is a "Var" or a "Neg" of an input position.  *)
(* An optional terminal that is missing is 0, as are the null pointers.    *)
(***************************************************************************)
EXTENDS Gates, SequencesExt

CONSTANT Sources   \* the networks to build from

\* What the library hands over.  Inputs, flip-flop outputs and logic nodes are
\* numbered in topological order; a complex gate is a tree over its inputs, each
\* of which occurs in it (the assertion of TpgGateInfo.cc:48).
ProperExpr(expr, ni) ==
  LET Literal == {k \in DOMAIN expr : expr[k].op \in {"Var", "Neg"}}
      Inner == DOMAIN expr \ Literal
  IN  /\ expr \in Seq([op : {"Var", "Neg", "And", "Or", "Xor"}, var : 0 .. ni, kids : Seq(Nat)])
      /\ \A k \in Literal : expr[k].var # 0
      /\ \A k \in Inner : expr[k].kids \in Seq(1 .. k - 1) /\ Len(expr[k].kids) >= 2
      /\ Len(expr) \in Inner
      /\ \A k \in DOMAIN expr \ {Len(expr)} : \E p \in Inner : k \in ToSet(expr[p].kids)
      /\ \A p, q \in Inner : \A j \in DOMAIN expr[p].kids, m \in DOMAIN expr[q].kids :
           expr[p].kids[j] = expr[q].kids[m] => p = q /\ j = m
      /\ \A v \in 1 .. ni : \E k \in Literal : expr[k].var = v
ProperGate(g, first) ==   \* the fanins have numbers below first
  /\ g.fanin \in Seq(1 .. first - 1)
  /\ g.type \in {"Const0", "Const1"} => g.fanin = << >>
  /\ g.type \in {"Buff", "Not"} => Len(g.fanin) = 1
  /\ g.type \in {"And", "Nand", "Or", "Nor", "Xor", "Xnor"} => Len(g.fanin) >= 2
  /\ g.type = "Expr" => ProperExpr(g.expr, Len(g.fanin))
  /\ g.type \in (GateTypes \ {"Input"}) \cup {"Const0", "Const1", "Expr"}
ProperSource(src) ==
  LET ppis == src.inputs + Len(src.dff)
      all == ppis + Len(src.logic)
  IN  /\ src.inputs \in Nat
      /\ src.dff \in Seq([input : 1 .. all, clock : 1 .. all, clear : 0 .. all, preset : 0 .. all])
      /\ src.logic \in Seq(ToSet(src.logic))
      /\ \A k \in DOMAIN src.logic : ProperGate(src.logic[k], ppis + k)
      /\ src.output \in Seq(1 .. all)
ASSUME SourcesAssumption == \A src \in Sources : ProperSource(src)

VARIABLES
  source,   \* the BnNetwork
  pc,       \* the loop of set() that runs
  i,        \* its next item
  node,     \* mNodeArray: [type, fanin, nfo], nfo being fanout_num()
  nodeMap,  \* NodeMap: the node of each source node so far
  conn,     \* connection_list
  fanout,   \* the fanout list of each node
  fault,    \* the faults by their id: [node, pos, val, rep], pos 0 for a stem
  repList,  \* AuxNodeInfo::mFaultList: the representative faults of a node
  immDom,   \* imm_dom() of each node
  ppo2,     \* mPPOArray2
  ffr,      \* mFfrArray: [root, faults]
  mffc,     \* mMffcArray: [root, ffrs, faults]; ffrs by their roots
  stack,    \* node_list of set_ffr() and set_mffc()
  mark      \* mark of set_mffc()

networkVars == <<source, pc, i, node, nodeMap, conn, fanout, fault, repList, immDom,
                 ppo2, ffr, mffc, stack, mark>>
built == <<node, nodeMap, conn, fault>>
analysed == <<fanout, repList, immDom, ppo2, ffr, mffc, stack, mark>>

\* The network so far, as a circuit.
C == INSTANCE Circuit WITH Gate <- node, Fanout <- fanout

\* The members of S in a sequence.
Within(s, S) ==
  LET kept[k \in 0 .. Len(s)] ==
        IF k = 0 THEN << >>
        ELSE IF s[k] \in S THEN Append(kept[k - 1], s[k]) ELSE kept[k - 1]
  IN  kept[Len(s)]

-----------------------------------------------------------------------------
(* The source: its terminals and the sizes that set() counts beforehand.   *)

\* The terminals that make nodes of their own after the logic, in the order of
\* set(): the outputs, then of each flip-flop input, clock, clear and preset.
Optional(type, s) == IF s = 0 THEN << >> ELSE << <<type, s>> >>
TerminalsOf(dff) ==
  << <<"DffInput", dff.input>>, <<"DffClock", dff.clock>> >>
  \o Optional("DffClear", dff.clear) \o Optional("DffPreset", dff.preset)
Terminals(src) ==
  [k \in DOMAIN src.output |-> <<"Output", src.output[k]>>]
  \o FlattenSeq([k \in DOMAIN src.dff |-> TerminalsOf(src.dff[k])])

\* BnNode::fanout_num().
Pins(src) == UNION {{k} \X DOMAIN src.logic[k].fanin : k \in DOMAIN src.logic}
FanoutNum(src, s) ==
  Cardinality({k \in DOMAIN Terminals(src) : Terminals(src)[k][2] = s})
  + Cardinality({e \in Pins(src) : src.logic[e[1]].fanin[e[2]] = s})

\* Expr::litnum().
LitNum(expr, v, op) == Cardinality({k \in DOMAIN expr : expr[k].op = op /\ expr[k].var = v})
Operators(expr) == {k \in DOMAIN expr : expr[k].op \in {"And", "Or", "Xor"}}

\* extra_node_count(): what a complex gate needs beside its root.
ExtraNodeCount_NoBuffers(expr, ni) ==
  Cardinality({v \in 1 .. ni : LitNum(expr, v, "Neg") > 0}) + Cardinality(Operators(expr)) - 1
ExtraNodeCount(expr, ni) ==
  Cardinality({v \in 1 .. ni : LitNum(expr, v, "Var")
                                 > (IF LitNum(expr, v, "Neg") > 0 THEN 0 ELSE 1)})
  + Cardinality({v \in 1 .. ni : LitNum(expr, v, "Neg") > 0})
  + Cardinality(Operators(expr)) - 1

\* Wide XOR and XNOR gates become chains of gates with two inputs.
ExtraNodes(g) ==
  IF g.type = "Expr" THEN ExtraNodeCount(g.expr, Len(g.fanin))
  ELSE IF g.type \in {"Xor", "Xnor"} THEN Len(g.fanin) - 2 ELSE 0

\* nn of set(): the number of places in mNodeArray, those of the gates added up.
LogicNodes(src) ==
  LET upTo[k \in 0 .. Len(src.logic)] ==
        IF k = 0 THEN 0 ELSE upTo[k - 1] + 1 + ExtraNodes(src.logic[k])
  IN  upTo
NodeNum(src) ==
  src.inputs + Len(src.dff) + Len(Terminals(src)) + LogicNodes(src)[Len(src.logic)]

-----------------------------------------------------------------------------
(* The controlling values of a source gate (TpgGateInfo::cval()).          *)

\* ccv_sub(): the value of an expression over three values.
ExprValue(expr, ins) ==
  LET value[k \in DOMAIN expr] ==
        CASE expr[k].op = "Var" -> ins[expr[k].var]
          [] expr[k].op = "Neg" -> Complement(ins[expr[k].var])
          [] OTHER -> GateFunction(expr[k].op,
                                   [j \in DOMAIN expr[k].kids |-> value[expr[k].kids[j]]])
  IN  value[Len(expr)]

\* The output that input k forces with value v alone: "X" when none.
CVal(g, k, v) ==
  CASE g.type = "Expr" -> ExprValue(g.expr, [j \in DOMAIN g.fanin |-> IF j = k THEN v ELSE "X"])
    [] g.type \in {"Buff", "Not"} -> GateFunction(g.type, <<v>>)
    [] OTHER -> IF v = ControlValue(g.type) THEN ControlledOutput(g.type) ELSE "X"

-----------------------------------------------------------------------------
(* make_logic_node(): the nodes of one source gate.  A build b holds the   *)
(* nodes, the connections and, for each input of the gate, its site: the   *)
(* node and the fanin position at which its branch faults sit (InodeInfo). *)

\* make_prim_node(): append a node.
Prim(b, type, fanin, nfo) ==
  [b EXCEPT !.node = Append(@, [type |-> type, fanin |-> fanin, nfo |-> nfo]),
            !.conn = @ \o [k \in DOMAIN fanin |-> <<fanin[k], Len(b.node) + 1>>]]
Top(b) == Len(b.node)

SimpleGate(b, type, fanin, nfo) ==
  LET done == Prim(b, type, fanin, nfo)
  IN  [done EXCEPT !.site = [k \in DOMAIN fanin |-> <<Top(done), k>>]]

\* The input position that the chain records for the k-th fanin, k > 2: the
\* branch for Xnor passes on the index of the fanin.
ChainPosition(type, k) == IF type = "Xor" THEN 2 ELSE k

\* Two fanins first, then each of the others with the node before.
XorChain(b, type, fanin, nfo) ==
  LET ni == Len(fanin)
      first == Prim(b, "Xor", <<fanin[1], fanin[2]>>, 1)
      Link(c, k) ==
        LET next == IF k < ni THEN Prim(c, "Xor", <<Top(c), fanin[k]>>, 1)
                    ELSE Prim(c, type, <<Top(c), fanin[k]>>, nfo)
        IN  [next EXCEPT !.site = Append(@, <<Top(next), ChainPosition(type, k)>>)]
      chain[j \in 0 .. ni - 2] ==
        IF j = 0 THEN [first EXCEPT !.site = << <<Top(first), 1>>, <<Top(first), 2>> >>]
        ELSE Link(chain[j - 1], j + 2)
  IN  chain[ni - 2]

\* The literals of input v: a buffer where it occurs more than once, so that
\* its branch is a line of its own, and an inverter for the negative ones.
\* leaf[v] holds the nodes of the positive and the negative literal.
Leaves(b, expr, v, inode) ==
  LET p == LitNum(expr, v, "Var")
      n == LitNum(expr, v, "Neg")
      buffered == IF n = 0 THEN p # 1 ELSE p > 0
      buff == IF buffered
              THEN Prim(b, "Buff", <<inode>>, IF n > 0 THEN p + 1 ELSE p) ELSE b
      posi == IF buffered THEN Top(buff) ELSE inode
      neg == IF n > 0 THEN Prim(buff, "Not", <<posi>>, n) ELSE buff
  IN  [neg EXCEPT !.leaf = Append(@, <<posi, Top(neg)>>),
                  !.site = Append(@, IF buffered THEN <<posi, 1>>
                                     ELSE IF n > 0 THEN <<Top(neg), 1>> ELSE <<0, 0>>)]

\* make_cplx_node(): one node for each operator, after its operands; the gate
\* at which a literal without a node of its own ends is its site.
OperatorNode_NoSite(b, expr, k, nfo) ==
  LET next == Prim(b, expr[k].op, [j \in DOMAIN expr[k].kids |-> b.at[expr[k].kids[j]]],
                   IF k = Len(expr) THEN nfo ELSE 1)
  IN  [next EXCEPT !.at = Append(@, Top(next))]
OperatorNode(b, expr, k, nfo) ==
  LET e == expr[k]
      fanin == [j \in DOMAIN e.kids |-> b.at[e.kids[j]]]
      next == Prim(b, e.op, fanin, IF k = Len(expr) THEN nfo ELSE 1)
      SiteOf(v) ==
        LET here == {j \in DOMAIN e.kids : LET kid == expr[e.kids[j]]
                                           IN  kid.op = "Var" /\ kid.var = v}
        IN  IF b.site[v] = <<0, 0>> /\ here # {}
            THEN <<Top(next), CHOOSE j \in here : \A m \in here : j <= m>>
            ELSE b.site[v]
  IN  [next EXCEPT !.at = Append(@, Top(next)),
                   !.site = [v \in DOMAIN b.site |-> SiteOf(v)]]
ExprNode(b, expr, k, nfo) ==
  IF k \in Operators(expr) THEN OperatorNode(b, expr, k, nfo)
  ELSE [b EXCEPT !.at = Append(@, b.leaf[expr[k].var][IF expr[k].op = "Var" THEN 1 ELSE 2])]

ExprGate(b, expr, fanin, nfo) ==
  LET leaves[v \in 0 .. Len(fanin)] ==
        IF v = 0 THEN b ELSE Leaves(leaves[v - 1], expr, v, fanin[v])
      nodes[k \in 0 .. Len(expr)] ==
        IF k = 0 THEN leaves[Len(fanin)] ELSE ExprNode(nodes[k - 1], expr, k, nfo)
  IN  nodes[Len(expr)]

GateBuild(g, fanin, nfo) ==
  LET b == [node |-> node, conn |-> conn, site |-> << >>, leaf |-> << >>, at |-> << >>]
  IN  CASE g.type = "Expr" -> ExprGate(b, g.expr, fanin, nfo)
        [] g.type \in {"Xor", "Xnor"} /\ Len(fanin) > 2 -> XorChain(b, g.type, fanin, nfo)
        [] OTHER -> SimpleGate(b, g.type, fanin, nfo)

\* The faults of a source gate: its output, then its inputs, whose faults are
\* represented by the one of the output that they force, if there is one.
OutputFaults(n) == << [node |-> n, pos |-> 0, val |-> "0", rep |-> 0],
                      [node |-> n, pos |-> 0, val |-> "1", rep |-> 0] >>
ForcedRep(g, k, v, first) ==
  CASE CVal(g, k, v) = "0" -> first
    [] CVal(g, k, v) = "1" -> first + 1
    [] OTHER -> 0
InputFaults(g, k, site, first) ==
  [m \in 1 .. 2 |-> LET v == IF m = 1 THEN "0" ELSE "1"
                    IN  [node |-> site[1], pos |-> site[2], val |-> v,
                         rep |-> ForcedRep(g, k, v, first)]]
GateFaults(g, b) ==
  OutputFaults(Top(b))
  \o FlattenSeq([k \in DOMAIN b.site |-> InputFaults(g, k, b.site[k], Len(fault) + 1)])

-----------------------------------------------------------------------------
(* The construction of the nodes.                                          *)

\* make_input_node(), make_dff_output_node(): a node without fanins.
MakePpi(type) ==
  /\ node' = Append(node, [type |-> type, fanin |-> << >>,
                           nfo |-> FanoutNum(source, Len(nodeMap) + 1)])
  /\ nodeMap' = Append(nodeMap, Len(node) + 1)
  /\ fault' = fault \o OutputFaults(Len(node) + 1)
  /\ i' = i + 1
  /\ UNCHANGED <<source, pc, conn, analysed>>

MakeInputNode == pc = "inputs" /\ i <= source.inputs /\ MakePpi("Input")
MakeDffOutputNode == pc = "dffs" /\ i \in DOMAIN source.dff /\ MakePpi("DffOutput")

MakeLogicNode ==
  /\ pc = "logic" /\ i \in DOMAIN source.logic
  /\ LET g == source.logic[i]
         b == GateBuild(g, [k \in DOMAIN g.fanin |-> nodeMap[g.fanin[k]]],
                        FanoutNum(source, Len(nodeMap) + 1))
     IN  /\ node' = b.node
         /\ conn' = b.conn
         /\ nodeMap' = Append(nodeMap, Top(b))
         /\ fault' = fault \o GateFaults(g, b)
  /\ i' = i + 1
  /\ UNCHANGED <<source, pc, analysed>>

\* make_output_node(), make_dff_input_node() and those of the control
\* terminals: a node with one fanin and the faults of this fanin.
MakeTerminalNode ==
  /\ pc = "terminals" /\ i \in DOMAIN Terminals(source)
  /\ LET t == Terminals(source)[i]
         n == Len(node) + 1
     IN  /\ node' = Append(node, [type |-> t[1], fanin |-> <<nodeMap[t[2]]>>, nfo |-> 0])
         /\ conn' = Append(conn, <<nodeMap[t[2]], n>>)
         /\ fault' = fault \o << [node |-> n, pos |-> 1, val |-> "0", rep |-> 0],
                                 [node |-> n, pos |-> 1, val |-> "1", rep |-> 0] >>
  /\ i' = i + 1
  /\ UNCHANGED <<source, pc, nodeMap, analysed>>

\* set_fanout() for every connection, in the order of the list.
FanoutsOf(n) == LET edges == Within(conn, {n} \X DOMAIN node)
                IN  [k \in DOMAIN edges |-> edges[k][2]]
SetFanouts ==
  /\ pc = "fanouts" /\ i = 1
  /\ fanout' = [n \in DOMAIN node |-> FanoutsOf(n)]
  /\ repList' = [n \in DOMAIN node |-> << >>]
  /\ immDom' = [n \in DOMAIN node |-> 0]
  /\ i' = i + 1
  /\ UNCHANGED <<source, pc, built, ppo2, ffr, mffc, stack, mark>>

-----------------------------------------------------------------------------
(* The representative faults.                                              *)

\* The loops over the nodes from the last to the first.
FromLast == Len(node) + 1 - i

\* The fault tables of AuxNodeInfo: the fault of a site, 0 if there is none.
FaultAt(n, p, v) ==
  LET here == {f \in DOMAIN fault : fault[f].node = n /\ fault[f].pos = p /\ fault[f].val = v}
  IN  IF here = {} THEN 0 ELSE CHOOSE f \in here : TRUE

\* The faults of a node in the order of set_rep_faults().
FaultsOf(n) ==
  Within(FlattenSeq([p \in 1 .. Len(node[n].fanin) + 1 |->
                       <<FaultAt(n, p - 1, "0"), FaultAt(n, p - 1, "1")>>]), DOMAIN fault)

\* A fault at the output of a node with one fanout is the fault of the branch;
\* other faults have the representative they were made with, or none.
BranchOf(n, v) ==
  LET onode == fanout[n][1]
  IN  FaultAt(onode, SelectInSeq(node[onode].fanin, LAMBDA m : m = n), v)
Linked_AnyFanout(n, f) ==
  IF fault[f].pos = 0 /\ fanout[n] # << >> THEN BranchOf(n, fault[f].val) ELSE fault[f].rep
Linked(n, f) ==
  IF fault[f].pos = 0 /\ Len(fanout[n]) = 1 THEN BranchOf(n, fault[f].val) ELSE fault[f].rep

\* A fault that is linked to none represents itself, another takes over the
\* representative of the fault it is linked to, which is known already.
SetRepFaults ==
  /\ pc = "faults" /\ FromLast \in DOMAIN node
  /\ IF FromLast \notin C!DataNodes THEN UNCHANGED <<fault, repList>>
     ELSE LET n == FromLast
              faults == FaultsOf(n)
              Rep(f, of) == IF Linked(n, f) = 0 THEN f ELSE of[Linked(n, f)].rep
              here == {f \in DOMAIN fault : fault[f].node = n}
              With(of, S) ==
                [f \in DOMAIN of |-> IF f \in S THEN [of[f] EXCEPT !.rep = Rep(f, of)] ELSE of[f]]
              outputs == With(fault, {f \in here : fault[f].pos = 0})
          IN  /\ fault' = With(outputs, {f \in here : fault[f].pos > 0})
              /\ repList' = [repList EXCEPT ![n] = Within(faults, {f \in here : Linked(n, f) = 0})]
  /\ i' = i + 1
  /\ UNCHANGED <<source, pc, node, nodeMap, conn, fanout, immDom, ppo2, ffr, mffc, stack, mark>>

-----------------------------------------------------------------------------
(* The order of the outputs and the immediate dominators.                  *)

\* The outputs by the size of their transitive fanin; std::sort() may place
\* equal ones in any order.
SortOutputs ==
  /\ pc = "sort" /\ i = 1
  /\ ppo2' \in SetToSeqs(C!PPOs)
  /\ \A j, k \in DOMAIN ppo2' :
       j < k => Cardinality(C!Tfi({ppo2'[j]})) <= Cardinality(C!Tfi({ppo2'[k]}))
  /\ i' = i + 1
  /\ UNCHANGED <<source, pc, built, fanout, repList, immDom, ffr, mffc, stack, mark>>

\* merge(): climb from the node with the smaller number until both are one.
Merge_ClimbLarger(m, n) ==
  LET met[p \in (0 .. Len(node)) \X (0 .. Len(node))] ==
        IF p[1] = p[2] THEN p[1]
        ELSE IF p[1] = 0 \/ p[2] = 0 THEN 0
        ELSE IF p[1] > p[2] THEN met[<<immDom[p[1]], p[2]>>] ELSE met[<<p[1], immDom[p[2]]>>]
  IN  met[<<m, n>>]
Merge(m, n) ==
  LET met[p \in (0 .. Len(node)) \X (0 .. Len(node))] ==
        IF p[1] = p[2] THEN p[1]
        ELSE IF p[1] = 0 \/ p[2] = 0 THEN 0
        ELSE IF p[1] < p[2] THEN met[<<immDom[p[1]], p[2]>>] ELSE met[<<p[1], immDom[p[2]]>>]
  IN  met[<<m, n>>]

\* What the fanouts of a node are merged into, the first k of them in common[k].
CommonDom(n) ==
  LET common[k \in DOMAIN fanout[n]] ==
        IF k = 1 THEN fanout[n][1] ELSE Merge(common[k - 1], fanout[n][k])
  IN  common[Len(fanout[n])]
SetImmDom ==
  /\ pc = "doms" /\ FromLast \in DOMAIN node
  /\ immDom' = [immDom EXCEPT ![FromLast] =
       IF FromLast \in C!PPOs \/ fanout[FromLast] = << >> THEN 0 ELSE CommonDom(FromLast)]
  /\ i' = i + 1
  /\ UNCHANGED <<source, pc, built, fanout, repList, ppo2, ffr, mffc, stack, mark>>

-----------------------------------------------------------------------------
(* FFRs and MFFCs.                                                         *)

FfrRoots == Within([n \in DOMAIN node |-> n], {n \in C!DataNodes : C!FfrRoot(n) = n})
MffcRoots == Within(FfrRoots, {n \in DOMAIN node : immDom[n] = 0})

\* set_ffr(): collect the faults below a root, the last fanin first.
BeginFfr ==
  /\ pc = "ffrs" /\ stack = << >> /\ i \in DOMAIN FfrRoots
  /\ stack' = <<FfrRoots[i]>>
  /\ ffr' = Append(ffr, [root |-> FfrRoots[i], faults |-> << >>])
  /\ i' = i + 1
  /\ UNCHANGED <<source, pc, built, fanout, repList, immDom, ppo2, mffc, mark>>

VisitFfr ==
  /\ pc = "ffrs" /\ stack # << >>
  /\ LET n == Last(stack)
     IN  /\ ffr' = [ffr EXCEPT ![Len(ffr)].faults = @ \o repList[n]]
         /\ stack' = Front(stack) \o Within(node[n].fanin, {m \in DOMAIN node : C!FfrRoot(m) # m})
  /\ UNCHANGED <<source, pc, i, built, fanout, repList, immDom, ppo2, mffc, mark>>

\* set_mffc(): likewise, over every fanin that has a dominator.
BeginMffc ==
  /\ pc = "mffcs" /\ stack = << >> /\ i \in DOMAIN MffcRoots
  /\ stack' = <<MffcRoots[i]>>
  /\ mark' = {MffcRoots[i]}
  /\ mffc' = Append(mffc, [root |-> MffcRoots[i], ffrs |-> << >>, faults |-> << >>])
  /\ i' = i + 1
  /\ UNCHANGED <<source, pc, built, fanout, repList, immDom, ppo2, ffr>>

\* The fanins that are pushed; one node may be a fanin twice.
MffcFanins_Unmarked(n) ==
  Within(node[n].fanin, {m \in DOMAIN node : immDom[m] # 0})
MffcFanins(n) ==
  LET fanin == node[n].fanin
      Fresh(k) == /\ fanin[k] \notin mark /\ immDom[fanin[k]] # 0
                  /\ \A j \in 1 .. k - 1 : fanin[j] # fanin[k]
      fresh == Within([k \in DOMAIN fanin |-> k], {k \in DOMAIN fanin : Fresh(k)})
  IN  [k \in DOMAIN fresh |-> fanin[fresh[k]]]

VisitMffc ==
  /\ pc = "mffcs" /\ stack # << >>
  /\ LET n == Last(stack)
         root == IF C!FfrRoot(n) = n THEN <<n>> ELSE << >>
     IN  /\ mffc' = [mffc EXCEPT ![Len(mffc)].ffrs = @ \o root,
                                 ![Len(mffc)].faults = @ \o repList[n]]
         /\ stack' = Front(stack) \o MffcFanins(n)
         /\ mark' = mark \cup ToSet(MffcFanins(n))
  /\ UNCHANGED <<source, pc, i, built, fanout, repList, immDom, ppo2, ffr>>

-----------------------------------------------------------------------------
\* The loops of set(), one after the other.
Following ==
  [inputs |-> "dffs", dffs |-> "logic", logic |-> "terminals", terminals |-> "fanouts",
   fanouts |-> "faults", faults |-> "sort", sort |-> "doms", doms |-> "ffrs",
   ffrs |-> "mffcs", mffcs |-> "done"]
Length == CASE pc = "inputs" -> source.inputs
            [] pc = "dffs" -> Len(source.dff)
            [] pc = "logic" -> Len(source.logic)
            [] pc = "terminals" -> Len(Terminals(source))
            [] pc \in {"faults", "doms"} -> Len(node)
            [] pc \in {"fanouts", "sort"} -> 1
            [] pc = "ffrs" -> Len(FfrRoots)
            [] pc = "mffcs" -> Len(MffcRoots)

NextLoop ==
  /\ pc # "done" /\ i > Length /\ stack = << >>
  /\ pc' = Following[pc]
  /\ i' = 1
  /\ UNCHANGED <<source, built, analysed>>

Init ==
  /\ source \in Sources
  /\ pc = "inputs" /\ i = 1
  /\ node = << >> /\ nodeMap = << >> /\ conn = << >> /\ fault = << >>
  /\ fanout = << >> /\ repList = << >> /\ immDom = << >> /\ ppo2 = << >>
  /\ ffr = << >> /\ mffc = << >> /\ stack = << >> /\ mark = {}

Next ==
  \/ MakeInputNode \/ MakeDffOutputNode \/ MakeLogicNode \/ MakeTerminalNode
  \/ SetFanouts \/ SetRepFaults \/ SortOutputs \/ SetImmDom
  \/ BeginFfr \/ VisitFfr \/ BeginMffc \/ VisitMffc
  \/ NextLoop

Spec == Init /\ [][Next]_networkVars

-----------------------------------------------------------------------------
TypeOK ==
  /\ pc \in DOMAIN Following \cup {"done"}
  /\ \A n \in DOMAIN node : /\ node[n].type \in C!NodeTypes
                            /\ ToSet(node[n].fanin) \subseteq 1 .. n - 1
                            /\ node[n].nfo \in Nat
  /\ \A f \in DOMAIN fault : /\ fault[f].node \in DOMAIN node
                             /\ fault[f].val \in {"0", "1"}
                             /\ fault[f].rep \in 0 .. Len(fault)
  /\ ToSet(nodeMap) \subseteq DOMAIN node
  /\ \A n \in DOMAIN immDom : immDom[n] = 0 \/ immDom[n] \in n + 1 .. Len(node)
  /\ ToSet(stack) \subseteq DOMAIN node
  /\ mark \subseteq DOMAIN node
  /\ pc = "done" => C!ProperNetwork(node, fanout)   \* what Dtpg relies on

\* The sizes counted before the construction are those needed: mNodeArray is
\* exactly filled (the assertion TpgNetworkImpl.cc:558), and each node gets
\* the fanouts it has room for, dummy buffers and chains included.
SizesSuffice ==
  /\ Len(node) <= NodeNum(source)
  /\ pc = "fanouts" => Len(node) = NodeNum(source)
  /\ \A n \in DOMAIN fanout : Len(fanout[n]) = node[n].nfo

\* A branch fault sits at a fanin that its node has (the assertions of
\* AuxNodeInfo::set_input_fault() and TpgLogic2::fanin()).
SitesExist == \A f \in DOMAIN fault : fault[f].pos <= Len(node[fault[f].node].fanin)

\* "Structurally equivalent faults" (TpgNetwork.h:41): the representative of a
\* stuck-at fault is a representative, on some node's list, and is detected by
\* the same inputs.
RepresentativesEquivalent ==
  pc = "sort" =>
    \A f \in DOMAIN fault :
      fault[f].node \in C!DataNodes =>
        LET rep == fault[f].rep
        IN  /\ fault[rep].rep = rep
            /\ rep \in ToSet(repList[fault[rep].node])
            /\ C!TestsOf(fault[rep]) = C!TestsOf(fault[f])

\* imm_dom() is the first node on every path from a node to where it ends, and
\* null only if there is none.
OnEveryPath(d, n) ==
  LET avoids[m \in DOMAIN node] ==
        m # d /\ (fanout[m] = << >> \/ \E k \in DOMAIN fanout[m] : avoids[fanout[m][k]])
  IN  ~avoids[n]
ImmDomIsFirst ==
  pc = "ffrs" /\ ffr = << >> =>
    \A n \in DOMAIN node :
      LET doms == {d \in n + 1 .. Len(node) : OnEveryPath(d, n)}
      IN  IF doms = {} THEN immDom[n] = 0
          ELSE immDom[n] \in doms /\ \A d \in doms : immDom[n] <= d

\* Every representative fault is in one FFR and in one MFFC, once, and the
\* MFFC consists of the FFRs it lists: an engine that takes the regions one
\* after the other asks about each fault exactly once.
AllOf(seqs) == FlattenSeq(seqs)
Representatives == AllOf(repList)
SameElements(s, t) == Len(s) = Len(t) /\ ToSet(s) = ToSet(t)
FfrOf(root) == CHOOSE r \in ToSet(ffr) : r.root = root
FaultsPartitioned ==
  pc = "done" =>
    /\ IsInjective(Representatives)
    /\ SameElements(AllOf([k \in DOMAIN ffr |-> ffr[k].faults]), Representatives)
    /\ SameElements(AllOf([k \in DOMAIN mffc |-> mffc[k].faults]), Representatives)
    /\ \A m \in ToSet(mffc) :
         SameElements(m.faults, AllOf([k \in DOMAIN m.ffrs |-> FfrOf(m.ffrs[k]).faults]))

\* ffr_propagate_condition(): the condition holds exactly when the fault
\* changes the value at the root of the region.
Holds(condition, value) == \A a \in condition : a.time = 1 => value[a.node] = a.val
ConditionIsExact ==
  pc = "done" =>
    \A k \in DOMAIN ffr : \A f \in ToSet(ffr[k].faults) : \A in \in C!Inputs :
      Holds(C!FfrCondition(fault[f], "SA"), C!Values(in))
        <=> C!Values(in)[ffr[k].root] # C!ValuesUnder(in, fault[f])[ffr[k].root]
=============================================================================
