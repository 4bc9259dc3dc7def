------------------------ MODULE TpgNetworkConstruction ----------------------
(***************************************************************************)
(* What the steps of set() that make nodes and faults achieve, for every   *)
(* source.  The sizes counted beforehand are those that the construction   *)
(* needs: each gate gets as many nodes as extra_node_count() says, and     *)
(* each node the fanouts it has places for.  And a fault is detected by    *)
(* the same inputs as its representative: an input that forces the output  *)
(* of a source gate does so through the nodes made for the gate, which no  *)
(* other node looks into.                                                  *)
(***************************************************************************)
EXTENDS TpgNetworkProofs

-----------------------------------------------------------------------------
(* Counting.                                                               *)

OneToOne(f, S, T) ==
  /\ \A x \in S : f[x] \in T
  /\ \A x, y \in S : f[x] = f[y] => x = y
  /\ \A y \in T : \E x \in S : f[x] = y
LEMMA SameCount ==
  ASSUME NEW S, NEW T, IsFiniteSet(S), NEW f, OneToOne(f, S, T)
  PROVE  IsFiniteSet(T) /\ Cardinality(T) = Cardinality(S)
<1> DEFINE g == [x \in S |-> f[x]]
<1>1. g \in [S -> T] /\ \A x \in S : g[x] = f[x]
  BY DEF OneToOne
<1> HIDE DEF g
<1>2. g \in Bijection(S, T)
  BY <1>1 DEF OneToOne, Bijection, Injection, Surjection, IsInjective
<1>3. ExistsBijection(S, T)
  BY <1>2 DEF ExistsBijection
<1> QED BY <1>3, FS_Bijection

LEMMA DisjointCount ==
  ASSUME NEW S, NEW T, IsFiniteSet(S), IsFiniteSet(T), S \cap T = {}
  PROVE  IsFiniteSet(S \cup T) /\ Cardinality(S \cup T) = Cardinality(S) + Cardinality(T)
<1>1. Cardinality({}) = 0 /\ Cardinality(S) \in Nat /\ Cardinality(T) \in Nat
  BY FS_EmptySet, FS_CardinalityType
<1>2. IsFiniteSet(S \cup T) /\ Cardinality(S \cup T) = Cardinality(S) + Cardinality(T) - Cardinality(S \cap T)
  BY FS_Union
<1>3. Cardinality(S \cap T) = 0
  BY <1>1
<1> QED BY <1>1, <1>2, <1>3

LEMMA PrefixFinite ==
  ASSUME NEW n \in Nat, NEW S, S \subseteq 1 .. n
  PROVE  IsFiniteSet(S) /\ Cardinality(S) \in Nat
<1>1. IsFiniteSet(1 .. n)
  BY FS_Interval
<1> QED BY <1>1, FS_Subset, FS_CardinalityType

\* line numbers the keys of K by the places after lo up to hi.
Numbers(line, K, lo, hi) == OneToOne(line, K, lo + 1 .. hi)
LEMMA NumbersMore ==
  ASSUME NEW lo \in Nat, NEW hi \in Nat, lo <= hi, NEW K, NEW line, Numbers(line, K, lo, hi),
         NEW x, x \notin K, NEW new, \A y \in K : new[y] = line[y], new[x] = hi + 1
  PROVE  Numbers(new, K \cup {x}, lo, hi + 1)
<1>1. /\ \A y \in K : new[y] \in lo + 1 .. hi
      /\ \A y, z \in K : new[y] = new[z] => y = z
      /\ \A n \in lo + 1 .. hi : \E y \in K : new[y] = n
  BY DEF Numbers, OneToOne
<1>2. lo + 1 .. hi \subseteq lo + 1 .. hi + 1 /\ hi + 1 \in lo + 1 .. hi + 1 /\ hi + 1 \notin lo + 1 .. hi
      /\ \A n \in lo + 1 .. hi + 1 : n = hi + 1 \/ n \in lo + 1 .. hi
  OBVIOUS
<1>3. \A y \in K \cup {x} : new[y] \in lo + 1 .. hi + 1
  BY <1>1, <1>2
<1>4. \A y, z \in K \cup {x} : new[y] = new[z] => y = z
  BY <1>1, <1>2
<1>5. \A n \in lo + 1 .. hi + 1 : \E y \in K \cup {x} : new[y] = n
  BY <1>1, <1>2
<1> QED BY <1>3, <1>4, <1>5 DEF Numbers, OneToOne

LEMMA NumbersCount ==
  ASSUME NEW lo \in Nat, NEW hi \in Nat, lo <= hi, NEW K, NEW line, Numbers(line, K, lo, hi)
  PROVE  IsFiniteSet(K) /\ Cardinality(K) = hi - lo
<1> DEFINE T == lo + 1 .. hi
           g == [x \in K |-> line[x]]
<1>1. IsFiniteSet(T) /\ Cardinality(T) = hi - lo
  <2> DEFINE a == lo + 1
  <2>1. a \in Int /\ hi \in Int /\ (a > hi => hi - lo = 0) /\ hi - a + 1 = hi - lo
    OBVIOUS
  <2>2. T = a .. hi
    OBVIOUS
  <2> HIDE DEF a, T
  <2> QED BY <2>1, <2>2, FS_Interval
<1>2. /\ \A x \in K : line[x] \in T
      /\ \A x, y \in K : line[x] = line[y] => x = y
      /\ \A y \in T : \E x \in K : line[x] = y
  BY DEF Numbers, OneToOne
<1> HIDE DEF T
<1>3. g \in [K -> T] /\ \A x \in K : g[x] = line[x]
  BY <1>2
<1> HIDE DEF g
<1>4. g \in Injection(K, T) /\ g \in Surjection(K, T)
  BY <1>2, <1>3 DEF Injection, Surjection, IsInjective
<1> QED BY <1>1, <1>4, FS_Injection

-----------------------------------------------------------------------------
(* The pins that a node feeds.                                             *)

Line(nodes, p) == nodes[p[1]].fanin[p[2]]
FedPins(nodes, n) == {p \in PinsOf(nodes) : Line(nodes, p) = n}
Load(nodes, n) == Cardinality(FedPins(nodes, n))
NewPins(old, nodes, n) == {p \in FedPins(nodes, n) : p[1] \notin DOMAIN old}

LEMMA PinsFinite ==
  ASSUME NEW nodes, NEW conns, Wired(nodes, conns)
  PROVE  IsFiniteSet(PinsOf(nodes)) /\ \A n : IsFiniteSet(FedPins(nodes, n)) /\ Load(nodes, n) \in Nat
<1>1. PICK at : Wires(at, nodes, conns)
  BY DEF Wired
<1>2. IsFiniteSet(DOMAIN conns)
  <2>1. conns \in Seq(Pairs)
    BY DEF Wired, Pairs
  <2> DEFINE l == Len(conns)
  <2>2. l \in Nat /\ DOMAIN conns = 1 .. l
    BY <2>1
  <2> HIDE DEF l
  <2> QED BY <2>2, FS_Interval
<1>3. at \in Injection(PinsOf(nodes), DOMAIN conns)
  BY <1>1 DEF Wires, Injection, IsInjective
<1>4. IsFiniteSet(PinsOf(nodes))
  BY <1>2, <1>3, FS_Injection
<1>5. \A n : FedPins(nodes, n) \subseteq PinsOf(nodes)
  BY DEF FedPins
<1> QED BY <1>4, <1>5, FS_Subset, FS_CardinalityType DEF Load

LEMMA PinFacts ==
  ASSUME NEW nodes, NEW conns, Wired(nodes, conns)
  PROVE  /\ \A p \in PinsOf(nodes) : /\ p = <<p[1], p[2]>> /\ p[1] \in DOMAIN nodes /\ p[2] \in DOMAIN nodes[p[1]].fanin
                                     /\ Line(nodes, p) \in 1 .. p[1] - 1 /\ Line(nodes, p) \in DOMAIN nodes
         /\ \A n \in DOMAIN nodes : \A k \in DOMAIN nodes[n].fanin :
              <<n, k>> \in PinsOf(nodes) /\ Line(nodes, <<n, k>>) = nodes[n].fanin[k]
<1>1. nodes \in Seq(NodeRecs)
  BY DEF Wired
<1>2. ASSUME NEW n \in DOMAIN nodes PROVE DOMAIN nodes[n].fanin \subseteq Nat
  <2>1. nodes[n] \in NodeRecs
    BY <1>1
  <2>2. nodes[n].fanin \in Seq(Nat)
    BY <2>1 DEF NodeRecs
  <2> QED BY <2>2
<1>3. \A p \in PinsOf(nodes) : p = <<p[1], p[2]>> /\ p[1] \in DOMAIN nodes /\ p[2] \in DOMAIN nodes[p[1]].fanin
  BY DEF PinsOf
<1>4. \A p \in PinsOf(nodes) : Line(nodes, p) \in 1 .. p[1] - 1 /\ Line(nodes, p) \in DOMAIN nodes
  BY <1>3 DEF Wired, Drives, Line
<1> QED BY <1>2, <1>3, <1>4 DEF PinsOf, Line

LEMMA LoadGrown ==
  ASSUME NEW old, NEW oldConns, Wired(old, oldConns), NEW nodes, NEW conns, Wired(nodes, conns), Grown(old, nodes),
         NEW n
  PROVE  /\ Load(nodes, n) = Load(old, n) + Cardinality(NewPins(old, nodes, n))
         /\ n \notin DOMAIN old => Load(old, n) = 0
         /\ IsFiniteSet(NewPins(old, nodes, n))
<1> DEFINE S == FedPins(old, n)
           T == NewPins(old, nodes, n)
<1>1. DOMAIN old \subseteq DOMAIN nodes /\ \A m \in DOMAIN old : nodes[m] = old[m]
  <2>1. old \in Seq(NodeRecs) /\ nodes \in Seq(NodeRecs)
    BY DEF Wired
  <2> QED BY <2>1, GrownFacts DEF Grown
<1>2. \A p \in PinsOf(old) : p[1] \in DOMAIN old /\ Line(nodes, p) = Line(old, p) /\ p \in PinsOf(nodes)
  BY <1>1 DEF PinsOf, Line
<1>3. \A p \in PinsOf(nodes) : p[1] \in DOMAIN old => p \in PinsOf(old)
  BY <1>1 DEF PinsOf
<1>4. FedPins(nodes, n) = S \cup T /\ S \cap T = {}
  BY <1>2, <1>3 DEF FedPins, NewPins
<1>5. IsFiniteSet(S) /\ IsFiniteSet(T)
  <2>1. T \subseteq FedPins(nodes, n)
    BY DEF NewPins
  <2> HIDE DEF T
  <2> QED BY <2>1, PinsFinite, FS_Subset
<1>6. n \notin DOMAIN old => S = {}
  BY PinFacts DEF FedPins
<1>7. Cardinality({}) = 0
  BY FS_EmptySet
<1>8. Cardinality(S \cup T) = Cardinality(S) + Cardinality(T)
  <2> HIDE DEF S, T
  <2> QED BY <1>4, <1>5, DisjointCount
<1> QED BY <1>4, <1>5, <1>6, <1>7, <1>8 DEF Load

-----------------------------------------------------------------------------
(* The nodes of a gate, one by one.                                        *)

\* The literals of input v that get a node of their own.
Buffered(expr, v) ==
  IF LitNum(expr, v, "Neg") = 0 THEN LitNum(expr, v, "Var") # 1 ELSE LitNum(expr, v, "Var") > 0
Inverted(expr, v) == LitNum(expr, v, "Neg") > 0
BufferNum(expr, v) ==
  IF Inverted(expr, v) THEN LitNum(expr, v, "Var") + 1 ELSE LitNum(expr, v, "Var")

\* One step of the loop: b is one node larger or the same.
MayGrow(b, c, cond, record) ==
  /\ Sound(b) /\ Sound(c) /\ Grown(b.node, c.node) /\ c.site = b.site /\ c.leaf = b.leaf /\ c.at = b.at
  /\ Len(b.node) \in Nat
  /\ cond => Len(c.node) = Len(b.node) + 1 /\ Top(c) = Len(b.node) + 1 /\ c.node[Len(b.node) + 1] = record
  /\ ~ cond => c = b
LEMMA SingleGrows ==
  ASSUME NEW b, Sound(b), NEW n, Drives(b.node, n), NEW type \in {"Buff", "Not"}, NEW nfo \in Nat,
         NEW cond, NEW c, c = IF cond THEN Prim(b, type, <<n>>, nfo) ELSE b
  PROVE  MayGrow(b, c, cond, NewNode(type, <<n>>, nfo))
<1>1. b.node \in Seq(NodeRecs) /\ Len(b.node) \in Nat
  BY DEF Sound, Builds
<1>2. CASE cond
  <2>1. n \in Nat
    BY <1>1 DEF Drives
  <2>2. Fits(b.node, type, <<n>>, nfo)
    BY <2>1, SingleFits
  <2>3. c = Prim(b, type, <<n>>, nfo)
    BY <1>2
  <2> DEFINE fanin == <<n>>
  <2>4. Fits(b.node, type, fanin, nfo) /\ c = Prim(b, type, fanin, nfo)
    BY <2>2, <2>3
  <2> HIDE DEF fanin
  <2>5. Sound(c) /\ Grown(b.node, c.node) /\ c.site = b.site /\ c.leaf = b.leaf /\ c.at = b.at
    BY <2>4, PrimNode
  <2>6. Len(c.node) = Len(b.node) + 1 /\ Top(c) = Len(b.node) + 1
    BY <2>4, PrimNode
  <2>7. c.node[Len(b.node) + 1] = NewNode(type, fanin, nfo)
    BY <2>4, PrimNode
  <2>8. c.node[Len(b.node) + 1] = NewNode(type, <<n>>, nfo)
    BY <2>7 DEF fanin
  <2> QED BY <1>1, <1>2, <2>5, <2>6, <2>8 DEF MayGrow
<1>3. CASE ~ cond
  <2>1. c = b
    BY <1>3
  <2>2. Grown(b.node, b.node)
    BY <1>1 DEF Grown
  <2> QED BY <1>1, <1>3, <2>1, <2>2 DEF MayGrow
<1> QED BY <1>2, <1>3

\* What Leaves() adds to b for input v, n being the node of the input.
LeafPlaces(b, expr, v) == IF Buffered(expr, v) THEN Len(b.node) + 1 ELSE Len(b.node)
LeafPositive(b, expr, v, n) == IF Buffered(expr, v) THEN Len(b.node) + 1 ELSE n
LeafMade(b, expr, v, n, c) ==
  LET mid == LeafPlaces(b, expr, v)
      posi == LeafPositive(b, expr, v, n)
  IN  /\ Sound(c) /\ Grown(b.node, c.node) /\ Len(b.node) \in Nat /\ c.at = b.at
      /\ Len(c.node) = IF Inverted(expr, v) THEN mid + 1 ELSE mid
      /\ Buffered(expr, v) => c.node[Len(b.node) + 1] = NewNode("Buff", <<n>>, BufferNum(expr, v))
      /\ Inverted(expr, v) => c.node[mid + 1] = NewNode("Not", <<posi>>, LitNum(expr, v, "Neg"))
      /\ \A w \in 1 .. v - 1 : c.leaf[w] = b.leaf[w] /\ c.site[w] = b.site[w]
      /\ c.leaf[v][1] = posi
      /\ Inverted(expr, v) => c.leaf[v][2] = mid + 1
      /\ c.site[v] = IF Buffered(expr, v) THEN <<posi, 1>>
                     ELSE IF Inverted(expr, v) THEN <<mid + 1, 1>> ELSE Unplaced

LEMMA LeafIsMade ==
  ASSUME NEW before \in Seq(NodeRecs), NEW B, NEW expr \in Seq(B), NEW v \in Nat \ {0}, NEW b,
         LeavesDone(before, expr, v - 1, b), NEW n, Drives(before, n)
  PROVE  LeafMade(b, expr, v, n, Leaves(b, expr, v, n))
<1> DEFINE neg == LitNum(expr, v, "Neg")
           num == BufferNum(expr, v)
           buffered == Buffered(expr, v)
           inverted == Inverted(expr, v)
           buff == IF buffered THEN Prim(b, "Buff", <<n>>, num) ELSE b
           posi == IF buffered THEN Top(buff) ELSE n
           inv == IF inverted THEN Prim(buff, "Not", <<posi>>, neg) ELSE buff
           place == IF buffered THEN <<posi, 1>> ELSE IF inverted THEN <<Top(inv), 1>> ELSE <<0, 0>>
           leaves == Append(b.leaf, <<posi, Top(inv)>>)
           sites == Append(b.site, place)
           c == Leaves(b, expr, v, n)
<1>1. neg \in Nat /\ num \in Nat
  BY LitNumType DEF BufferNum
<1>2. Sound(b) /\ b \in Builds /\ b.node \in Seq(NodeRecs) /\ b.site \in Seq(Pairs) /\ b.leaf \in Seq(Pairs)
      /\ Grown(before, b.node) /\ Len(b.node) \in Nat /\ Drives(b.node, n) /\ n \in Nat
  BY GrownFacts DEF LeavesDone, Sound, Builds, Drives
<1>3. c = [inv EXCEPT !.leaf = Append(@, <<posi, Top(inv)>>), !.site = Append(@, place)]
  BY Zenon DEF Leaves, neg, num, buffered, inverted, buff, posi, inv, place, Buffered, Inverted, BufferNum
<1> HIDE DEF neg, num, buffered, inverted, c
<1>4. MayGrow(b, buff, buffered, NewNode("Buff", <<n>>, num))
  <2>1. buff = IF buffered THEN Prim(b, "Buff", <<n>>, num) ELSE b
    OBVIOUS
  <2> HIDE DEF buff
  <2> QED BY <1>1, <1>2, <2>1, SingleGrows
<1> DEFINE mid == IF buffered THEN Len(b.node) + 1 ELSE Len(b.node)
<1>5. /\ Sound(buff) /\ buff.node \in Seq(NodeRecs) /\ Grown(b.node, buff.node)
      /\ Len(buff.node) = mid /\ mid \in Nat
      /\ posi = IF buffered THEN Len(b.node) + 1 ELSE n
  <2> HIDE DEF buff
  <2> QED BY <1>2, <1>4 DEF MayGrow, Sound, Builds
<1>6. Drives(buff.node, posi)
  <2>1. MayAdd(b, buff, buffered, n)
    <3>1. buff = IF buffered THEN Prim(b, "Buff", <<n>>, num) ELSE b
      OBVIOUS
    <3> HIDE DEF buff
    <3> QED BY <1>1, <1>2, <3>1, AddSingle
  <2>2. buffered => posi = Top(buff)
    OBVIOUS
  <2>3. ~ buffered => posi = n
    OBVIOUS
  <2> HIDE DEF buff, posi
  <2>4. Drives(buff.node, n)
    BY <1>2, <1>5, GrownFacts
  <2> QED BY <2>1, <2>2, <2>3, <2>4 DEF MayAdd
<1> HIDE DEF posi
<1>7. MayGrow(buff, inv, inverted, NewNode("Not", <<posi>>, neg))
  <2>1. inv = IF inverted THEN Prim(buff, "Not", <<posi>>, neg) ELSE buff
    OBVIOUS
  <2> HIDE DEF inv, buff
  <2> QED BY <1>1, <1>5, <1>6, <2>1, SingleGrows
<1> HIDE DEF inv, buff
<1>8. /\ Sound(inv) /\ inv \in Builds /\ Grown(b.node, inv.node) /\ Grown(buff.node, inv.node)
      /\ inv.leaf = b.leaf /\ inv.site = b.site /\ inv.at = b.at
      /\ Len(inv.node) = (IF inverted THEN mid + 1 ELSE mid)
      /\ inverted => Top(inv) = mid + 1 /\ inv.node[mid + 1] = NewNode("Not", <<posi>>, neg)
  <2>1. Sound(inv) /\ inv \in Builds /\ inv.node \in Seq(NodeRecs) /\ Grown(buff.node, inv.node)
    BY <1>7 DEF MayGrow, Sound, Builds
  <2>2. Grown(b.node, inv.node)
    BY <1>2, <1>5, <2>1, GrownTwice
  <2>3. inv.leaf = b.leaf /\ inv.site = b.site /\ inv.at = b.at
    BY <1>4, <1>7 DEF MayGrow
  <2>4. inverted => Len(inv.node) = mid + 1 /\ Top(inv) = mid + 1 /\ inv.node[mid + 1] = NewNode("Not", <<posi>>, neg)
    BY <1>5, <1>7 DEF MayGrow
  <2>5. ~ inverted => Len(inv.node) = mid
    BY <1>5, <1>7 DEF MayGrow
  <2> HIDE DEF mid
  <2> QED BY <2>1, <2>2, <2>3, <2>4, <2>5
<1>9. buffered => inv.node[Len(b.node) + 1] = NewNode("Buff", <<n>>, num)
  <2>1. buffered => Len(b.node) + 1 \in DOMAIN buff.node /\ buff.node[Len(b.node) + 1] = NewNode("Buff", <<n>>, num)
    BY <1>2, <1>4, <1>5 DEF MayGrow
  <2> QED BY <1>8, <2>1 DEF Grown
<1>10. Top(inv) \in Nat /\ posi \in Nat /\ place \in Pairs
  <2>1. Top(inv) \in Nat
    BY <1>8 DEF Builds, Top
  <2>2. posi \in Nat
    BY <1>5, <1>6 DEF Drives
  <2> QED BY <2>1, <2>2 DEF Pairs
<1>11. /\ DOMAIN b.leaf = 1 .. v - 1 /\ DOMAIN b.site = 1 .. v - 1
       /\ Len(b.leaf) = v - 1 /\ Len(b.site) = v - 1
  BY <1>2 DEF LeavesDone
<1>12. leaves[v] = <<posi, Top(inv)>> /\ \A w \in 1 .. v - 1 : leaves[w] = b.leaf[w]
  <2>1. <<posi, Top(inv)>> \in Pairs
    BY <1>10 DEF Pairs
  <2> QED BY <1>2, <1>11, <2>1, AppendFacts
<1>13. sites[v] = place /\ \A w \in 1 .. v - 1 : sites[w] = b.site[w]
  <2> HIDE DEF place
  <2> QED BY <1>2, <1>10, <1>11, AppendFacts
<1> HIDE DEF leaves, sites
<1>14. c.node = inv.node /\ c.conn = inv.conn /\ c.leaf = leaves /\ c.site = sites /\ c.at = inv.at
  <2>1. leaves = Append(inv.leaf, <<posi, Top(inv)>>) /\ sites = Append(inv.site, place)
    BY <1>8 DEF leaves, sites
  <2>2. c = [inv EXCEPT !.leaf = leaves, !.site = sites]
    BY <1>3, <2>1
  <2>3. inv = [node |-> inv.node, conn |-> inv.conn, site |-> inv.site, leaf |-> inv.leaf, at |-> inv.at]
    BY <1>8 DEF Builds
  <2> HIDE DEF place
  <2> QED BY <2>2, <2>3
<1>15. Sound(c)
  <2>1. LeavesDone(before, expr, v, c)
    BY LeavesStep DEF c
  <2> QED BY <2>1 DEF LeavesDone
<1>16. mid = LeafPlaces(b, expr, v) /\ posi = LeafPositive(b, expr, v, n)
  <2>1. mid = LeafPlaces(b, expr, v)
    BY DEF LeafPlaces, buffered
  <2>2. posi = LeafPositive(b, expr, v, n)
    BY <1>5 DEF LeafPositive, buffered
  <2> QED BY <2>1, <2>2
<1>17. place = IF buffered THEN <<posi, 1>> ELSE IF inverted THEN <<mid + 1, 1>> ELSE Unplaced
  <2> HIDE DEF mid
  <2> QED BY <1>8 DEF Unplaced
<1>18. c.leaf[v][1] = posi /\ (inverted => c.leaf[v][2] = mid + 1)
  <2> HIDE DEF mid
  <2> QED BY <1>8, <1>12, <1>14
<1> HIDE DEF place, mid
<1>19. LeafMade(b, expr, v, n, c)
  BY <1>2, <1>8, <1>9, <1>12, <1>13, <1>14, <1>15, <1>16, <1>17, <1>18, Zenon DEF LeafMade, buffered, inverted, num, neg
<1> QED BY <1>19 DEF c

-----------------------------------------------------------------------------
(* The shape of a complex gate: where its nodes are and what they are.     *)

\* The nodes that a complex gate gets: buffers, inverters and operators.
KeySpace == Nat \X (1 .. 3)
BufferKeys(expr, v) == {key \in KeySpace : key[2] = 1 /\ key[1] \in 1 .. v /\ Buffered(expr, key[1])}
InverterKeys(expr, v) == {key \in KeySpace : key[2] = 2 /\ key[1] \in 1 .. v /\ Inverted(expr, key[1])}
OperatorKeys(expr, k) == {key \in KeySpace : key[2] = 3 /\ key[1] \in Operators(expr) /\ key[1] <= k}
Keys(expr, v, k) == BufferKeys(expr, v) \cup InverterKeys(expr, v) \cup OperatorKeys(expr, k)
KeyLine(c, key) == IF key[2] = 3 THEN c.at[key[1]] ELSE c.leaf[key[1]][key[2]]
LinesOf(c) == [key \in KeySpace |-> KeyLine(c, key)]

IsVar(expr, e, w) == e \in DOMAIN expr /\ expr[e].op = "Var" /\ expr[e].var = w
LeafNodes(c, expr, fanin, w) ==
  /\ IF Buffered(expr, w) THEN c.node[c.leaf[w][1]] = NewNode("Buff", <<fanin[w]>>, BufferNum(expr, w))
     ELSE c.leaf[w][1] = fanin[w]
  /\ Inverted(expr, w) => c.node[c.leaf[w][2]] = NewNode("Not", <<c.leaf[w][1]>>, LitNum(expr, w, "Neg"))
PositionIs(c, expr, nfo, e) ==
  IF e \in Operators(expr)
  THEN c.node[c.at[e]] = NewNode(expr[e].op, OperandsOf(c, expr, e), IF e = Len(expr) THEN nfo ELSE 1)
  ELSE c.at[e] = c.leaf[expr[e].var][IF expr[e].op = "Var" THEN 1 ELSE 2]
DirectSite(c, expr, k, w) ==
  \E q \in Operators(expr) : q <= k /\ \E j \in DOMAIN expr[q].kids :
    IsVar(expr, expr[q].kids[j], w) /\ c.site[w] = <<c.at[q], j>>
SiteIs(c, expr, k, w) ==
  /\ Buffered(expr, w) => c.site[w] = <<c.leaf[w][1], 1>>
  /\ ~ Buffered(expr, w) /\ Inverted(expr, w) => c.site[w] = <<c.leaf[w][2], 1>>
  /\ ~ Buffered(expr, w) /\ ~ Inverted(expr, w) => c.site[w] = Unplaced \/ DirectSite(c, expr, k, w)

ExprShape(before, expr, fanin, nfo, v, k, c) ==
  /\ Numbers(LinesOf(c), Keys(expr, v, k), Len(before), Len(c.node))
  /\ \A w \in 1 .. v : LeafNodes(c, expr, fanin, w) /\ SiteIs(c, expr, k, w)
  /\ \A e \in 1 .. k : PositionIs(c, expr, nfo, e)

LEMMA NumbersSame ==
  ASSUME NEW lo, NEW hi, NEW K, NEW line, Numbers(line, K, lo, hi), NEW new, \A y \in K : new[y] = line[y]
  PROVE  Numbers(new, K, lo, hi)
BY DEF Numbers, OneToOne

LEMMA KeysOfLeaf ==
  ASSUME NEW expr, NEW v \in Nat \ {0}, NEW k
  PROVE  LET K == Keys(expr, v - 1, k)
             mid == IF Buffered(expr, v) THEN K \cup {<<v, 1>>} ELSE K
         IN  /\ Keys(expr, v, k) = IF Inverted(expr, v) THEN mid \cup {<<v, 2>>} ELSE mid
             /\ <<v, 1>> \notin K /\ <<v, 2>> \notin mid
             /\ <<v, 1>> \in KeySpace /\ <<v, 2>> \in KeySpace
             /\ \A key \in K : key \in KeySpace /\ (key[2] # 3 => key[1] \in 1 .. v - 1 /\ key[2] \in {1, 2})
<1> DEFINE K == Keys(expr, v - 1, k)
           mid == IF Buffered(expr, v) THEN K \cup {<<v, 1>>} ELSE K
           B == BufferKeys(expr, v - 1)
           I == InverterKeys(expr, v - 1)
           a == <<v, 1>>
           b == <<v, 2>>
<1>1. a \in KeySpace /\ b \in KeySpace /\ a[1] = v /\ a[2] = 1 /\ b[1] = v /\ b[2] = 2
  BY DEF KeySpace
<1>2. \A key \in KeySpace : /\ key[1] = v /\ key[2] = 1 => key = a
                            /\ key[1] = v /\ key[2] = 2 => key = b
  BY DEF KeySpace
<1> HIDE DEF a, b
<1>3. \A w : w \in 1 .. v <=> w \in 1 .. v - 1 \/ w = v
  OBVIOUS
<1>4. BufferKeys(expr, v) = IF Buffered(expr, v) THEN B \cup {a} ELSE B
  <2>1. \A key \in BufferKeys(expr, v) : key \in B \/ (key = a /\ Buffered(expr, v))
    BY <1>2, <1>3 DEF BufferKeys
  <2>2. \A key \in B : key \in BufferKeys(expr, v)
    BY <1>3 DEF BufferKeys
  <2>3. Buffered(expr, v) => a \in BufferKeys(expr, v)
    BY <1>1, <1>3 DEF BufferKeys
  <2> HIDE DEF B
  <2> QED BY <2>1, <2>2, <2>3
<1>5. InverterKeys(expr, v) = IF Inverted(expr, v) THEN I \cup {b} ELSE I
  <2>1. \A key \in InverterKeys(expr, v) : key \in I \/ (key = b /\ Inverted(expr, v))
    BY <1>2, <1>3 DEF InverterKeys
  <2>2. \A key \in I : key \in InverterKeys(expr, v)
    BY <1>3 DEF InverterKeys
  <2>3. Inverted(expr, v) => b \in InverterKeys(expr, v)
    BY <1>1, <1>3 DEF InverterKeys
  <2> HIDE DEF I
  <2> QED BY <2>1, <2>2, <2>3
<1>6. v \notin 1 .. v - 1
  OBVIOUS
<1>7. a \notin K /\ b \notin K
  BY <1>1, <1>6 DEF Keys, BufferKeys, InverterKeys, OperatorKeys
<1>8. a # b
  BY <1>1
<1>9. \A key \in K : key \in KeySpace /\ (key[2] # 3 => key[1] \in 1 .. v - 1 /\ key[2] \in {1, 2})
  BY DEF Keys, BufferKeys, InverterKeys, OperatorKeys
<1>10. K = B \cup I \cup OperatorKeys(expr, k)
  BY DEF Keys
<1> HIDE DEF K, B, I
<1>11. Keys(expr, v, k) = IF Inverted(expr, v) THEN mid \cup {b} ELSE mid
  <2>1. Keys(expr, v, k) = BufferKeys(expr, v) \cup InverterKeys(expr, v) \cup OperatorKeys(expr, k)
    BY DEF Keys
  <2>2. mid = IF Buffered(expr, v) THEN K \cup {a} ELSE K
    BY DEF a
  <2> HIDE DEF mid
  <2> QED BY <1>4, <1>5, <1>10, <2>1, <2>2
<1>12. b \notin mid
  BY <1>7, <1>8 DEF a
<1> QED BY <1>1, <1>7, <1>9, <1>11, <1>12 DEF K, a, b

LEMMA LeafShape ==
  ASSUME NEW before \in Seq(NodeRecs), NEW B, NEW expr \in Seq(B), NEW v \in Nat \ {0}, NEW b,
         LeavesDone(before, expr, v - 1, b), NEW fanin, NEW nfo, ExprShape(before, expr, fanin, nfo, v - 1, 0, b),
         NEW c, LeafMade(b, expr, v, fanin[v], c)
  PROVE  ExprShape(before, expr, fanin, nfo, v, 0, c)
<1> DEFINE L == Len(b.node)
           lo == Len(before)
           mid == LeafPlaces(b, expr, v)
           posi == LeafPositive(b, expr, v, fanin[v])
           K == Keys(expr, v - 1, 0)
           K1 == IF Buffered(expr, v) THEN K \cup {<<v, 1>>} ELSE K
           line == LinesOf(b)
           new == LinesOf(c)
<1>1. /\ Sound(c) /\ Grown(b.node, c.node) /\ L \in Nat /\ c.at = b.at
      /\ Len(c.node) = IF Inverted(expr, v) THEN mid + 1 ELSE mid
      /\ Buffered(expr, v) => c.node[L + 1] = NewNode("Buff", <<fanin[v]>>, BufferNum(expr, v))
      /\ Inverted(expr, v) => c.node[mid + 1] = NewNode("Not", <<posi>>, LitNum(expr, v, "Neg"))
      /\ \A w \in 1 .. v - 1 : c.leaf[w] = b.leaf[w] /\ c.site[w] = b.site[w]
      /\ c.leaf[v][1] = posi
      /\ Inverted(expr, v) => c.leaf[v][2] = mid + 1
      /\ c.site[v] = IF Buffered(expr, v) THEN <<posi, 1>>
                     ELSE IF Inverted(expr, v) THEN <<mid + 1, 1>> ELSE Unplaced
  BY DEF LeafMade
<1>2. /\ mid = IF Buffered(expr, v) THEN L + 1 ELSE L
      /\ Buffered(expr, v) => posi = L + 1
      /\ ~ Buffered(expr, v) => posi = fanin[v]
  BY DEF LeafPlaces, LeafPositive
<1>3. lo \in Nat /\ lo <= L
  BY DEF LeavesDone, Grown
<1>4. mid \in Nat /\ lo <= mid
  BY <1>1, <1>2, <1>3
<1>5. /\ Keys(expr, v, 0) = IF Inverted(expr, v) THEN K1 \cup {<<v, 2>>} ELSE K1
      /\ <<v, 1>> \notin K /\ <<v, 2>> \notin K1 /\ <<v, 1>> \in KeySpace /\ <<v, 2>> \in KeySpace
      /\ \A key \in K : key \in KeySpace /\ (key[2] # 3 => key[1] \in 1 .. v - 1 /\ key[2] \in {1, 2})
  BY KeysOfLeaf
<1>6. \A key \in K : new[key] = line[key]
  BY <1>1, <1>5 DEF LinesOf, KeyLine
<1>7. Buffered(expr, v) => new[<<v, 1>>] = L + 1
  BY <1>1, <1>2, <1>5 DEF LinesOf, KeyLine
<1>8. Inverted(expr, v) => new[<<v, 2>>] = mid + 1
  BY <1>1, <1>5 DEF LinesOf, KeyLine
<1>9. Numbers(line, K, lo, L)
  BY DEF ExprShape
<1> HIDE DEF line, new, K, lo, L, mid, posi
<1>10. Numbers(new, K1, lo, mid)
  <2> DEFINE a == <<v, 1>>
  <2>1. a \notin K /\ (Buffered(expr, v) => K1 = K \cup {a} /\ mid = L + 1 /\ new[a] = L + 1)
        /\ (~ Buffered(expr, v) => K1 = K /\ mid = L)
    BY <1>2, <1>5, <1>7
  <2> HIDE DEF a, K1
  <2>2. CASE Buffered(expr, v)
    <3>1. new[a] = L + 1 /\ a \notin K
      BY <2>1, <2>2
    <3>2. Numbers(new, K \cup {a}, lo, L + 1)
      <4>1. L \in Nat
        BY <1>1
      <4> QED BY <1>3, <1>6, <1>9, <3>1, <4>1, NumbersMore
    <3> QED BY <2>1, <2>2, <3>2
  <2>3. CASE ~ Buffered(expr, v)
    <3>1. Numbers(new, K, lo, L)
      BY <1>6, <1>9, NumbersSame
    <3> QED BY <2>1, <2>3, <3>1
  <2> QED BY <2>2, <2>3
<1>11. Numbers(new, Keys(expr, v, 0), lo, Len(c.node))
  <2> DEFINE a == <<v, 2>>
             K2 == Keys(expr, v, 0)
             hi == Len(c.node)
  <2>1. a \notin K1 /\ (Inverted(expr, v) => K2 = K1 \cup {a} /\ hi = mid + 1 /\ new[a] = mid + 1)
        /\ (~ Inverted(expr, v) => K2 = K1 /\ hi = mid)
    BY <1>1, <1>5, <1>8
  <2> HIDE DEF a, K1, K2, hi
  <2>2. CASE Inverted(expr, v)
    <3>1. new[a] = mid + 1 /\ a \notin K1 /\ \A y \in K1 : new[y] = new[y]
      BY <2>1, <2>2
    <3>2. Numbers(new, K1 \cup {a}, lo, mid + 1)
      BY <1>3, <1>4, <1>10, <3>1, NumbersMore
    <3> QED BY <2>1, <2>2, <3>2 DEF K2, hi
  <2>3. CASE ~ Inverted(expr, v)
    BY <1>10, <2>1, <2>3 DEF K2, hi
  <2> QED BY <2>2, <2>3
<1>12. ASSUME NEW w \in 1 .. v PROVE LeafNodes(c, expr, fanin, w) /\ SiteIs(c, expr, 0, w)
  <2>1. CASE w = v
    <3>1. Buffered(expr, v) => c.leaf[v][1] = L + 1
      BY <1>1, <1>2
    <3>2. LeafNodes(c, expr, fanin, v)
      BY <1>1, <1>2, <3>1 DEF LeafNodes
    <3>3. SiteIs(c, expr, 0, v)
      BY <1>1, <1>2 DEF SiteIs
    <3> QED BY <2>1, <3>2, <3>3
  <2>2. CASE w # v
    <3>1. w \in 1 .. v - 1
      BY <2>2
    <3>2. LeafNodes(b, expr, fanin, w) /\ SiteIs(b, expr, 0, w)
      BY <3>1 DEF ExprShape
    <3>3. c.leaf[w] = b.leaf[w] /\ c.site[w] = b.site[w] /\ c.at = b.at
      BY <1>1, <3>1
    <3>4. LeafAt(b, expr, w)
      BY <3>1 DEF LeavesDone
    <3>5. c.node[b.leaf[w][1]] = b.node[b.leaf[w][1]]
      BY <1>1, <3>4 DEF LeafAt, Drives, Grown
    <3>6. Inverted(expr, w) => c.node[b.leaf[w][2]] = b.node[b.leaf[w][2]]
      BY <1>1, <3>4 DEF LeafAt, Drives, Grown, Inverted
    <3>7. LeafNodes(c, expr, fanin, w)
      BY <3>2, <3>3, <3>5, <3>6 DEF LeafNodes
    <3>8. SiteIs(c, expr, 0, w)
      BY <3>2, <3>3 DEF SiteIs, DirectSite
    <3> QED BY <3>7, <3>8
  <2> QED BY <2>1, <2>2
<1>13. \A e \in 1 .. 0 : PositionIs(c, expr, nfo, e)
  OBVIOUS
<1> QED BY <1>11, <1>12, <1>13 DEF ExprShape, new, lo

LEMMA LiteralShape ==
  ASSUME NEW before, NEW expr, NEW ni \in Nat, ProperExpr(expr, ni), NEW k \in DOMAIN expr,
         k \notin Operators(expr), NEW b, NodesDone(before, expr, ni, k - 1, b), NEW nfo, NEW fanin,
         ExprShape(before, expr, fanin, nfo, ni, k - 1, b)
  PROVE  ExprShape(before, expr, fanin, nfo, ni, k, ExprNode(b, expr, k, nfo))
<1> DEFINE n == b.leaf[expr[k].var][IF expr[k].op = "Var" THEN 1 ELSE 2]
           ats == Append(b.at, n)
           c == [b EXCEPT !.at = ats]
<1>1. /\ expr \in Seq(ExprRecs(ni)) /\ k \in Nat /\ k # 0 /\ DOMAIN expr = 1 .. Len(expr) /\ Len(expr) \in Nat
      /\ expr[k].op \in {"Var", "Neg"} /\ expr[k].var \in 1 .. ni
      /\ \A q \in Operators(expr) : q \in DOMAIN expr /\ q \in Nat /\ expr[q].kids \in Seq(1 .. q - 1)
  BY SMTT(40), ExprFacts DEF Operators
<1>2. b \in Builds /\ b.at \in Seq(Nat) /\ DOMAIN b.at = 1 .. k - 1 /\ Len(b.at) = k - 1 /\ b.leaf \in Seq(Pairs)
      /\ DOMAIN b.leaf = 1 .. ni
  BY <1>1 DEF NodesDone, Sound, Builds
<1>3. n \in Nat
  <2> DEFINE v == expr[k].var
             leaf == b.leaf
  <2>0. v \in DOMAIN leaf /\ leaf \in Seq(Pairs)
    BY <1>1, <1>2
  <2> HIDE DEF v, leaf
  <2>1. leaf[v] \in Nat \X Nat
    BY <2>0 DEF Pairs
  <2> QED BY <2>1 DEF v, leaf
<1> HIDE DEF n
<1>4. ats[k] = n /\ \A j \in 1 .. k - 1 : ats[j] = b.at[j]
  BY <1>1, <1>2, <1>3, AppendFacts
<1> HIDE DEF ats
<1>5. /\ c.node = b.node /\ c.site = b.site /\ c.leaf = b.leaf /\ c.at = ats
  BY <1>2 DEF Builds
<1>6. ExprNode(b, expr, k, nfo) = c
  BY DEF ExprNode, c, ats, n
<1> HIDE DEF c
<1>7. \A q \in Operators(expr) : q <= k <=> q <= k - 1
  BY <1>1
<1>8. Keys(expr, ni, k) = Keys(expr, ni, k - 1)
  BY <1>7 DEF Keys, OperatorKeys
<1>9. \A q \in Operators(expr) : q <= k - 1 => c.at[q] = b.at[q] /\ OperandsOf(c, expr, q) = OperandsOf(b, expr, q)
  <2> SUFFICES ASSUME NEW q \in Operators(expr), q <= k - 1
               PROVE  c.at[q] = b.at[q] /\ OperandsOf(c, expr, q) = OperandsOf(b, expr, q)
    OBVIOUS
  <2>1. q \in 1 .. k - 1 /\ \A j \in DOMAIN expr[q].kids : expr[q].kids[j] \in 1 .. k - 1
    BY <1>1
  <2>2. \A j \in DOMAIN expr[q].kids : c.at[expr[q].kids[j]] = b.at[expr[q].kids[j]]
    BY <1>4, <1>5, <2>1
  <2> QED BY <1>4, <1>5, <2>1, <2>2 DEF OperandsOf
<1>10. \A key \in Keys(expr, ni, k) : LinesOf(c)[key] = LinesOf(b)[key]
  BY <1>5, <1>7, <1>9 DEF LinesOf, KeyLine, Keys, BufferKeys, InverterKeys, OperatorKeys
<1>11. Numbers(LinesOf(c), Keys(expr, ni, k), Len(before), Len(c.node))
  BY <1>5, <1>8, <1>10, NumbersSame DEF ExprShape
<1>12. ASSUME NEW w \in 1 .. ni PROVE LeafNodes(c, expr, fanin, w) /\ SiteIs(c, expr, k, w)
  <2>1. LeafNodes(b, expr, fanin, w) /\ SiteIs(b, expr, k - 1, w)
    BY DEF ExprShape
  <2>2. DirectSite(b, expr, k - 1, w) => DirectSite(c, expr, k, w)
    BY <1>5, <1>7, <1>9 DEF DirectSite
  <2>3. LeafNodes(c, expr, fanin, w)
    BY <1>5, <2>1 DEF LeafNodes
  <2>4. SiteIs(c, expr, k, w)
    BY <1>5, <2>1, <2>2 DEF SiteIs
  <2> QED BY <2>3, <2>4
<1>13. ASSUME NEW e \in 1 .. k PROVE PositionIs(c, expr, nfo, e)
  <2>1. CASE e = k
    <3>1. c.at[k] = c.leaf[expr[k].var][IF expr[k].op = "Var" THEN 1 ELSE 2]
      BY <1>4, <1>5 DEF n
    <3> QED BY <2>1, <3>1 DEF PositionIs
  <2>2. CASE e # k
    <3>1. e \in 1 .. k - 1
      BY <1>1, <2>2
    <3>2. PositionIs(b, expr, nfo, e)
      BY <3>1 DEF ExprShape
    <3>3. c.at[e] = b.at[e] /\ c.node = b.node /\ c.leaf = b.leaf
      BY <1>4, <1>5, <3>1
    <3>4. e <= k - 1
      BY <1>1, <3>1
    <3> QED BY <1>9, <3>2, <3>3, <3>4 DEF PositionIs
  <2> QED BY <2>1, <2>2
<1> QED BY <1>6, <1>11, <1>12, <1>13 DEF ExprShape

LEMMA OperatorFacts ==
  ASSUME NEW expr, NEW ni \in Nat, ProperExpr(expr, ni)
  PROVE  /\ DOMAIN expr = 1 .. Len(expr) /\ Len(expr) \in Nat
         /\ \A q \in Operators(expr) :
              /\ q \in DOMAIN expr /\ q \in Nat /\ q # 0 /\ expr[q].kids \in Seq(1 .. q - 1)
              /\ DOMAIN expr[q].kids = 1 .. Len(expr[q].kids) /\ Len(expr[q].kids) \in Nat
              /\ \A j \in DOMAIN expr[q].kids : expr[q].kids[j] \in 1 .. q - 1 /\ expr[q].kids[j] \in DOMAIN expr
              /\ \A k \in Nat : q <= k <=> q = k \/ q <= k - 1
<1>1. /\ DOMAIN expr = 1 .. Len(expr) /\ Len(expr) \in Nat
      /\ \A k \in DOMAIN expr : k \in Operators(expr) => expr[k].kids \in Seq(1 .. k - 1)
  BY ExprFacts
<1> SUFFICES ASSUME NEW q \in Operators(expr)
             PROVE  /\ q \in DOMAIN expr /\ q \in Nat /\ q # 0 /\ expr[q].kids \in Seq(1 .. q - 1)
                    /\ DOMAIN expr[q].kids = 1 .. Len(expr[q].kids) /\ Len(expr[q].kids) \in Nat
                    /\ \A j \in DOMAIN expr[q].kids : expr[q].kids[j] \in 1 .. q - 1 /\ expr[q].kids[j] \in DOMAIN expr
                    /\ \A k \in Nat : q <= k <=> q = k \/ q <= k - 1
  BY <1>1
<1>2. q \in DOMAIN expr
  BY DEF Operators
<1>3. q \in Nat /\ q # 0 /\ 1 .. q - 1 \subseteq DOMAIN expr
  BY <1>1, <1>2
<1>4. expr[q].kids \in Seq(1 .. q - 1)
  BY <1>1, <1>2
<1>5. \A k \in Nat : q <= k <=> q = k \/ q <= k - 1
  BY <1>3
<1>6. /\ DOMAIN expr[q].kids = 1 .. Len(expr[q].kids) /\ Len(expr[q].kids) \in Nat
      /\ \A j \in DOMAIN expr[q].kids : expr[q].kids[j] \in 1 .. q - 1
  <2> DEFINE kids == expr[q].kids
             S == 1 .. q - 1
  <2>1. kids \in Seq(S)
    BY <1>4
  <2> HIDE DEF kids, S
  <2>2. DOMAIN kids = 1 .. Len(kids) /\ Len(kids) \in Nat /\ \A j \in DOMAIN kids : kids[j] \in S
    BY <2>1
  <2> QED BY <2>2 DEF kids, S
<1> QED BY <1>2, <1>3, <1>4, <1>5, <1>6

LEMMA KeysOfOperator ==
  ASSUME NEW expr, NEW ni \in Nat, ProperExpr(expr, ni), NEW k \in Operators(expr), NEW v
  PROVE  LET K == Keys(expr, v, k - 1)
         IN  /\ Keys(expr, v, k) = K \cup {<<k, 3>>} /\ <<k, 3>> \notin K /\ <<k, 3>> \in KeySpace
             /\ \A key \in K : key \in KeySpace /\ (key[2] = 3 => key[1] \in 1 .. k - 1)
<1> DEFINE K == Keys(expr, v, k - 1)
           old == OperatorKeys(expr, k - 1)
           a == <<k, 3>>
<1>1. k \in Nat /\ k # 0 /\ \A q \in Operators(expr) : q \in Nat /\ q # 0 /\ (q <= k <=> q = k \/ q <= k - 1)
  <2>1. \A q \in Operators(expr) : q \in Nat /\ q # 0 /\ \A m \in Nat : q <= m <=> q = m \/ q <= m - 1
    BY OperatorFacts
  <2> QED BY <2>1
<1>2. a \in KeySpace /\ a[1] = k /\ a[2] = 3 /\ \A key \in KeySpace : key[1] = k /\ key[2] = 3 => key = a
  BY <1>1 DEF KeySpace
<1> HIDE DEF a
<1>3. OperatorKeys(expr, k) = old \cup {a}
  <2>1. \A key \in OperatorKeys(expr, k) : key \in old \/ key = a
    BY <1>1, <1>2 DEF OperatorKeys
  <2>2. \A key \in old : key \in OperatorKeys(expr, k)
    BY <1>1 DEF OperatorKeys
  <2>3. a \in OperatorKeys(expr, k)
    BY <1>1, <1>2 DEF OperatorKeys
  <2> HIDE DEF old
  <2> QED BY <2>1, <2>2, <2>3
<1>4. ~ (k <= k - 1)
  BY <1>1
<1>5. a \notin K
  BY <1>2, <1>4 DEF Keys, BufferKeys, InverterKeys, OperatorKeys
<1>6. \A key \in K : key \in KeySpace /\ (key[2] = 3 => key[1] \in 1 .. k - 1)
  <2>1. \A key \in K : key \in KeySpace /\ (key[2] = 3 => key[1] \in Operators(expr) /\ key[1] <= k - 1)
    BY DEF Keys, BufferKeys, InverterKeys, OperatorKeys
  <2>2. \A q \in Operators(expr) : q <= k - 1 => q \in 1 .. k - 1
    BY <1>1
  <2> QED BY <2>1, <2>2
<1>7. Keys(expr, v, k) = K \cup {a}
  BY <1>3 DEF Keys
<1> QED BY <1>2, <1>5, <1>6, <1>7 DEF a

LEMMA OperatorShape ==
  ASSUME NEW before \in Seq(NodeRecs), NEW expr, NEW ni \in Nat, ProperExpr(expr, ni),
         NEW k \in Operators(expr), NEW b, NodesDone(before, expr, ni, k - 1, b), NEW nfo \in Nat, NEW fanin,
         ExprShape(before, expr, fanin, nfo, ni, k - 1, b)
  PROVE  ExprShape(before, expr, fanin, nfo, ni, k, ExprNode(b, expr, k, nfo))
<1> DEFINE c == ExprNode(b, expr, k, nfo)
           L == Len(b.node)
           n == L + 1
           K == Keys(expr, ni, k - 1)
           line == LinesOf(b)
           new == LinesOf(c)
<1>0. OperatorMade(b, expr, ni, k, nfo, c)
  BY OperatorIs
<1>1. /\ k \in DOMAIN expr /\ k \in Nat /\ k # 0
      /\ \A q \in Operators(expr) : /\ q \in DOMAIN expr /\ q \in Nat /\ q # 0 /\ expr[q].kids \in Seq(1 .. q - 1)
                                    /\ (q <= k <=> q = k \/ q <= k - 1)
  <2>1. \A q \in Operators(expr) : /\ q \in DOMAIN expr /\ q \in Nat /\ q # 0 /\ expr[q].kids \in Seq(1 .. q - 1)
                                   /\ \A m \in Nat : q <= m <=> q = m \/ q <= m - 1
    BY OperatorFacts
  <2> QED BY <2>1
<1> HIDE DEF c
<1>2. /\ b.node \in Seq(NodeRecs) /\ c.node \in Seq(NodeRecs) /\ Grown(before, b.node) /\ Grown(b.node, c.node)
      /\ c.leaf = b.leaf /\ L \in Nat /\ Len(c.node) = n
  BY <1>0 DEF NodesDone, Sound, Builds, OperatorMade
<1>3. c.at[k] = n /\ \A j \in 1 .. k - 1 : c.at[j] = b.at[j]
  BY <1>0 DEF OperatorMade
<1>4. Len(before) \in Nat /\ Len(before) <= L
  BY <1>2 DEF Grown
<1>5. Numbers(new, Keys(expr, ni, k), Len(before), Len(c.node))
  <2> DEFINE a == <<k, 3>>
             lo == Len(before)
  <2>1. /\ Keys(expr, ni, k) = K \cup {a} /\ a \notin K /\ a \in KeySpace
        /\ \A key \in K : key \in KeySpace /\ (key[2] = 3 => key[1] \in 1 .. k - 1)
    BY KeysOfOperator
  <2>2. \A key \in K : new[key] = line[key]
    BY <1>2, <1>3, <2>1 DEF LinesOf, KeyLine
  <2>3. new[a] = L + 1
    BY <1>3, <2>1 DEF LinesOf, KeyLine
  <2>4. Numbers(line, K, lo, L)
    BY DEF ExprShape
  <2> HIDE DEF a, K, line, new, lo
  <2>5. lo \in Nat /\ L \in Nat /\ lo <= L
    BY <1>2, <1>4 DEF lo
  <2> HIDE DEF L
  <2>6. Numbers(new, K \cup {a}, lo, L + 1)
    BY <2>1, <2>2, <2>3, <2>4, <2>5, NumbersMore
  <2>7. Len(c.node) = L + 1
    BY <1>2 DEF L
  <2> QED BY <2>1, <2>6, <2>7 DEF lo
<1>6. \A q \in Operators(expr) : q <= k => OperandsOf(c, expr, q) = OperandsOf(b, expr, q) /\ (q # k => c.at[q] = b.at[q])
  <2> SUFFICES ASSUME NEW q \in Operators(expr), q <= k
               PROVE  OperandsOf(c, expr, q) = OperandsOf(b, expr, q) /\ (q # k => c.at[q] = b.at[q])
    OBVIOUS
  <2>1. (q # k => q \in 1 .. k - 1) /\ \A j \in DOMAIN expr[q].kids : expr[q].kids[j] \in 1 .. k - 1
    BY <1>1
  <2>2. \A j \in DOMAIN expr[q].kids : c.at[expr[q].kids[j]] = b.at[expr[q].kids[j]]
    BY <1>3, <2>1
  <2> QED BY <1>3, <2>1, <2>2 DEF OperandsOf
<1>7. \A w \in 1 .. ni : /\ b.leaf[w][1] \in DOMAIN b.node
                         /\ Inverted(expr, w) => b.leaf[w][2] \in DOMAIN b.node
  BY DEF NodesDone, Drives, Inverted
<1>8. \A m \in DOMAIN b.node : c.node[m] = b.node[m] /\ m # 0
  BY <1>2 DEF Grown
<1>9. ASSUME NEW w \in 1 .. ni PROVE LeafNodes(c, expr, fanin, w) /\ SiteIs(c, expr, k, w)
  <2>1. LeafNodes(b, expr, fanin, w) /\ SiteIs(b, expr, k - 1, w)
    BY DEF ExprShape
  <2>2. DirectSite(b, expr, k - 1, w) /\ c.site[w] = b.site[w] => DirectSite(c, expr, k, w)
    <3> SUFFICES ASSUME NEW q \in Operators(expr), q <= k - 1, NEW j \in DOMAIN expr[q].kids,
                        IsVar(expr, expr[q].kids[j], w), c.site[w] = <<b.at[q], j>>
                 PROVE  DirectSite(c, expr, k, w)
      BY DEF DirectSite
    <3>1. q <= k /\ q # k
      BY <1>1
    <3>2. c.at[q] = b.at[q]
      BY <1>6, <3>1
    <3> QED BY <3>1, <3>2 DEF DirectSite
  <2>3. LeafNodes(c, expr, fanin, w)
    BY <1>2, <1>7, <1>8, <2>1 DEF LeafNodes
  <2>4. IF b.site[w] = Unplaced /\ KidsOf(expr, k, w) # {}
        THEN \E j \in KidsOf(expr, k, w) : c.site[w] = <<n, j>>
        ELSE c.site[w] = b.site[w]
    BY <1>0 DEF OperatorMade
  <2>5. Buffered(expr, w) \/ Inverted(expr, w) => c.site[w] = b.site[w]
    <3>1. Buffered(expr, w) => b.site[w] # Unplaced
      BY <1>7, <1>8, <2>1 DEF SiteIs, Unplaced
    <3>2. ~ Buffered(expr, w) /\ Inverted(expr, w) => b.site[w] # Unplaced
      BY <1>7, <1>8, <2>1 DEF SiteIs, Unplaced
    <3> QED BY <2>4, <3>1, <3>2
  <2>6. b.site[w] = Unplaced /\ KidsOf(expr, k, w) # {} => DirectSite(c, expr, k, w)
    <3> SUFFICES ASSUME NEW j \in KidsOf(expr, k, w), c.site[w] = <<n, j>> PROVE DirectSite(c, expr, k, w)
      BY <2>4
    <3>1. j \in DOMAIN expr[k].kids /\ expr[expr[k].kids[j]].op = "Var" /\ expr[expr[k].kids[j]].var = w
      BY DEF KidsOf
    <3>2. expr[k].kids[j] \in DOMAIN expr
      <4>1. expr[k].kids \in Seq(1 .. k - 1) /\ DOMAIN expr = 1 .. Len(expr) /\ k \in 1 .. Len(expr) /\ Len(expr) \in Nat
        BY <1>1, ExprFacts
      <4>2. expr[k].kids[j] \in 1 .. k - 1
        BY SMTT(40), <3>1, <4>1
      <4> QED BY <4>1, <4>2
    <3>3. k <= k
      BY <1>1
    <3> QED BY <1>3, <3>1, <3>2, <3>3 DEF DirectSite, IsVar
  <2>7. SiteIs(c, expr, k, w)
    <3>1. ~ (b.site[w] = Unplaced /\ KidsOf(expr, k, w) # {}) => c.site[w] = b.site[w]
      BY <2>4
    <3> QED BY <1>2, <2>1, <2>2, <2>5, <2>6, <3>1 DEF SiteIs
  <2> QED BY <2>3, <2>7
<1>10. ASSUME NEW e \in 1 .. k PROVE PositionIs(c, expr, nfo, e)
  <2>1. CASE e = k
    <3>1. c.node[n] = NewNode(expr[k].op, OperandsOf(b, expr, k), IF k = Len(expr) THEN nfo ELSE 1)
      BY <1>0 DEF OperatorMade
    <3>2. k <= k
      BY <1>1
    <3> QED BY <1>3, <1>6, <2>1, <3>1, <3>2 DEF PositionIs
  <2>2. CASE e # k
    <3>1. e \in 1 .. k - 1 /\ e <= k
      BY <1>1, <2>2
    <3>2. PositionIs(b, expr, nfo, e) /\ Drives(b.node, b.at[e])
      BY <3>1 DEF ExprShape, NodesDone
    <3>3. c.at[e] = b.at[e] /\ c.node[b.at[e]] = b.node[b.at[e]]
      BY <1>3, <1>8, <3>1, <3>2 DEF Drives
    <3>4. e \in Operators(expr) => OperandsOf(c, expr, e) = OperandsOf(b, expr, e)
      BY <1>6, <3>1
    <3> QED BY <1>2, <3>2, <3>3, <3>4 DEF PositionIs
  <2> QED BY <2>1, <2>2
<1>11. ExprShape(before, expr, fanin, nfo, ni, k, c)
  BY <1>5, <1>9, <1>10 DEF ExprShape
<1> QED BY <1>11 DEF c

LEMMA CountingUp ==
  ASSUME NEW n \in Nat, NEW T, 0 \in T, \A k \in 1 .. n : k - 1 \in T => k \in T
  PROVE  n \in T
<1>1. \A m \in Nat : \A U : 0 \in U /\ (\A k \in 1 .. m : k - 1 \in U => k \in U) => 0 .. m \subseteq U
  BY P!InductionTo
<1>2. 0 .. n \subseteq T
  BY <1>1
<1> QED BY <1>2

LEMMA NumbersNone ==
  ASSUME NEW lo \in Nat, NEW line
  PROVE  Numbers(line, {}, lo, lo)
<1>1. lo + 1 .. lo = {}
  OBVIOUS
<1> QED BY <1>1 DEF Numbers, OneToOne

\* The shape of a complex gate when it is complete.
LEMMA ExprGateShape ==
  ASSUME NEW b, NEW expr, NEW fanin, NEW nfo \in Nat, Sound(b), b.site = << >>, b.leaf = << >>, b.at = << >>,
         Fed(b.node, fanin), ProperExpr(expr, Len(fanin)), NEW c, c = ExprGate(b, expr, fanin, nfo)
  PROVE  /\ ExprShape(b.node, expr, fanin, nfo, Len(fanin), Len(expr), c)
         /\ NodesDone(b.node, expr, Len(fanin), Len(expr), c) /\ GateDone(b.node, c)
<1> DEFINE ni == Len(fanin)
           n == Len(expr)
           before == b.node
           Shape(v, k, d) == ExprShape(before, expr, fanin, nfo, v, k, d)
<1>1. PICK f, g : /\ LeafBuilds(b, expr, fanin, f)
                  /\ ExprBuilds(b, f[ni], expr, ni, nfo, g)
                  /\ c = g[n] /\ GateDone(before, c)
  BY ExprGateIs
<1>2. before \in Seq(NodeRecs) /\ fanin \in Seq(Nat) /\ ni \in Nat /\ Len(before) \in Nat
  BY DEF Sound, Builds, Fed
<1>3. expr \in Seq(ExprRecs(ni)) /\ n \in Nat /\ DOMAIN expr = 1 .. n /\ \A q \in Operators(expr) : q \in Nat /\ q # 0
  BY <1>2, ExprFacts, OperatorFacts
<1>4. /\ \A v \in 0 .. ni : LeavesDone(before, expr, v, f[v])
      /\ f[0] = b /\ \A v \in 1 .. ni : f[v] = Leaves(f[v - 1], expr, v, fanin[v])
  <2>1. \A v \in 0 .. ni : /\ LeavesDone(before, expr, v, f[v])
                           /\ f[v] = IF v = 0 THEN b ELSE Leaves(f[v - 1], expr, v, fanin[v])
    BY <1>1 DEF LeafBuilds
  <2>2. 0 \in 0 .. ni /\ \A v \in 1 .. ni : v \in 0 .. ni /\ v # 0
    BY <1>2
  <2> QED BY <2>1, <2>2
<1>5. /\ \A k \in 0 .. n : NodesDone(before, expr, ni, k, g[k])
      /\ g[0] = f[ni] /\ \A k \in 1 .. n : g[k] = ExprNode(g[k - 1], expr, k, nfo)
  <2>1. \A k \in 0 .. n : /\ NodesDone(before, expr, ni, k, g[k])
                          /\ g[k] = IF k = 0 THEN f[ni] ELSE ExprNode(g[k - 1], expr, k, nfo)
    BY <1>1 DEF ExprBuilds
  <2>2. 0 \in 0 .. n /\ \A k \in 1 .. n : k \in 0 .. n /\ k # 0
    BY <1>3
  <2> QED BY <2>1, <2>2
<1> HIDE DEF before
<1>6. Shape(0, 0, b)
  <2>1. Keys(expr, 0, 0) = {}
    <3>1. \A q \in Operators(expr) : ~ (q <= 0)
      BY <1>3
    <3>2. 1 .. 0 = {}
      OBVIOUS
    <3> QED BY <3>1, <3>2 DEF Keys, BufferKeys, InverterKeys, OperatorKeys
  <2>2. Numbers(LinesOf(b), {}, Len(before), Len(before))
    BY <1>2, NumbersNone
  <2>3. 1 .. 0 = {}
    OBVIOUS
  <2> QED BY <2>1, <2>2, <2>3 DEF ExprShape, before
<1>7. Shape(ni, 0, f[ni])
  <2> DEFINE T == {v \in 0 .. ni : Shape(v, 0, f[v])}
  <2>1. 0 \in T
    BY <1>2, <1>4, <1>6
  <2>2. ASSUME NEW v \in 1 .. ni, v - 1 \in T PROVE v \in T
    <3>1. v \in Nat \ {0} /\ v \in 0 .. ni /\ v - 1 \in 0 .. ni
      BY <1>2
    <3>2. Drives(before, fanin[v])
      BY <1>2, <2>2 DEF Fed, before
    <3>3. LeafMade(f[v - 1], expr, v, fanin[v], f[v])
      BY <1>2, <1>3, <1>4, <3>1, <3>2, LeafIsMade
    <3>4. LeavesDone(before, expr, v - 1, f[v - 1]) /\ Shape(v - 1, 0, f[v - 1])
      BY <1>4, <2>2, <3>1
    <3>5. Shape(v, 0, f[v])
      <4> DEFINE p == f[v - 1]
                 q == f[v]
      <4>1. LeafMade(p, expr, v, fanin[v], q) /\ LeavesDone(before, expr, v - 1, p) /\ Shape(v - 1, 0, p)
        BY <3>3, <3>4
      <4> HIDE DEF p, q
      <4>2. Shape(v, 0, q)
        BY <1>2, <1>3, <3>1, <4>1, LeafShape
      <4> QED BY <4>2 DEF q
    <3> QED BY <3>1, <3>5
  <2> HIDE DEF T
  <2>3. ni \in T
    BY <1>2, <2>1, <2>2, CountingUp
  <2> QED BY <2>3 DEF T
<1>8. Shape(ni, n, g[n])
  <2> DEFINE T == {k \in 0 .. n : Shape(ni, k, g[k])}
  <2>1. 0 \in T
    BY <1>3, <1>5, <1>7
  <2>2. ASSUME NEW k \in 1 .. n, k - 1 \in T PROVE k \in T
    <3> DEFINE p == g[k - 1]
    <3>1. k \in DOMAIN expr /\ k \in 0 .. n /\ k - 1 \in 0 .. n
      BY <1>3
    <3>2. g[k] = ExprNode(p, expr, k, nfo) /\ NodesDone(before, expr, ni, k - 1, p) /\ Shape(ni, k - 1, p)
      BY <1>5, <2>2, <3>1
    <3> HIDE DEF p
    <3>3. CASE k \in Operators(expr)
      <4>1. Shape(ni, k, ExprNode(p, expr, k, nfo))
        BY <1>2, <3>2, <3>3, OperatorShape
      <4> QED BY <3>1, <3>2, <4>1
    <3>4. CASE k \notin Operators(expr)
      <4>1. Shape(ni, k, ExprNode(p, expr, k, nfo))
        BY <1>2, <3>1, <3>2, <3>4, LiteralShape
      <4> QED BY <3>1, <3>2, <4>1
    <3> QED BY <3>3, <3>4
  <2> HIDE DEF T
  <2>3. n \in T
    BY <1>3, <2>1, <2>2, CountingUp
  <2> QED BY <2>3 DEF T
<1>9. NodesDone(before, expr, ni, n, g[n])
  BY <1>3, <1>5
<1> QED BY <1>1, <1>8, <1>9 DEF before

-----------------------------------------------------------------------------
(* What feeds what in a complex gate, and how often.                       *)

\* slot[e]: the operator and the place at which subexpression e is an operand.
SlotsOf(expr, slot) ==
  /\ \A e \in DOMAIN expr \ {Len(expr)} :
       /\ slot[e][1] \in Operators(expr) /\ slot[e][2] \in DOMAIN expr[slot[e][1]].kids
       /\ expr[slot[e][1]].kids[slot[e][2]] = e
  /\ \A q \in Operators(expr) : \A j \in DOMAIN expr[q].kids :
       expr[q].kids[j] \in DOMAIN expr \ {Len(expr)} /\ slot[expr[q].kids[j]] = <<q, j>>
LEMMA SlotsExist ==
  ASSUME NEW expr, NEW ni \in Nat, ProperExpr(expr, ni)
  PROVE  \E slot : SlotsOf(expr, slot)
<1> DEFINE n == Len(expr)
           At(e, s) == s[1] \in Operators(expr) /\ s[2] \in DOMAIN expr[s[1]].kids /\ expr[s[1]].kids[s[2]] = e
           Slots == Nat \X Nat
           slot == [e \in DOMAIN expr |-> CHOOSE s \in Slots : At(e, s)]
<1>1. /\ DOMAIN expr = 1 .. n /\ n \in Nat
      /\ \A q \in Operators(expr) :
           /\ q \in DOMAIN expr /\ q \in Nat
           /\ \A j \in DOMAIN expr[q].kids : j \in Nat /\ expr[q].kids[j] \in DOMAIN expr /\ expr[q].kids[j] \in 1 .. q - 1
  BY OperatorFacts
<1>2. \A e \in DOMAIN expr : e # n => \E p \in Operators(expr) : e \in ToSet(expr[p].kids)
  BY ExprFacts
<1>3. \A p, q \in Operators(expr) : \A j \in DOMAIN expr[p].kids, m \in DOMAIN expr[q].kids :
        expr[p].kids[j] = expr[q].kids[m] => p = q /\ j = m
  <2>1. \A q \in Operators(expr) : q \in DOMAIN expr \ {k \in DOMAIN expr : expr[k].op \in {"Var", "Neg"}}
    BY DEF Operators
  <2> QED BY <2>1, Zenon DEF ProperExpr
<1>4. \A e \in DOMAIN expr \ {n} : \E s \in Slots : At(e, s)
  <2> SUFFICES ASSUME NEW e \in DOMAIN expr \ {n} PROVE \E s \in Slots : At(e, s)
    OBVIOUS
  <2>1. PICK p \in Operators(expr) : e \in ToSet(expr[p].kids)
    BY <1>2
  <2>2. PICK j \in DOMAIN expr[p].kids : expr[p].kids[j] = e
    BY <2>1 DEF ToSet
  <2>3. <<p, j>> \in Slots /\ <<p, j>>[1] = p /\ <<p, j>>[2] = j
    BY <1>1
  <2>4. At(e, <<p, j>>)
    BY <2>2, <2>3
  <2> QED BY <2>3, <2>4
<1>5. \A e \in DOMAIN expr \ {n} : slot[e] \in Slots /\ At(e, slot[e])
  BY Zenon, <1>4
<1> HIDE DEF slot
<1>6. ASSUME NEW q \in Operators(expr), NEW j \in DOMAIN expr[q].kids
      PROVE  expr[q].kids[j] \in DOMAIN expr \ {n} /\ slot[expr[q].kids[j]] = <<q, j>>
  <2> DEFINE e == expr[q].kids[j]
  <2>1. e \in DOMAIN expr \ {n}
    BY SMTT(40), <1>1
  <2>2. slot[e] \in Slots /\ At(e, slot[e])
    BY SMTT(40), <1>5, <2>1
  <2>3. slot[e][1] = q /\ slot[e][2] = j
    BY <1>3, <2>2
  <2> HIDE DEF e
  <2>4. slot[e] = <<q, j>>
    BY <2>2, <2>3
  <2> QED BY <2>1, <2>4 DEF e
<1>7. SlotsOf(expr, slot)
  BY <1>5, <1>6 DEF SlotsOf
<1> QED BY <1>7

\* The lines of a complex gate: those into its buffers and inverters, and that of
\* every subexpression but the root.  A line comes from a node of the gate or
\* else from an input.
Operands(expr) == {key \in KeySpace : key[2] = 3 /\ key[1] \in DOMAIN expr /\ key[1] # Len(expr)}
Edges(expr, ni) == BufferKeys(expr, ni) \cup InverterKeys(expr, ni) \cup Operands(expr)
None == <<0, 0>>
FromPositive(expr, w) == IF Buffered(expr, w) THEN <<w, 1>> ELSE None
FromKey(expr, edge) ==
  IF edge[2] = 1 THEN None
  ELSE IF edge[2] = 2 THEN FromPositive(expr, edge[1])
  ELSE IF edge[1] \in Operators(expr) THEN edge
  ELSE IF expr[edge[1]].op = "Neg" THEN <<expr[edge[1]].var, 2>>
  ELSE FromPositive(expr, expr[edge[1]].var)
InputOf(expr, edge) == IF edge[2] = 3 THEN expr[edge[1]].var ELSE edge[1]
EdgesFrom(expr, ni, key) == {edge \in Edges(expr, ni) : FromKey(expr, edge) = key}

LEMMA LitCounts ==
  ASSUME NEW expr, NEW ni \in Nat, ProperExpr(expr, ni), NEW w \in 1 .. ni
  PROVE  /\ LitNum(expr, w, "Var") \in Nat /\ LitNum(expr, w, "Neg") \in Nat
         /\ Inverted(expr, w) <=> \E e \in DOMAIN expr : expr[e].op = "Neg" /\ expr[e].var = w
         /\ ~ Buffered(expr, w) /\ Inverted(expr, w) => \A e : ~ IsVar(expr, e, w)
         /\ ~ Buffered(expr, w) /\ ~ Inverted(expr, w) => \E e : \A d : IsVar(expr, d, w) <=> d = e
         /\ Buffered(expr, w) <=> LitNum(expr, w, "Var") > (IF Inverted(expr, w) THEN 0 ELSE 1)
<1> DEFINE V == {e \in DOMAIN expr : expr[e].op = "Var" /\ expr[e].var = w}
           N == {e \in DOMAIN expr : expr[e].op = "Neg" /\ expr[e].var = w}
<1>1. DOMAIN expr = 1 .. Len(expr) /\ Len(expr) \in Nat
  BY OperatorFacts
<1>2. IsFiniteSet(V) /\ IsFiniteSet(N)
  <2> DEFINE n == Len(expr)
  <2>1. V \subseteq 1 .. n /\ N \subseteq 1 .. n /\ n \in Nat
    BY <1>1
  <2> HIDE DEF V, N, n
  <2> QED BY <2>1, PrefixFinite
<1>3. LitNum(expr, w, "Var") = Cardinality(V) /\ LitNum(expr, w, "Neg") = Cardinality(N)
  BY DEF LitNum
<1>4. \A e : IsVar(expr, e, w) <=> e \in V
  BY DEF IsVar
<1>5. (V # {} \/ N # {})
  BY ZenonT(60), ExprFacts
<1>6. \A e : e \in N <=> e \in DOMAIN expr /\ expr[e].op = "Neg" /\ expr[e].var = w
  OBVIOUS
<1> HIDE DEF V, N
<1>7. /\ Cardinality(V) \in Nat /\ Cardinality(N) \in Nat
      /\ Cardinality(V) = 0 <=> V = {}
      /\ Cardinality(N) = 0 <=> N = {}
  BY <1>2, FS_CardinalityType, FS_EmptySet
<1>8. Cardinality(V) = 1 => \E e : V = {e}
  BY <1>2, FS_Singleton
<1>9. Inverted(expr, w) <=> N # {}
  BY <1>3, <1>7 DEF Inverted
<1>10. Buffered(expr, w) <=> IF N = {} THEN Cardinality(V) # 1 ELSE V # {}
  BY <1>3, <1>7 DEF Buffered
<1>11. ~ Buffered(expr, w) /\ ~ Inverted(expr, w) => \E e : \A d : IsVar(expr, d, w) <=> d = e
  BY <1>4, <1>8, <1>9, <1>10
<1>12. ~ Buffered(expr, w) /\ Inverted(expr, w) => \A e : ~ IsVar(expr, e, w)
  BY <1>4, <1>9, <1>10
<1>13. Buffered(expr, w) <=> LitNum(expr, w, "Var") > (IF Inverted(expr, w) THEN 0 ELSE 1)
  BY <1>3, <1>5, <1>7, <1>9, <1>10
<1>14. Inverted(expr, w) <=> \E e \in DOMAIN expr : expr[e].op = "Neg" /\ expr[e].var = w
  BY <1>6, <1>9
<1> QED BY <1>3, <1>7, <1>11, <1>12, <1>13, <1>14

LEMMA EdgePair ==
  ASSUME NEW expr, NEW ni \in Nat, NEW edge \in Edges(expr, ni) \cup Keys(expr, ni, Len(expr))
  PROVE  edge \in KeySpace /\ edge = <<edge[1], edge[2]>> /\ edge[2] \in {1, 2, 3}
<1>1. edge \in KeySpace
  BY DEF Edges, Keys, BufferKeys, InverterKeys, OperatorKeys, Operands
<1> QED BY <1>1 DEF KeySpace

LEMMA MadeKeys ==
  ASSUME NEW expr, NEW ni \in Nat, ProperExpr(expr, ni)
  PROVE  /\ \A w \in 1 .. ni : <<w, 1>> \in BufferKeys(expr, ni) <=> Buffered(expr, w)
         /\ \A w \in 1 .. ni : <<w, 2>> \in InverterKeys(expr, ni) <=> Inverted(expr, w)
         /\ \A q \in Operators(expr) : <<q, 3>> \in OperatorKeys(expr, Len(expr))
         /\ \A e \in DOMAIN expr : <<e, 3>> \in Operands(expr) <=> e # Len(expr)
<1>1. /\ DOMAIN expr \subseteq Nat /\ 1 .. ni \subseteq Nat
      /\ \A q \in Operators(expr) : q \in Nat /\ q \in DOMAIN expr /\ q <= Len(expr)
  BY OperatorFacts
<1>2. \A x \in Nat : /\ <<x, 1>> \in KeySpace /\ <<x, 1>>[1] = x /\ <<x, 1>>[2] = 1
                     /\ <<x, 2>> \in KeySpace /\ <<x, 2>>[1] = x /\ <<x, 2>>[2] = 2
                     /\ <<x, 3>> \in KeySpace /\ <<x, 3>>[1] = x /\ <<x, 3>>[2] = 3
  BY DEF KeySpace
<1>3. \A w \in 1 .. ni : <<w, 1>> \in BufferKeys(expr, ni) <=> Buffered(expr, w)
  BY <1>1, <1>2 DEF BufferKeys
<1>4. \A w \in 1 .. ni : <<w, 2>> \in InverterKeys(expr, ni) <=> Inverted(expr, w)
  BY <1>1, <1>2 DEF InverterKeys
<1>5. \A q \in Operators(expr) : <<q, 3>> \in OperatorKeys(expr, Len(expr))
  BY <1>1, <1>2 DEF OperatorKeys
<1>6. \A e \in DOMAIN expr : <<e, 3>> \in Operands(expr) <=> e # Len(expr)
  BY <1>1, <1>2 DEF Operands
<1> QED BY <1>3, <1>4, <1>5, <1>6

\* The kinds of lines, and where each comes from.
BufferLine(expr, ni, edge) ==
  edge[1] \in 1 .. ni /\ edge[2] = 1 /\ Buffered(expr, edge[1]) /\ FromKey(expr, edge) = None /\ InputOf(expr, edge) = edge[1]
InverterLine(expr, ni, edge) ==
  /\ edge[1] \in 1 .. ni /\ edge[2] = 2 /\ Inverted(expr, edge[1])
  /\ FromKey(expr, edge) = FromPositive(expr, edge[1]) /\ InputOf(expr, edge) = edge[1]
OperatorLine(expr, edge) ==
  edge[1] \in Operators(expr) /\ edge[1] # Len(expr) /\ edge[2] = 3 /\ FromKey(expr, edge) = edge
PositiveLine(expr, ni, edge) ==
  /\ edge[1] \in DOMAIN expr /\ edge[2] = 3 /\ InputOf(expr, edge) \in 1 .. ni
  /\ IsVar(expr, edge[1], InputOf(expr, edge)) /\ FromKey(expr, edge) = FromPositive(expr, InputOf(expr, edge))
NegativeLine(expr, ni, edge) ==
  /\ edge[1] \in DOMAIN expr /\ edge[2] = 3 /\ InputOf(expr, edge) \in 1 .. ni
  /\ expr[edge[1]].op = "Neg" /\ expr[edge[1]].var = InputOf(expr, edge)
  /\ Inverted(expr, InputOf(expr, edge)) /\ FromKey(expr, edge) = <<InputOf(expr, edge), 2>>

LEMMA LineKinds ==
  ASSUME NEW expr, NEW ni \in Nat, ProperExpr(expr, ni), NEW edge \in Edges(expr, ni)
  PROVE  \/ BufferLine(expr, ni, edge) \/ InverterLine(expr, ni, edge) \/ OperatorLine(expr, edge)
         \/ PositiveLine(expr, ni, edge) \/ NegativeLine(expr, ni, edge)
<1>1. CASE edge \in BufferKeys(expr, ni)
  <2>1. edge[1] \in 1 .. ni /\ edge[2] = 1 /\ Buffered(expr, edge[1])
    BY <1>1 DEF BufferKeys
  <2>2. BufferLine(expr, ni, edge)
    BY <2>1 DEF BufferLine, FromKey, InputOf
  <2> QED BY <2>2
<1>2. CASE edge \in InverterKeys(expr, ni)
  <2>1. edge[1] \in 1 .. ni /\ edge[2] = 2 /\ Inverted(expr, edge[1])
    BY <1>2 DEF InverterKeys
  <2>2. InverterLine(expr, ni, edge)
    BY <2>1 DEF InverterLine, FromKey, InputOf
  <2> QED BY <2>2
<1>3. CASE edge \in Operands(expr)
  <2>1. edge[2] = 3 /\ edge[1] \in DOMAIN expr /\ edge[1] # Len(expr)
    BY <1>3 DEF Operands
  <2>2. CASE edge[1] \in Operators(expr)
    <3>1. OperatorLine(expr, edge)
      BY <2>1, <2>2 DEF OperatorLine, FromKey
    <3> QED BY <3>1
  <2>3. CASE edge[1] \notin Operators(expr)
    <3> DEFINE w == expr[edge[1]].var
    <3>1. expr[edge[1]].op \in {"Var", "Neg"} /\ w \in 1 .. ni
      BY <2>1, <2>3, ExprFacts
    <3>2. InputOf(expr, edge) = w
      BY <2>1 DEF InputOf
    <3>3. CASE expr[edge[1]].op = "Var"
      <4>1. FromKey(expr, edge) = FromPositive(expr, w)
        BY <2>1, <2>3, <3>3 DEF FromKey
      <4>2. PositiveLine(expr, ni, edge)
        BY <2>1, <3>1, <3>2, <3>3, <4>1 DEF PositiveLine, IsVar
      <4> QED BY <4>2
    <3>4. CASE expr[edge[1]].op = "Neg"
      <4>1. FromKey(expr, edge) = <<w, 2>>
        BY <2>1, <2>3, <3>4 DEF FromKey
      <4>2. Inverted(expr, w)
        BY <2>1, <3>1, <3>4, LitCounts
      <4>3. NegativeLine(expr, ni, edge)
        BY <2>1, <3>1, <3>2, <3>4, <4>1, <4>2 DEF NegativeLine
      <4> QED BY <4>3
    <3> QED BY <3>1, <3>3, <3>4
  <2> QED BY <2>2, <2>3
<1> QED BY <1>1, <1>2, <1>3 DEF Edges

\* A line comes from a node of the gate or else from an input.
LEMMA FromKeys ==
  ASSUME NEW expr, NEW ni \in Nat, ProperExpr(expr, ni), NEW edge \in Edges(expr, ni)
  PROVE  /\ FromKey(expr, edge) = None => InputOf(expr, edge) \in 1 .. ni
         /\ FromKey(expr, edge) = None \/ FromKey(expr, edge) \in Keys(expr, ni, Len(expr))
<1> DEFINE w == InputOf(expr, edge)
           K == Keys(expr, ni, Len(expr))
<1>1. \A v \in 1 .. ni : FromPositive(expr, v) = None \/ FromPositive(expr, v) \in K
  BY MadeKeys DEF FromPositive, Keys
<1>2. \A v \in 1 .. ni : Inverted(expr, v) => <<v, 2>> \in K
  BY MadeKeys DEF Keys
<1>3. \A q \in Operators(expr) : <<q, 3>> \in K
  BY MadeKeys DEF Keys
<1>4. edge = <<edge[1], edge[2]>>
  BY EdgePair
<1> SUFFICES /\ FromKey(expr, edge) = None => w \in 1 .. ni
             /\ FromKey(expr, edge) = None \/ FromKey(expr, edge) \in K
  OBVIOUS
<1> HIDE DEF K
<1>5. CASE BufferLine(expr, ni, edge)
  BY <1>5 DEF BufferLine
<1>6. CASE InverterLine(expr, ni, edge)
  BY <1>1, <1>6 DEF InverterLine
<1>7. CASE OperatorLine(expr, edge)
  <2>1. edge # None
    BY <1>7 DEF OperatorLine, None
  <2>2. edge = <<edge[1], 3>> /\ edge[1] \in Operators(expr) /\ FromKey(expr, edge) = edge
    BY <1>4, <1>7 DEF OperatorLine
  <2> QED BY <1>3, <2>1, <2>2
<1>8. CASE PositiveLine(expr, ni, edge)
  BY <1>1, <1>8 DEF PositiveLine
<1>9. CASE NegativeLine(expr, ni, edge)
  BY <1>2, <1>9 DEF NegativeLine
<1>10. w \in 1 .. ni \/ OperatorLine(expr, edge)
  BY LineKinds DEF BufferLine, InverterLine, PositiveLine, NegativeLine
<1> QED BY <1>5, <1>6, <1>7, <1>8, <1>9, LineKinds

\* Every input feeds one line of the gate.
InputLine(expr, w) ==
  IF Buffered(expr, w) THEN <<w, 1>> ELSE IF Inverted(expr, w) THEN <<w, 2>>
  ELSE <<CHOOSE e : IsVar(expr, e, w), 3>>
LEMMA InputLineFacts ==
  ASSUME NEW expr, NEW ni \in Nat, ProperExpr(expr, ni), NEW w \in 1 .. ni
  PROVE  /\ InputLine(expr, w) \in EdgesFrom(expr, ni, None) /\ InputOf(expr, InputLine(expr, w)) = w
         /\ \A edge \in EdgesFrom(expr, ni, None) : InputOf(expr, edge) = w => edge = InputLine(expr, w)
<1> DEFINE line == InputLine(expr, w)
           E == EdgesFrom(expr, ni, None)
<1>4. ASSUME NEW edge \in EdgesFrom(expr, ni, None), InputOf(expr, edge) = w PROVE edge = line
  <2>1. edge \in Edges(expr, ni) /\ FromKey(expr, edge) = None
    BY DEF EdgesFrom
  <2>2. edge = <<edge[1], edge[2]>>
    BY <2>1, EdgePair
  <2>3. CASE BufferLine(expr, ni, edge)
    <3>1. edge[1] = w /\ edge[2] = 1 /\ Buffered(expr, w)
      BY <1>4, <2>3 DEF BufferLine
    <3> QED BY <2>2, <3>1 DEF InputLine
  <2>4. CASE InverterLine(expr, ni, edge)
    <3>1. edge[1] = w /\ edge[2] = 2 /\ Inverted(expr, w) /\ FromPositive(expr, w) = None /\ w # 0
      BY <1>4, <2>1, <2>4 DEF InverterLine
    <3>2. ~ Buffered(expr, w)
      BY <3>1 DEF FromPositive, None
    <3> QED BY <2>2, <3>1, <3>2 DEF InputLine
  <2>5. CASE OperatorLine(expr, edge)
    BY <2>1, <2>5 DEF OperatorLine, None
  <2>6. CASE PositiveLine(expr, ni, edge)
    <3>1. edge[2] = 3 /\ IsVar(expr, edge[1], w) /\ FromPositive(expr, w) = None /\ w # 0
      BY <1>4, <2>1, <2>6 DEF PositiveLine
    <3>2. ~ Buffered(expr, w)
      BY <3>1 DEF FromPositive, None
    <3>3. ~ Inverted(expr, w)
      BY <3>1, <3>2, LitCounts
    <3>4. PICK e : \A d : IsVar(expr, d, w) <=> d = e
      BY <3>2, <3>3, LitCounts
    <3>5. (CHOOSE d : IsVar(expr, d, w)) = e /\ edge[1] = e
      BY <3>1, <3>4
    <3> QED BY <2>2, <3>1, <3>2, <3>3, <3>5 DEF InputLine
  <2>7. CASE NegativeLine(expr, ni, edge)
    BY <2>1, <2>7 DEF NegativeLine, None
  <2> QED BY <2>1, <2>3, <2>4, <2>5, <2>6, <2>7, LineKinds
<1>1. CASE Buffered(expr, w)
  <2>1. line = <<w, 1>>
    BY <1>1 DEF InputLine
  <2>2. line \in Edges(expr, ni)
    BY <1>1, <2>1, MadeKeys DEF Edges
  <2>3. FromKey(expr, line) = None /\ InputOf(expr, line) = w
    <3> HIDE DEF line
    <3> QED BY <2>1 DEF FromKey, InputOf
  <2>4. line \in E
    BY <2>2, <2>3 DEF EdgesFrom
  <2> QED BY <1>4, <2>3, <2>4
<1>2. CASE ~ Buffered(expr, w) /\ Inverted(expr, w)
  <2>1. line = <<w, 2>>
    BY <1>2 DEF InputLine
  <2>2. line \in Edges(expr, ni)
    BY <1>2, <2>1, MadeKeys DEF Edges
  <2>3. FromKey(expr, line) = None /\ InputOf(expr, line) = w
    <3> HIDE DEF line
    <3> QED BY <1>2, <2>1 DEF FromKey, InputOf, FromPositive
  <2>4. line \in E
    BY <2>2, <2>3 DEF EdgesFrom
  <2> QED BY <1>4, <2>3, <2>4
<1>3. CASE ~ Buffered(expr, w) /\ ~ Inverted(expr, w)
  <2>1. PICK e : \A d : IsVar(expr, d, w) <=> d = e
    BY <1>3, LitCounts
  <2>2. line = <<e, 3>>
    BY <1>3, <2>1 DEF InputLine
  <2>3. e \in DOMAIN expr /\ expr[e].op = "Var" /\ expr[e].var = w
    BY <2>1 DEF IsVar
  <2>4. e \notin Operators(expr)
    BY <2>3 DEF Operators
  <2>5. line \in Edges(expr, ni)
    <3>1. Len(expr) \in Operators(expr)
      BY ExprFacts
    <3>2. e # Len(expr)
      BY <2>4, <3>1
    <3>3. <<e, 3>> \in Operands(expr)
      BY <2>3, <3>2, MadeKeys
    <3> QED BY <2>2, <3>3 DEF Edges
  <2>6. FromKey(expr, line) = None /\ InputOf(expr, line) = w
    BY <1>3, <2>2, <2>3, <2>4 DEF FromKey, FromPositive, InputOf
  <2>7. line \in E
    BY <2>5, <2>6 DEF EdgesFrom
  <2> QED BY <1>4, <2>6, <2>7
<1> QED BY <1>1, <1>2, <1>3, <1>4

\* A set of keys that stand for the numbers in S.
LEMMA KeyCount ==
  ASSUME NEW S, IsFiniteSet(S), NEW t
  PROVE  IsFiniteSet({<<x, t>> : x \in S}) /\ Cardinality({<<x, t>> : x \in S}) = Cardinality(S)
<1> DEFINE f == [x \in S |-> <<x, t>>]
           K == {<<x, t>> : x \in S}
<1>1. \A x \in S : f[x] \in K
  OBVIOUS
<1>2. \A x, y \in S : f[x] = f[y] => x = y
  OBVIOUS
<1>3. \A y \in K : \E x \in S : f[x] = y
  OBVIOUS
<1> HIDE DEF f, K
<1>4. IsFiniteSet(K) /\ Cardinality(K) = Cardinality(S)
  BY <1>1, <1>2, <1>3, SameCount DEF OneToOne
<1> QED BY <1>4 DEF K

\* Every node of the gate feeds as many lines as it has room for.
RoomOf(expr, key) ==
  IF key[2] = 1 THEN BufferNum(expr, key[1])
  ELSE IF key[2] = 2 THEN LitNum(expr, key[1], "Neg")
  ELSE 1
LEMMA LinesFrom ==
  ASSUME NEW expr, NEW ni \in Nat, ProperExpr(expr, ni), NEW key \in Keys(expr, ni, Len(expr))
  PROVE  /\ key = <<Len(expr), 3>> => EdgesFrom(expr, ni, key) = {}
         /\ key # <<Len(expr), 3>> => /\ IsFiniteSet(EdgesFrom(expr, ni, key))
                                      /\ Cardinality(EdgesFrom(expr, ni, key)) = RoomOf(expr, key)
<1> DEFINE E == EdgesFrom(expr, ni, key)
           x == key[1]
           Vars == {e \in DOMAIN expr : expr[e].op = "Var" /\ expr[e].var = x}
           Negs == {e \in DOMAIN expr : expr[e].op = "Neg" /\ expr[e].var = x}
           K(S) == {<<e, 3>> : e \in S}
<1>1. key = <<x, key[2]>> /\ key[2] \in {1, 2, 3}
  BY EdgePair
<1>2. \A edge \in E : edge \in Edges(expr, ni) /\ FromKey(expr, edge) = key /\ edge = <<edge[1], edge[2]>>
  BY EdgePair DEF EdgesFrom
<1>3. Len(expr) \in Operators(expr)
  BY ExprFacts
<1>4. \A e \in DOMAIN expr : expr[e].op \in {"Var", "Neg"} => <<e, 3>> \in Edges(expr, ni) /\ e \notin Operators(expr)
  <2>1. \A e \in DOMAIN expr : expr[e].op \in {"Var", "Neg"} => e \notin Operators(expr)
    BY DEF Operators
  <2> QED BY <1>3, <2>1, MadeKeys DEF Edges
<1>5. IsFiniteSet(Vars) /\ IsFiniteSet(Negs)
  <2> DEFINE n == Len(expr)
  <2>1. Vars \subseteq 1 .. n /\ Negs \subseteq 1 .. n /\ n \in Nat
    BY OperatorFacts
  <2> HIDE DEF Vars, Negs, n
  <2> QED BY <2>1, PrefixFinite
<1>6. LitNum(expr, x, "Var") = Cardinality(Vars) /\ LitNum(expr, x, "Neg") = Cardinality(Negs)
  BY DEF LitNum
<1>7. \A S : IsFiniteSet(S) => IsFiniteSet(K(S)) /\ Cardinality(K(S)) = Cardinality(S)
  BY KeyCount
<1>8. CASE key[2] = 1
  <2>1. x \in 1 .. ni /\ Buffered(expr, x) /\ key = <<x, 1>>
    BY <1>1, <1>8 DEF Keys, BufferKeys, InverterKeys, OperatorKeys
  <2> DEFINE inv == <<x, 2>>
             more == IF Inverted(expr, x) THEN {inv} ELSE {}
  <2>2. \A edge \in E : edge \in K(Vars) \cup more
    <3> SUFFICES ASSUME NEW edge \in E PROVE edge \in K(Vars) \cup more
      OBVIOUS
    <3>1. CASE BufferLine(expr, ni, edge)
      BY <1>2, <2>1, <3>1 DEF BufferLine, None
    <3>2. CASE InverterLine(expr, ni, edge)
      <4>1. edge[1] = x /\ Inverted(expr, x) /\ edge[2] = 2
        BY <1>2, <2>1, <3>2 DEF InverterLine, FromPositive, None
      <4> QED BY <1>2, <4>1
    <3>3. CASE OperatorLine(expr, edge)
      BY <1>2, <1>8, <3>3 DEF OperatorLine
    <3>4. CASE PositiveLine(expr, ni, edge)
      <4>1. InputOf(expr, edge) = x
        BY <1>2, <2>1, <3>4 DEF PositiveLine, FromPositive, None
      <4>2. edge[2] = 3 /\ edge[1] \in Vars
        BY <3>4, <4>1 DEF PositiveLine, IsVar
      <4> QED BY <1>2, <4>2
    <3>5. CASE NegativeLine(expr, ni, edge)
      BY <1>2, <2>1, <3>5 DEF NegativeLine
    <3> QED BY <1>2, <3>1, <3>2, <3>3, <3>4, <3>5, LineKinds
  <2>3. \A e \in Vars : <<e, 3>> \in E
    <3> SUFFICES ASSUME NEW e \in Vars PROVE <<e, 3>> \in E
      OBVIOUS
    <3>1. <<e, 3>> \in Edges(expr, ni) /\ e \notin Operators(expr)
      BY <1>4
    <3>2. FromKey(expr, <<e, 3>>) = key
      BY <2>1, <3>1 DEF FromKey, FromPositive
    <3> QED BY <3>1, <3>2 DEF EdgesFrom
  <2>4. Inverted(expr, x) => inv \in E
    <3>1. Inverted(expr, x) => inv \in Edges(expr, ni)
      BY <2>1, MadeKeys DEF Edges
    <3> QED BY <2>1, <3>1 DEF EdgesFrom, FromKey, FromPositive
  <2>5. E = K(Vars) \cup more
    <3> HIDE DEF E, inv, Vars
    <3> QED BY <2>2, <2>3, <2>4
  <2>6. inv \notin K(Vars)
    OBVIOUS
  <2>7. IsFiniteSet(K(Vars)) /\ Cardinality(K(Vars)) = LitNum(expr, x, "Var")
    BY <1>5, <1>6, <1>7
  <2> DEFINE V == K(Vars)
  <2> HIDE DEF inv, V, E
  <2>8. IsFiniteSet(V \cup {inv}) /\ Cardinality(V \cup {inv}) = Cardinality(V) + 1
    BY <2>6, <2>7, FS_AddElement DEF V
  <2>9. IsFiniteSet(E) /\ Cardinality(E) = BufferNum(expr, x)
    <3>1. CASE Inverted(expr, x)
      <4>1. E = V \cup {inv}
        BY <2>5, <3>1 DEF V
      <4> QED BY <2>7, <2>8, <3>1, <4>1 DEF BufferNum, V
    <3>2. CASE ~ Inverted(expr, x)
      <4>1. E = V
        BY <2>5, <3>2 DEF V
      <4> QED BY <2>7, <3>2, <4>1 DEF BufferNum, V
    <3> QED BY <3>1, <3>2
  <2> QED BY <1>8, <2>1, <2>9 DEF RoomOf, E
<1>9. CASE key[2] = 2
  <2>1. x \in 1 .. ni /\ Inverted(expr, x) /\ key = <<x, 2>>
    BY <1>1, <1>9 DEF Keys, BufferKeys, InverterKeys, OperatorKeys
  <2>2. \A edge \in E : edge \in K(Negs)
    <3> SUFFICES ASSUME NEW edge \in E PROVE edge \in K(Negs)
      OBVIOUS
    <3>1. CASE BufferLine(expr, ni, edge)
      BY <1>2, <2>1, <3>1 DEF BufferLine, None
    <3>2. CASE InverterLine(expr, ni, edge)
      BY <1>2, <2>1, <3>2 DEF InverterLine, FromPositive, None
    <3>3. CASE OperatorLine(expr, edge)
      BY <1>2, <1>9, <3>3 DEF OperatorLine
    <3>4. CASE PositiveLine(expr, ni, edge)
      BY <1>2, <2>1, <3>4 DEF PositiveLine, FromPositive, None
    <3>5. CASE NegativeLine(expr, ni, edge)
      <4>1. InputOf(expr, edge) = x
        BY <1>2, <2>1, <3>5 DEF NegativeLine
      <4>2. edge[2] = 3 /\ edge[1] \in Negs
        BY <3>5, <4>1 DEF NegativeLine
      <4> QED BY <1>2, <4>2
    <3> QED BY <1>2, <3>1, <3>2, <3>3, <3>4, <3>5, LineKinds
  <2>3. \A e \in Negs : <<e, 3>> \in E
    <3> SUFFICES ASSUME NEW e \in Negs PROVE <<e, 3>> \in E
      OBVIOUS
    <3>1. <<e, 3>> \in Edges(expr, ni) /\ e \notin Operators(expr)
      BY <1>4
    <3>2. FromKey(expr, <<e, 3>>) = key
      BY <2>1, <3>1 DEF FromKey
    <3> QED BY <3>1, <3>2 DEF EdgesFrom
  <2>4. E = K(Negs)
    <3> HIDE DEF E, Negs
    <3> QED BY <2>2, <2>3
  <2>5. IsFiniteSet(E) /\ Cardinality(E) = LitNum(expr, x, "Neg")
    <3> HIDE DEF E
    <3> QED BY <1>5, <1>6, <1>7, <2>4
  <2> QED BY <1>9, <2>1, <2>5 DEF RoomOf, E
<1>10. CASE key[2] = 3
  <2>1. x \in Operators(expr) /\ key = <<x, 3>>
    BY <1>1, <1>10 DEF Keys, BufferKeys, InverterKeys, OperatorKeys
  <2>2. \A edge \in E : edge = key /\ x # Len(expr)
    <3> SUFFICES ASSUME NEW edge \in E PROVE edge = key /\ x # Len(expr)
      OBVIOUS
    <3>1. CASE BufferLine(expr, ni, edge)
      BY <1>2, <2>1, <3>1 DEF BufferLine, None
    <3>2. CASE InverterLine(expr, ni, edge)
      BY <1>2, <2>1, <3>2 DEF InverterLine, FromPositive, None
    <3>3. CASE OperatorLine(expr, edge)
      BY <1>2, <3>3 DEF OperatorLine
    <3>4. CASE PositiveLine(expr, ni, edge)
      BY <1>2, <2>1, <3>4 DEF PositiveLine, FromPositive, None
    <3>5. CASE NegativeLine(expr, ni, edge)
      BY <1>2, <2>1, <3>5 DEF NegativeLine
    <3> QED BY <1>2, <3>1, <3>2, <3>3, <3>4, <3>5, LineKinds
  <2>3. x # Len(expr) => key \in E
    <3>1. x # Len(expr) => key \in Edges(expr, ni)
      <4>1. x \in DOMAIN expr
        BY <2>1 DEF Operators
      <4> QED BY <2>1, <4>1, MadeKeys DEF Edges
    <3> QED BY <2>1, <3>1 DEF EdgesFrom, FromKey
  <2> HIDE DEF E
  <2>4. x = Len(expr) => E = {}
    BY <2>2
  <2>5. x # Len(expr) => E = {key}
    BY <2>2, <2>3
  <2>6. IsFiniteSet({key}) /\ Cardinality({key}) = 1
    BY FS_Singleton
  <2>7. key = <<Len(expr), 3>> <=> x = Len(expr)
    BY <2>1
  <2>8. RoomOf(expr, key) = 1
    BY <1>10 DEF RoomOf
  <2> QED BY <2>4, <2>5, <2>6, <2>7, <2>8 DEF E
<1> QED BY <1>1, <1>8, <1>9, <1>10

\* The gate has as many nodes as were counted.
LEMMA KeyNumber ==
  ASSUME NEW expr, NEW ni \in Nat, ProperExpr(expr, ni)
  PROVE  Cardinality(Keys(expr, ni, Len(expr))) = 1 + ExtraNodeCount(expr, ni) /\ ExtraNodeCount(expr, ni) \in Nat
<1> DEFINE n == Len(expr)
           Buff == {w \in 1 .. ni : Buffered(expr, w)}
           Inv == {w \in 1 .. ni : Inverted(expr, w)}
           Ops_ == Operators(expr)
           B == {<<x, 1>> : x \in Buff}
           I == {<<x, 2>> : x \in Inv}
           O == {<<x, 3>> : x \in Ops_}
<1>1. DOMAIN expr = 1 .. n /\ n \in Nat /\ \A q \in Ops_ : q \in Nat /\ q <= n
  BY OperatorFacts DEF Operators
<1>2. IsFiniteSet(Buff) /\ IsFiniteSet(Inv) /\ IsFiniteSet(Ops_)
  <2>1. Buff \subseteq 1 .. ni /\ Inv \subseteq 1 .. ni /\ Ops_ \subseteq 1 .. n
    BY <1>1 DEF Operators
  <2> HIDE DEF Buff, Inv, Ops_, n
  <2> QED BY <1>1, <2>1, PrefixFinite
<1>3. BufferKeys(expr, ni) = B
  <2>1. \A key \in BufferKeys(expr, ni) : key \in B
    BY DEF BufferKeys, KeySpace
  <2>2. \A key \in B : key \in BufferKeys(expr, ni)
    BY MadeKeys
  <2> QED BY <2>1, <2>2
<1>4. InverterKeys(expr, ni) = I
  <2>1. \A key \in InverterKeys(expr, ni) : key \in I
    BY DEF InverterKeys, KeySpace
  <2>2. \A key \in I : key \in InverterKeys(expr, ni)
    BY MadeKeys
  <2> QED BY <2>1, <2>2
<1>5. OperatorKeys(expr, n) = O
  <2>1. \A key \in OperatorKeys(expr, n) : key \in O
    BY DEF OperatorKeys, KeySpace
  <2>2. \A key \in O : key \in OperatorKeys(expr, n)
    BY MadeKeys
  <2> QED BY <2>1, <2>2
<1>6. /\ IsFiniteSet(B) /\ Cardinality(B) = Cardinality(Buff)
      /\ IsFiniteSet(I) /\ Cardinality(I) = Cardinality(Inv)
      /\ IsFiniteSet(O) /\ Cardinality(O) = Cardinality(Ops_)
  <2> HIDE DEF Buff, Inv, Ops_
  <2>1. IsFiniteSet(B) /\ Cardinality(B) = Cardinality(Buff)
    BY <1>2, KeyCount
  <2>2. IsFiniteSet(I) /\ Cardinality(I) = Cardinality(Inv)
    BY <1>2, KeyCount
  <2>3. IsFiniteSet(O) /\ Cardinality(O) = Cardinality(Ops_)
    BY <1>2, KeyCount
  <2> QED BY <2>1, <2>2, <2>3
<1>7. B \cap I = {} /\ (B \cup I) \cap O = {}
  OBVIOUS
<1>8. Keys(expr, ni, n) = (B \cup I) \cup O
  BY <1>3, <1>4, <1>5 DEF Keys
<1>9. ExtraNodeCount(expr, ni) = Cardinality(Buff) + Cardinality(Inv) + Cardinality(Ops_) - 1
  <2>1. Buff = {v \in 1 .. ni : LitNum(expr, v, "Var") > (IF LitNum(expr, v, "Neg") > 0 THEN 0 ELSE 1)}
    <3>1. \A w \in 1 .. ni : Buffered(expr, w) <=> LitNum(expr, w, "Var") > (IF LitNum(expr, w, "Neg") > 0 THEN 0 ELSE 1)
      BY LitCounts DEF Inverted
    <3> QED BY <3>1
  <2>2. Inv = {v \in 1 .. ni : LitNum(expr, v, "Neg") > 0}
    BY DEF Inverted
  <2> HIDE DEF Buff, Inv, Ops_
  <2> QED BY <2>1, <2>2 DEF ExtraNodeCount, Ops_
<1>10. Cardinality(Buff) \in Nat /\ Cardinality(Inv) \in Nat /\ Cardinality(Ops_) \in Nat /\ Cardinality(Ops_) # 0
  <2>1. Ops_ # {}
    BY ExprFacts
  <2> HIDE DEF Buff, Inv, Ops_
  <2> QED BY <1>2, <2>1, FS_CardinalityType, FS_EmptySet
<1> HIDE DEF Buff, Inv, Ops_, B, I, O
<1>11. IsFiniteSet(B \cup I) /\ Cardinality(B \cup I) = Cardinality(B) + Cardinality(I)
  BY <1>6, <1>7, DisjointCount
<1>12. Cardinality((B \cup I) \cup O) = Cardinality(B \cup I) + Cardinality(O)
  BY <1>6, <1>7, <1>11, DisjointCount
<1>13. Cardinality(Keys(expr, ni, n)) = Cardinality(Buff) + Cardinality(Inv) + Cardinality(Ops_)
  BY <1>6, <1>8, <1>11, <1>12
<1>14. ExtraNodeCount(expr, ni) \in Nat
  BY <1>9, <1>10
<1> HIDE DEF n
<1>15. Cardinality(Keys(expr, ni, n)) = 1 + ExtraNodeCount(expr, ni)
  BY <1>9, <1>10, <1>13
<1> QED BY <1>14, <1>15 DEF n

-----------------------------------------------------------------------------
(* What a gate that is made feeds, and what feeds it.                      *)

PinsBeyond(old, nodes) == {p \in PinsOf(nodes) : p[1] \notin DOMAIN old}
FedBy(fanin, m) == {k \in DOMAIN fanin : fanin[k] = m}
\* The gate with these fanins takes its extra nodes and a last one, which is left
\* with all its room, while that of the others is used up.
GateFed(before, c, fanin, nfo, extra) ==
  /\ Len(c.node) = Len(before) + 1 + extra /\ extra \in Nat
  /\ Top(c) \in DOMAIN c.node /\ Top(c) \notin DOMAIN before /\ c.node[Top(c)].nfo = nfo
  /\ \A m \in DOMAIN before : Cardinality(NewPins(before, c.node, m)) = Cardinality(FedBy(fanin, m))
  /\ NewPins(before, c.node, Top(c)) = {}
  /\ \A m \in DOMAIN c.node : m \notin DOMAIN before /\ m # Top(c) =>
       Cardinality(NewPins(before, c.node, m)) = c.node[m].nfo

\* A complex gate that is complete.
Complete(b, expr, fanin, nfo, c) ==
  /\ Sound(b) /\ Fed(b.node, fanin) /\ ProperExpr(expr, Len(fanin))
  /\ ExprShape(b.node, expr, fanin, nfo, Len(fanin), Len(expr), c)
  /\ NodesDone(b.node, expr, Len(fanin), Len(expr), c)
RecordOf(expr, fanin, nfo, c, key) ==
  IF key[2] = 1 THEN NewNode("Buff", <<fanin[key[1]]>>, BufferNum(expr, key[1]))
  ELSE IF key[2] = 2 THEN NewNode("Not", <<c.leaf[key[1]][1]>>, LitNum(expr, key[1], "Neg"))
  ELSE NewNode(expr[key[1]].op, OperandsOf(c, expr, key[1]), IF key[1] = Len(expr) THEN nfo ELSE 1)

LEMMA KeyNodes ==
  ASSUME NEW b, NEW expr, NEW fanin, NEW nfo, NEW c, Complete(b, expr, fanin, nfo, c),
         NEW K, K = Keys(expr, Len(fanin), Len(expr))
  PROVE  /\ \A key \in K : /\ KeyLine(c, key) \in DOMAIN c.node /\ KeyLine(c, key) \notin DOMAIN b.node
                           /\ c.node[KeyLine(c, key)] = RecordOf(expr, fanin, nfo, c, key)
         /\ \A key, other \in K : KeyLine(c, key) = KeyLine(c, other) => key = other
         /\ \A m \in DOMAIN c.node : m \notin DOMAIN b.node => \E key \in K : KeyLine(c, key) = m
<1> DEFINE ni == Len(fanin)
           n == Len(expr)
           lo == Len(b.node)
           hi == Len(c.node)
<1>1. ni \in Nat /\ ProperExpr(expr, ni)
  BY DEF Complete, Fed
<1>2. b.node \in Seq(NodeRecs) /\ c.node \in Seq(NodeRecs) /\ Grown(b.node, c.node)
  BY DEF Complete, NodesDone, Sound, Builds
<1>3. DOMAIN b.node = 1 .. lo /\ DOMAIN c.node = 1 .. hi /\ lo \in Nat /\ hi \in Nat /\ lo <= hi
  BY <1>2 DEF Grown
<1>4. Numbers(LinesOf(c), K, lo, hi)
  BY DEF Complete, ExprShape
<1>5. \A key \in K : key \in KeySpace /\ LinesOf(c)[key] = KeyLine(c, key)
  <2>1. \A key \in K : key \in KeySpace
    BY <1>1, EdgePair
  <2> QED BY <2>1 DEF LinesOf
<1>6. \A m : m \in lo + 1 .. hi <=> m \in DOMAIN c.node /\ m \notin DOMAIN b.node
  BY <1>3
<1>7. /\ \A key \in K : KeyLine(c, key) \in lo + 1 .. hi
      /\ \A key, other \in K : KeyLine(c, key) = KeyLine(c, other) => key = other
      /\ \A m \in lo + 1 .. hi : \E key \in K : KeyLine(c, key) = m
  <2> HIDE DEF lo, hi
  <2> QED BY <1>4, <1>5 DEF Numbers, OneToOne
<1>8. ASSUME NEW key \in K PROVE c.node[KeyLine(c, key)] = RecordOf(expr, fanin, nfo, c, key)
  <2>1. CASE key \in BufferKeys(expr, ni)
    <3>1. key[2] = 1 /\ key[1] \in 1 .. ni /\ Buffered(expr, key[1])
      BY <2>1 DEF BufferKeys
    <3>2. LeafNodes(c, expr, fanin, key[1])
      BY <3>1 DEF Complete, ExprShape
    <3> QED BY <3>1, <3>2 DEF LeafNodes, KeyLine, RecordOf
  <2>2. CASE key \in InverterKeys(expr, ni)
    <3>1. key[2] = 2 /\ key[1] \in 1 .. ni /\ Inverted(expr, key[1])
      BY <2>2 DEF InverterKeys
    <3>2. LeafNodes(c, expr, fanin, key[1])
      BY <3>1 DEF Complete, ExprShape
    <3> QED BY <3>1, <3>2 DEF LeafNodes, KeyLine, RecordOf
  <2>3. CASE key \in OperatorKeys(expr, n)
    <3>1. key[2] = 3 /\ key[1] \in Operators(expr)
      BY <2>3 DEF OperatorKeys
    <3>2. key[1] \in 1 .. n
      BY <1>1, <3>1, OperatorFacts
    <3>3. PositionIs(c, expr, nfo, key[1])
      BY <3>2 DEF Complete, ExprShape
    <3> QED BY <3>1, <3>3 DEF PositionIs, KeyLine, RecordOf
  <2> QED BY <2>1, <2>2, <2>3 DEF Keys
<1> QED BY <1>6, <1>7, <1>8

\* The pin at the end of each line.
PinKey(slot, edge) == IF edge[2] = 3 THEN <<slot[edge[1]][1], 3>> ELSE edge
PinPlace(slot, edge) == IF edge[2] = 3 THEN slot[edge[1]][2] ELSE 1
PinOfLine(c, slot, edge) == <<KeyLine(c, PinKey(slot, edge)), PinPlace(slot, edge)>>

LEMMA LinePin ==
  ASSUME NEW b, NEW expr, NEW fanin, NEW nfo, NEW c, Complete(b, expr, fanin, nfo, c),
         NEW slot, SlotsOf(expr, slot), NEW edge \in Edges(expr, Len(fanin))
  PROVE  /\ PinKey(slot, edge) \in Keys(expr, Len(fanin), Len(expr))
         /\ PinOfLine(c, slot, edge) \in PinsBeyond(b.node, c.node)
         /\ Line(c.node, PinOfLine(c, slot, edge)) =
              IF FromKey(expr, edge) = None THEN fanin[InputOf(expr, edge)] ELSE KeyLine(c, FromKey(expr, edge))
<1> DEFINE ni == Len(fanin)
           K == Keys(expr, ni, Len(expr))
           key == PinKey(slot, edge)
           j == PinPlace(slot, edge)
           m == KeyLine(c, key)
           From == IF FromKey(expr, edge) = None THEN fanin[InputOf(expr, edge)] ELSE KeyLine(c, FromKey(expr, edge))
<1>1. ni \in Nat /\ ProperExpr(expr, ni) /\ c.node \in Seq(NodeRecs)
  BY DEF Complete, Fed, NodesDone, Sound, Builds
<1>2. edge \in KeySpace /\ edge = <<edge[1], edge[2]>>
  BY <1>1, EdgePair
<1>3. \A k \in K : /\ KeyLine(c, k) \in DOMAIN c.node /\ KeyLine(c, k) \notin DOMAIN b.node
                   /\ c.node[KeyLine(c, k)] = RecordOf(expr, fanin, nfo, c, k)
  BY KeyNodes
<1>4. ASSUME key \in K, j \in Nat, j \in DOMAIN RecordOf(expr, fanin, nfo, c, key).fanin,
             RecordOf(expr, fanin, nfo, c, key).fanin[j] = From
      PROVE  PinOfLine(c, slot, edge) \in PinsBeyond(b.node, c.node) /\ Line(c.node, PinOfLine(c, slot, edge)) = From
  <2>1. m \in DOMAIN c.node /\ m \notin DOMAIN b.node /\ c.node[m] = RecordOf(expr, fanin, nfo, c, key)
    BY <1>3, <1>4
  <2>2. PinOfLine(c, slot, edge) = <<m, j>>
    BY DEF PinOfLine
  <2> HIDE DEF m, j, key, From
  <2>3. <<m, j>> \in PinsOf(c.node)
    BY <1>4, <2>1 DEF PinsOf
  <2>4. <<m, j>>[1] = m /\ <<m, j>>[2] = j
    OBVIOUS
  <2>5. <<m, j>> \in PinsBeyond(b.node, c.node)
    BY <2>1, <2>3, <2>4 DEF PinsBeyond
  <2>6. Line(c.node, <<m, j>>) = From
    BY <1>4, <2>1, <2>4 DEF Line
  <2> QED BY <2>2, <2>5, <2>6
<1>5. \A w \in 1 .. ni : LeafNodes(c, expr, fanin, w)
  BY DEF Complete, ExprShape
<1>6. CASE edge \in BufferKeys(expr, ni)
  <2>1. edge[2] = 1 /\ edge[1] \in 1 .. ni
    BY <1>6 DEF BufferKeys
  <2>2. key = edge /\ j = 1 /\ key \in K
    BY <1>6, <2>1 DEF PinKey, PinPlace, Keys
  <2>3. From = fanin[edge[1]]
    BY <2>1 DEF FromKey, InputOf
  <2> HIDE DEF From, key, j, K
  <2>4. RecordOf(expr, fanin, nfo, c, key).fanin = <<fanin[edge[1]]>>
    BY <2>1, <2>2 DEF RecordOf, NewNode
  <2>5. j \in Nat /\ j \in DOMAIN RecordOf(expr, fanin, nfo, c, key).fanin /\ RecordOf(expr, fanin, nfo, c, key).fanin[j] = From
    BY <2>2, <2>3, <2>4
  <2> QED BY <1>4, <2>2, <2>5 DEF From, key, K
<1>7. CASE edge \in InverterKeys(expr, ni)
  <2>1. edge[2] = 2 /\ edge[1] \in 1 .. ni
    BY <1>7 DEF InverterKeys
  <2>2. key = edge /\ j = 1 /\ key \in K
    BY <1>7, <2>1 DEF PinKey, PinPlace, Keys
  <2>3. From = c.leaf[edge[1]][1]
    <3>1. FromKey(expr, edge) = FromPositive(expr, edge[1]) /\ InputOf(expr, edge) = edge[1]
      BY <2>1 DEF FromKey, InputOf
    <3>2. CASE Buffered(expr, edge[1])
      <4>1. FromKey(expr, edge) = <<edge[1], 1>> /\ <<edge[1], 1>> # None
        BY <3>1, <3>2 DEF FromPositive, None
      <4> QED BY <4>1 DEF KeyLine
    <3>3. CASE ~ Buffered(expr, edge[1])
      <4>1. FromKey(expr, edge) = None
        BY <3>1, <3>3 DEF FromPositive
      <4> QED BY <1>5, <2>1, <3>1, <3>3, <4>1 DEF LeafNodes
    <3> QED BY <3>2, <3>3
  <2> HIDE DEF From, key, j, K
  <2>4. RecordOf(expr, fanin, nfo, c, key).fanin = <<c.leaf[edge[1]][1]>>
    BY <2>1, <2>2 DEF RecordOf, NewNode
  <2>5. j \in Nat /\ j \in DOMAIN RecordOf(expr, fanin, nfo, c, key).fanin /\ RecordOf(expr, fanin, nfo, c, key).fanin[j] = From
    BY <2>2, <2>3, <2>4
  <2> QED BY <1>4, <2>2, <2>5 DEF From, key, K
<1>8. CASE edge \in Operands(expr)
  <2> DEFINE e == edge[1]
             q == slot[e][1]
  <2>1. edge[2] = 3 /\ e \in DOMAIN expr /\ e # Len(expr)
    BY <1>8 DEF Operands
  <2>2. q \in Operators(expr) /\ slot[e][2] \in DOMAIN expr[q].kids /\ expr[q].kids[slot[e][2]] = e
    BY <2>1 DEF SlotsOf
  <2>3. key = <<q, 3>> /\ j = slot[e][2]
    BY <2>1 DEF PinKey, PinPlace
  <2>4. key \in K
    BY <1>1, <2>2, <2>3, MadeKeys DEF Keys
  <2>5. j \in Nat
    <3>1. DOMAIN expr[q].kids = 1 .. Len(expr[q].kids)
      BY <1>1, <2>2, OperatorFacts
    <3> QED BY <2>2, <2>3, <3>1
  <2>6. PositionIs(c, expr, nfo, e)
    <3>1. e \in 1 .. Len(expr)
      BY <1>1, <2>1, OperatorFacts
    <3> QED BY <3>1 DEF Complete, ExprShape
  <2>7. From = c.at[e]
    <3>1. CASE e \in Operators(expr)
      <4>1. FromKey(expr, edge) = edge /\ edge # None
        BY <2>1, <3>1 DEF FromKey, None
      <4> QED BY <2>1, <4>1 DEF KeyLine
    <3>2. CASE e \notin Operators(expr) /\ expr[e].op = "Neg"
      <4>1. FromKey(expr, edge) = <<expr[e].var, 2>> /\ <<expr[e].var, 2>> # None
        BY <2>1, <3>2 DEF FromKey, None
      <4>2. c.at[e] = c.leaf[expr[e].var][2]
        BY <2>6, <3>2 DEF PositionIs
      <4> QED BY <4>1, <4>2 DEF KeyLine
    <3>3. CASE e \notin Operators(expr) /\ expr[e].op # "Neg"
      <4> DEFINE w == expr[e].var
      <4>1. FromKey(expr, edge) = FromPositive(expr, w) /\ InputOf(expr, edge) = w
        BY <2>1, <3>3 DEF FromKey, InputOf
      <4>2. w \in 1 .. ni /\ expr[e].op = "Var"
        BY <1>1, <2>1, <3>3, ExprFacts
      <4>3. c.at[e] = c.leaf[w][1]
        BY <2>6, <3>3, <4>2 DEF PositionIs
      <4>4. CASE Buffered(expr, w)
        <5>1. FromKey(expr, edge) = <<w, 1>> /\ <<w, 1>> # None
          BY <4>1, <4>4 DEF FromPositive, None
        <5> QED BY <4>3, <5>1 DEF KeyLine
      <4>5. CASE ~ Buffered(expr, w)
        <5>1. FromKey(expr, edge) = None
          BY <4>1, <4>5 DEF FromPositive
        <5> QED BY <1>5, <4>1, <4>2, <4>3, <4>5, <5>1 DEF LeafNodes
      <4> QED BY <4>4, <4>5
    <3> QED BY <3>1, <3>2, <3>3
  <2> HIDE DEF From, key, j, K
  <2>8. RecordOf(expr, fanin, nfo, c, key).fanin = OperandsOf(c, expr, q)
    BY <2>3 DEF RecordOf, NewNode
  <2>9. j \in DOMAIN RecordOf(expr, fanin, nfo, c, key).fanin /\ RecordOf(expr, fanin, nfo, c, key).fanin[j] = From
    <3> DEFINE fed == RecordOf(expr, fanin, nfo, c, key).fanin
    <3>1. fed = [x \in DOMAIN expr[q].kids |-> c.at[expr[q].kids[x]]]
      BY Zenon, <2>8 DEF OperandsOf
    <3> HIDE DEF fed
    <3>2. j \in DOMAIN expr[q].kids /\ expr[q].kids[j] = e
      BY <2>2, <2>3
    <3> HIDE DEF q, e
    <3>3. j \in DOMAIN fed /\ fed[j] = c.at[e]
      BY <3>1, <3>2
    <3> QED BY SMTT(40), <2>7, <3>3 DEF fed
  <2> QED BY <1>4, <2>4, <2>5, <2>9 DEF From, key, K
<1> QED BY <1>6, <1>7, <1>8 DEF Edges

LEMMA LinesArePins ==
  ASSUME NEW b, NEW expr, NEW fanin, NEW nfo, NEW c, Complete(b, expr, fanin, nfo, c),
         NEW slot, SlotsOf(expr, slot), NEW E, E = Edges(expr, Len(fanin))
  PROVE  /\ \A edge, other \in E : PinOfLine(c, slot, edge) = PinOfLine(c, slot, other) => edge = other
         /\ \A p \in PinsBeyond(b.node, c.node) : \E edge \in E : PinOfLine(c, slot, edge) = p
<1> DEFINE ni == Len(fanin)
           K == Keys(expr, ni, Len(expr))
<1>1. ni \in Nat /\ ProperExpr(expr, ni)
  BY DEF Complete, Fed
<1>2. \A key, other \in K : KeyLine(c, key) = KeyLine(c, other) => key = other
  BY KeyNodes
<1>3. \A edge \in E : /\ edge = <<edge[1], edge[2]>> /\ edge[2] \in {1, 2, 3} /\ PinKey(slot, edge) \in K
                      /\ edge[2] = 3 => edge[1] \in DOMAIN expr \ {Len(expr)}
  <2>1. \A edge \in E : edge = <<edge[1], edge[2]>> /\ edge[2] \in {1, 2, 3}
    BY <1>1, EdgePair
  <2>2. \A edge \in E : PinKey(slot, edge) \in K
    BY LinePin
  <2>3. \A edge \in E : edge[2] = 3 => edge[1] \in DOMAIN expr \ {Len(expr)}
    BY DEF Edges, BufferKeys, InverterKeys, Operands
  <2> QED BY <2>1, <2>2, <2>3
<1>4. ASSUME NEW edge \in E, NEW other \in E, PinOfLine(c, slot, edge) = PinOfLine(c, slot, other)
      PROVE  edge = other
  <2>1. KeyLine(c, PinKey(slot, edge)) = KeyLine(c, PinKey(slot, other)) /\ PinPlace(slot, edge) = PinPlace(slot, other)
    BY <1>4 DEF PinOfLine
  <2>2. PinKey(slot, edge) = PinKey(slot, other)
    BY <1>2, <1>3, <2>1
  <2>3. CASE edge[2] # 3 /\ other[2] # 3
    BY <2>2, <2>3 DEF PinKey
  <2>4. CASE edge[2] = 3 /\ other[2] = 3
    <3> DEFINE e == edge[1]
               d == other[1]
    <3>1. slot[e][1] = slot[d][1] /\ slot[e][2] = slot[d][2]
      BY <2>1, <2>2, <2>4 DEF PinKey, PinPlace
    <3>2. e \in DOMAIN expr \ {Len(expr)} /\ d \in DOMAIN expr \ {Len(expr)}
      BY <1>3, <2>4
    <3> HIDE DEF e, d
    <3>3. expr[slot[e][1]].kids[slot[e][2]] = e /\ expr[slot[d][1]].kids[slot[d][2]] = d
      BY <3>2 DEF SlotsOf
    <3>4. e = d
      BY <3>1, <3>3
    <3>5. edge = <<e, 3>> /\ other = <<d, 3>>
      BY <1>3, <2>4 DEF e, d
    <3> QED BY <3>4, <3>5
  <2>5. CASE edge[2] = 3 /\ other[2] # 3
    BY <2>2, <2>5 DEF PinKey
  <2>6. CASE edge[2] # 3 /\ other[2] = 3
    BY <2>2, <2>6 DEF PinKey
  <2> QED BY <2>3, <2>4, <2>5, <2>6
<1>5. ASSUME NEW p \in PinsBeyond(b.node, c.node) PROVE \E edge \in E : PinOfLine(c, slot, edge) = p
  <2>1. p = <<p[1], p[2]>> /\ p[1] \in DOMAIN c.node /\ p[1] \notin DOMAIN b.node /\ p[2] \in DOMAIN c.node[p[1]].fanin
    BY DEF PinsBeyond, PinsOf
  <2>2. PICK key \in K : KeyLine(c, key) = p[1]
    BY <2>1, KeyNodes
  <2>3. p[2] \in DOMAIN RecordOf(expr, fanin, nfo, c, key).fanin
    <3>1. c.node[p[1]] = RecordOf(expr, fanin, nfo, c, key)
      BY <2>2, KeyNodes
    <3> QED BY <2>1, <3>1
  <2>4. key = <<key[1], key[2]>>
    BY <1>1, EdgePair
  <2>5. CASE key \in BufferKeys(expr, ni)
    <3>1. key \in E /\ key[2] = 1
      BY <2>5 DEF Edges, BufferKeys
    <3>2. PinKey(slot, key) = key /\ PinPlace(slot, key) = 1
      BY <3>1 DEF PinKey, PinPlace
    <3>3. p[2] = 1
      BY <2>3, <3>1 DEF RecordOf, NewNode
    <3>4. PinOfLine(c, slot, key) = p
      BY <2>1, <2>2, <3>2, <3>3 DEF PinOfLine
    <3> QED BY <3>1, <3>4
  <2>6. CASE key \in InverterKeys(expr, ni)
    <3>1. key \in E /\ key[2] = 2
      BY <2>6 DEF Edges, InverterKeys
    <3>2. PinKey(slot, key) = key /\ PinPlace(slot, key) = 1
      BY <3>1 DEF PinKey, PinPlace
    <3>3. p[2] = 1
      BY <2>3, <3>1 DEF RecordOf, NewNode
    <3>4. PinOfLine(c, slot, key) = p
      BY <2>1, <2>2, <3>2, <3>3 DEF PinOfLine
    <3> QED BY <3>1, <3>4
  <2>7. CASE key \in OperatorKeys(expr, Len(expr))
    <3> DEFINE q == key[1]
               j == p[2]
               e == expr[q].kids[j]
               edge == <<e, 3>>
    <3>1. key[2] = 3 /\ q \in Operators(expr)
      BY <2>7 DEF OperatorKeys
    <3>2. j \in DOMAIN expr[q].kids
      BY <2>3, <3>1 DEF RecordOf, NewNode, OperandsOf
    <3>3. e \in DOMAIN expr \ {Len(expr)} /\ slot[e] = <<q, j>>
      BY <3>1, <3>2 DEF SlotsOf
    <3>4. <<e, 3>> \in E
      BY <1>1, <3>3, MadeKeys DEF Edges
    <3> HIDE DEF e
    <3>5. edge[1] = e /\ edge[2] = 3
      OBVIOUS
    <3> HIDE DEF edge
    <3>6. PinKey(slot, edge) = key /\ PinPlace(slot, edge) = j
      BY <2>4, <3>1, <3>3, <3>5 DEF PinKey, PinPlace
    <3>7. PinOfLine(c, slot, edge) = p
      BY <2>1, <2>2, <3>6 DEF PinOfLine
    <3> QED BY <3>4, <3>7 DEF edge
  <2> QED BY <2>5, <2>6, <2>7 DEF Keys
<1> QED BY <1>4, <1>5

LEMMA ExprFed ==
  ASSUME NEW b, NEW expr, NEW fanin, NEW nfo, NEW c, Complete(b, expr, fanin, nfo, c), GateDone(b.node, c)
  PROVE  GateFed(b.node, c, fanin, nfo, ExtraNodeCount(expr, Len(fanin)))
<1> DEFINE ni == Len(fanin)
           n == Len(expr)
           before == b.node
           E == Edges(expr, ni)
           K == Keys(expr, ni, n)
           root == <<n, 3>>
<1>1. /\ ni \in Nat /\ ProperExpr(expr, ni) /\ DOMAIN fanin = 1 .. ni
      /\ \A w \in 1 .. ni : fanin[w] \in DOMAIN before
  BY DEF Complete, Fed, Drives
<1>2. PICK slot : SlotsOf(expr, slot)
  BY <1>1, SlotsExist
<1> DEFINE Pin(edge) == PinOfLine(c, slot, edge)
           From(edge) == IF FromKey(expr, edge) = None THEN fanin[InputOf(expr, edge)] ELSE KeyLine(c, FromKey(expr, edge))
<1>3. \A edge \in E : Pin(edge) \in PinsBeyond(before, c.node) /\ Line(c.node, Pin(edge)) = From(edge)
  BY <1>2, LinePin
<1>4. /\ \A edge, other \in E : Pin(edge) = Pin(other) => edge = other
      /\ \A p \in PinsBeyond(before, c.node) : \E edge \in E : Pin(edge) = p
  BY <1>2, LinesArePins
<1>5. \A m : \A p : p \in NewPins(before, c.node, m) <=> p \in PinsBeyond(before, c.node) /\ Line(c.node, p) = m
  BY DEF NewPins, FedPins, PinsBeyond
<1>6. /\ \A key \in K : KeyLine(c, key) \in DOMAIN c.node /\ KeyLine(c, key) \notin DOMAIN before
                        /\ c.node[KeyLine(c, key)] = RecordOf(expr, fanin, nfo, c, key)
      /\ \A key, other \in K : KeyLine(c, key) = KeyLine(c, other) => key = other
      /\ \A m \in DOMAIN c.node : m \notin DOMAIN before => \E key \in K : KeyLine(c, key) = m
  BY KeyNodes
<1>7. root \in K /\ KeyLine(c, root) = Top(c) /\ root[2] = 3 /\ root[1] = n
  <2>1. n \in Operators(expr)
    BY <1>1, ExprFacts
  <2>2. Top(c) = c.at[n]
    BY <2>1 DEF Complete, NodesDone
  <2> QED BY <1>1, <2>1, <2>2, MadeKeys DEF Keys, KeyLine
<1>8. \A edge \in E : /\ FromKey(expr, edge) = None => InputOf(expr, edge) \in 1 .. ni
                      /\ FromKey(expr, edge) = None \/ FromKey(expr, edge) \in K
  BY <1>1, FromKeys
<1>9. None \notin K
  <2>1. \A key \in K : key[2] \in {1, 2, 3}
    BY <1>1, EdgePair
  <2> QED BY <2>1 DEF None
<1> HIDE DEF Pin
<1>10. ASSUME NEW m \in DOMAIN before
       PROVE  Cardinality(NewPins(before, c.node, m)) = Cardinality(FedBy(fanin, m))
  <2> DEFINE S == FedBy(fanin, m)
             T == NewPins(before, c.node, m)
             f == [w \in S |-> Pin(InputLine(expr, w))]
  <2>1. IsFiniteSet(S)
    <3>1. S \subseteq 1 .. ni
      BY <1>1 DEF FedBy
    <3> HIDE DEF S, ni
    <3> QED BY <1>1, <3>1, PrefixFinite
  <2>2. \A w \in 1 .. ni : /\ InputLine(expr, w) \in E /\ FromKey(expr, InputLine(expr, w)) = None
                           /\ InputOf(expr, InputLine(expr, w)) = w
                           /\ \A edge \in E : FromKey(expr, edge) = None /\ InputOf(expr, edge) = w => edge = InputLine(expr, w)
    BY <1>1, InputLineFacts DEF EdgesFrom
  <2>3. \A w \in S : w \in 1 .. ni /\ fanin[w] = m
    BY <1>1 DEF FedBy
  <2>4. \A w \in 1 .. ni : fanin[w] = m => w \in S
    BY <1>1 DEF FedBy
  <2> HIDE DEF S
  <2>5. \A w \in S : f[w] \in T
    BY <1>3, <1>5, <2>2, <2>3
  <2>6. \A v, w \in S : f[v] = f[w] => v = w
    BY <1>4, <2>2, <2>3
  <2>7. ASSUME NEW p \in T PROVE \E w \in S : f[w] = p
    <3>1. PICK edge \in E : Pin(edge) = p
      BY <1>4, <1>5
    <3>2. From(edge) = m
      BY <1>3, <1>5, <3>1
    <3>3. FromKey(expr, edge) = None
      BY <1>6, <1>8, <3>2
    <3>4. InputOf(expr, edge) \in S
      BY <1>8, <2>4, <3>2, <3>3
    <3>5. edge = InputLine(expr, InputOf(expr, edge))
      BY <1>8, <2>2, <3>3
    <3> QED BY <3>1, <3>4, <3>5
  <2> HIDE DEF f, T
  <2>8. OneToOne(f, S, T)
    BY <2>5, <2>6, <2>7 DEF OneToOne
  <2> QED BY <2>1, <2>8, SameCount DEF S, T
<1>11. ASSUME NEW key \in K
       PROVE  /\ \A p : p \in NewPins(before, c.node, KeyLine(c, key)) <=> \E edge \in EdgesFrom(expr, ni, key) : Pin(edge) = p
              /\ EdgesFrom(expr, ni, key) \subseteq E
  <2> DEFINE m == KeyLine(c, key)
  <2>1. \A edge \in EdgesFrom(expr, ni, key) : edge \in E /\ FromKey(expr, edge) = key
    BY DEF EdgesFrom
  <2>2. \A edge \in E : FromKey(expr, edge) = key => edge \in EdgesFrom(expr, ni, key)
    BY DEF EdgesFrom
  <2>3. \A edge \in E : From(edge) = m <=> FromKey(expr, edge) = key
    BY <1>1, <1>6, <1>8, <1>9
  <2> HIDE DEF m, E
  <2> QED BY <1>3, <1>4, <1>5, <2>1, <2>2, <2>3 DEF m
<1>12. ASSUME NEW m \in DOMAIN c.node, m \notin DOMAIN before, m # Top(c)
       PROVE  Cardinality(NewPins(before, c.node, m)) = c.node[m].nfo
  <2>1. PICK key \in K : KeyLine(c, key) = m
    BY <1>6, <1>12
  <2>2. key # root
    BY <1>7, <1>12, <2>1
  <2> DEFINE S == EdgesFrom(expr, ni, key)
             T == NewPins(before, c.node, m)
             f == [edge \in S |-> Pin(edge)]
  <2>3. IsFiniteSet(S) /\ Cardinality(S) = RoomOf(expr, key)
    BY <1>1, <2>2, LinesFrom
  <2>4. S \subseteq E /\ \A p : p \in T <=> \E edge \in S : Pin(edge) = p
    BY <1>11, <2>1
  <2> HIDE DEF S, T
  <2>5. OneToOne(f, S, T)
    BY <1>4, <2>4 DEF OneToOne
  <2> HIDE DEF f
  <2>6. Cardinality(T) = RoomOf(expr, key)
    BY <2>3, <2>5, SameCount
  <2>7. c.node[m].nfo = RoomOf(expr, key)
    <3>1. c.node[m] = RecordOf(expr, fanin, nfo, c, key)
      BY <1>6, <2>1
    <3>2. key = <<key[1], key[2]>> /\ key[2] \in {1, 2, 3}
      BY <1>1, EdgePair
    <3>3. key[2] = 3 => key[1] # n
      BY <2>2, <3>2
    <3> QED BY <3>1, <3>2, <3>3 DEF RecordOf, RoomOf, NewNode
  <2> QED BY <2>6, <2>7 DEF T
<1>13. NewPins(before, c.node, Top(c)) = {}
  <2>1. EdgesFrom(expr, ni, root) = {}
    BY <1>1, <1>7, LinesFrom
  <2> QED BY <1>7, <1>11, <2>1
<1>14. Top(c) \in DOMAIN c.node /\ Top(c) \notin DOMAIN before /\ c.node[Top(c)].nfo = nfo
  <2>1. KeyLine(c, root) \in DOMAIN c.node /\ KeyLine(c, root) \notin DOMAIN before
        /\ c.node[KeyLine(c, root)] = RecordOf(expr, fanin, nfo, c, root)
    BY <1>6, <1>7
  <2>2. RecordOf(expr, fanin, nfo, c, root).nfo = nfo
    <3> HIDE DEF root
    <3> QED BY <1>7 DEF RecordOf, NewNode
  <2> QED BY <1>7, <2>1, <2>2
<1>15. Len(c.node) = Len(before) + 1 + ExtraNodeCount(expr, ni) /\ ExtraNodeCount(expr, ni) \in Nat
  <2>1. before \in Seq(NodeRecs) /\ c.node \in Seq(NodeRecs) /\ Grown(before, c.node)
    BY DEF Complete, NodesDone, Sound, Builds
  <2> DEFINE lo == Len(before)
             hi == Len(c.node)
             line == LinesOf(c)
  <2>2. lo \in Nat /\ hi \in Nat /\ lo <= hi
    BY <2>1 DEF Grown
  <2>3. Numbers(line, K, lo, hi)
    BY DEF Complete, ExprShape
  <2> HIDE DEF lo, hi, line, K
  <2>4. Cardinality(K) = hi - lo
    BY <2>2, <2>3, NumbersCount
  <2>5. Cardinality(K) = 1 + ExtraNodeCount(expr, ni) /\ ExtraNodeCount(expr, ni) \in Nat
    BY <1>1, KeyNumber DEF K
  <2>6. hi = lo + 1 + ExtraNodeCount(expr, ni)
    BY <2>2, <2>4, <2>5
  <2> QED BY <2>5, <2>6 DEF lo, hi
<1> QED BY <1>10, <1>12, <1>13, <1>14, <1>15 DEF GateFed

\* A gate whose new nodes are those after before, with fanins of smaller numbers.
LEMMA TopUnfed ==
  ASSUME NEW before \in Seq(NodeRecs), NEW c, Sound(c), Grown(before, c.node)
  PROVE  NewPins(before, c.node, Top(c)) = {}
<1>1. c.node \in Seq(NodeRecs) /\ Wired(c.node, c.conn) /\ DOMAIN c.node = 1 .. Top(c) /\ Top(c) \in Nat
  BY DEF Sound, Builds, Top
<1>2. ASSUME NEW p \in PinsOf(c.node) PROVE Line(c.node, p) # Top(c)
  <2>1. p[1] \in DOMAIN c.node /\ Line(c.node, p) \in 1 .. p[1] - 1
    BY <1>1, PinFacts
  <2>2. \A q \in 1 .. Top(c) : \A l \in 1 .. q - 1 : l # Top(c)
    BY <1>1
  <2> QED BY <1>1, <2>1, <2>2
<1> QED BY <1>2 DEF NewPins, FedPins

LEMMA PrimFed ==
  ASSUME NEW b, NEW type, NEW fanin, NEW nfo, Sound(b), Fits(b.node, type, fanin, nfo),
         NEW c, c = Prim(b, type, fanin, nfo)
  PROVE  GateFed(b.node, c, fanin, nfo, 0)
<1> DEFINE before == b.node
           n == Len(before) + 1
<1>1. Sound(c) /\ Grown(before, c.node)
  BY PrimFacts
<1>2. Len(before) \in Nat /\ Len(c.node) = n /\ c.node[n] = NewNode(type, fanin, nfo)
  BY PrimNode
<1>4. /\ before \in Seq(NodeRecs) /\ c.node \in Seq(NodeRecs) /\ DOMAIN before = 1 .. n - 1 /\ DOMAIN c.node = 1 .. n
      /\ n \in Nat /\ Top(c) = n /\ Len(c.node) = n /\ c.node[n] = NewNode(type, fanin, nfo)
  <2>1. before \in Seq(NodeRecs) /\ c.node \in Seq(NodeRecs)
    BY <1>1 DEF Sound, Builds
  <2> QED BY <1>2, <2>1 DEF Top
<1>5. /\ DOMAIN fanin = 1 .. Len(fanin) /\ Len(fanin) \in Nat
  BY DEF Fits, Fed
<1>6. \A q : q \in DOMAIN c.node /\ q \notin DOMAIN before <=> q = n
  BY <1>2, <1>4
<1>7. n \in DOMAIN c.node /\ n \notin DOMAIN before /\ c.node[n].fanin = fanin /\ c.node[n].nfo = nfo
  BY <1>4, <1>6 DEF NewNode
<1>8. Len(c.node) = Len(before) + 1 + 0
  BY <1>2, <1>4
<1> HIDE DEF n
<1>9. ASSUME NEW m \in DOMAIN before
      PROVE  Cardinality(NewPins(before, c.node, m)) = Cardinality(FedBy(fanin, m))
  <2> DEFINE S == FedBy(fanin, m)
             T == NewPins(before, c.node, m)
             f == [k \in S |-> <<n, k>>]
             l == Len(fanin)
  <2>1. S \subseteq 1 .. l /\ l \in Nat /\ \A k \in S : k \in DOMAIN fanin /\ fanin[k] = m /\ k \in Nat
    BY <1>5 DEF FedBy
  <2>2. \A k \in S : <<n, k>> \in T
    <3> SUFFICES ASSUME NEW k \in S PROVE <<n, k>> \in T
      OBVIOUS
    <3>1. <<n, k>>[1] = n /\ <<n, k>>[2] = k
      OBVIOUS
    <3>2. <<n, k>> \in PinsOf(c.node) /\ Line(c.node, <<n, k>>) = m
      BY <1>7, <2>1, <3>1 DEF PinsOf, Line
    <3> QED BY <1>7, <3>1, <3>2 DEF NewPins, FedPins
  <2>3. ASSUME NEW p \in T PROVE \E k \in S : <<n, k>> = p
    <3>1. p = <<p[1], p[2]>> /\ p[1] \in DOMAIN c.node /\ p[1] \notin DOMAIN before /\ p[2] \in DOMAIN c.node[p[1]].fanin
          /\ Line(c.node, p) = m
      BY DEF NewPins, FedPins, PinsOf
    <3>2. p[1] = n /\ p[2] \in DOMAIN fanin /\ fanin[p[2]] = m
      BY <1>6, <1>7, <3>1 DEF Line
    <3> QED BY <3>1, <3>2 DEF FedBy
  <2>4. IsFiniteSet(S)
    <3> HIDE DEF S, l
    <3> QED BY <2>1, PrefixFinite
  <2> HIDE DEF S, T
  <2>5. OneToOne(f, S, T)
    BY <2>2, <2>3 DEF OneToOne
  <2> HIDE DEF f
  <2> QED BY <2>4, <2>5, SameCount DEF S, T
<1>10. NewPins(before, c.node, Top(c)) = {}
  BY <1>1, <1>4, TopUnfed
<1>11. \A m \in DOMAIN c.node : m \notin DOMAIN before => m = Top(c)
  BY <1>4, <1>6
<1> QED BY <1>4, <1>7, <1>8, <1>9, <1>10, <1>11 DEF GateFed

LEMMA SimpleFed ==
  ASSUME NEW b, NEW type, NEW fanin, NEW nfo, Sound(b), Fits(b.node, type, fanin, nfo),
         NEW c, c = SimpleGate(b, type, fanin, nfo)
  PROVE  GateFed(b.node, c, fanin, nfo, 0)
<1> DEFINE d == Prim(b, type, fanin, nfo)
           sites == [k \in DOMAIN fanin |-> <<Top(d), k>>]
<1>1. d = Prim(b, type, fanin, nfo)
  OBVIOUS
<1>2. c = [d EXCEPT !.site = sites]
  BY Zenon DEF SimpleGate
<1> HIDE DEF d, sites
<1>3. GateFed(b.node, d, fanin, nfo, 0) /\ d \in Builds
  BY <1>1, PrimFed, PrimFacts DEF Sound
<1>4. c.node = d.node
  BY <1>2, <1>3 DEF Builds
<1> QED BY <1>3, <1>4 DEF GateFed, Top

\* The first j links of a chain.
LinkRecord(type, fanin, nfo, n, k) ==
  NewNode(IF k < Len(fanin) THEN "Xor" ELSE type, <<n, fanin[k]>>, IF k < Len(fanin) THEN 1 ELSE nfo)
ChainShape(before, type, fanin, nfo, j, c) ==
  /\ Len(c.node) = Len(before) + 1 + j
  /\ c.node[Len(before) + 1] = NewNode("Xor", <<fanin[1], fanin[2]>>, 1)
  /\ \A t \in 1 .. j : c.node[Len(before) + 1 + t] = LinkRecord(type, fanin, nfo, Len(before) + t, t + 2)

LEMMA ChainStartShape ==
  ASSUME NEW b, Sound(b), NEW fanin, TwoFanins(b.node, fanin[1], fanin[2]), NEW type, NEW nfo
  PROVE  ChainShape(b.node, type, fanin, nfo, 0, ChainStart(b, fanin))
<1> DEFINE pair == <<fanin[1], fanin[2]>>
           first == Prim(b, "Xor", pair, 1)
           c == ChainStart(b, fanin)
<1>1. Fits(b.node, "Xor", pair, 1)
  BY PairFits
<1>2. Sound(first) /\ Len(b.node) \in Nat /\ Len(first.node) = Len(b.node) + 1
      /\ first.node[Len(b.node) + 1] = NewNode("Xor", pair, 1)
  <2> HIDE DEF pair
  <2> QED BY <1>1, PrimNode
<1>3. c.node = first.node
  <2> DEFINE sites == << <<Top(first), 1>>, <<Top(first), 2>> >>
  <2>1. c = [first EXCEPT !.site = sites]
    BY Zenon DEF ChainStart
  <2> HIDE DEF first, sites, c
  <2>2. first \in Builds
    BY <1>2 DEF Sound
  <2> QED BY <2>1, <2>2 DEF Builds
<1> HIDE DEF first, c
<1>4. \A t \in 1 .. 0 : FALSE
  OBVIOUS
<1> QED BY <1>2, <1>3, <1>4 DEF ChainShape, c

LEMMA ChainLinkShape ==
  ASSUME NEW b, Sound(b), NEW type \in {"Xor", "Xnor"}, NEW fanin, Fed(b.node, fanin), NEW nfo \in Nat,
         NEW j \in 1 .. Len(fanin) - 2, NEW p, GateDone(b.node, p), ChainShape(b.node, type, fanin, nfo, j - 1, p),
         NEW c, c = ChainLink(p, type, fanin, nfo, j + 2)
  PROVE  ChainShape(b.node, type, fanin, nfo, j, c)
<1> DEFINE k == j + 2
           lo == Len(b.node)
           n == lo + 1 + j
           pair == <<Top(p), fanin[k]>>
           t == IF k < Len(fanin) THEN "Xor" ELSE type
           room == IF k < Len(fanin) THEN 1 ELSE nfo
           next == ChainPrim(p, type, fanin, nfo, k)
<1>1. b.node \in Seq(NodeRecs) /\ p.node \in Seq(NodeRecs) /\ Sound(p) /\ Grown(b.node, p.node)
      /\ Drives(p.node, Top(p)) /\ lo \in Nat
  BY DEF GateDone, Sound, Builds
<1>2. Top(p) = lo + j /\ Len(p.node) = lo + j /\ j \in Nat /\ j # 0
  <2>1. Len(fanin) \in Nat
    BY DEF Fed
  <2>2. Len(p.node) = lo + 1 + (j - 1)
    BY DEF ChainShape
  <2> HIDE DEF lo
  <2> QED BY <1>1, <2>1, <2>2 DEF Top
<1>3. TwoFanins(p.node, Top(p), fanin[k])
  <2>1. k \in DOMAIN fanin /\ fanin \in Seq(Nat)
    <3>1. Len(fanin) \in Nat /\ DOMAIN fanin = 1 .. Len(fanin) /\ fanin \in Seq(Nat)
      BY DEF Fed
    <3> QED BY <3>1
  <2>2. Drives(p.node, fanin[k])
    BY <1>1, <2>1, GrownFacts DEF Fed
  <2>3. Top(p) \in Nat /\ fanin[k] \in Nat
    BY <1>1, <1>2, <2>1
  <2> QED BY <1>1, <2>2, <2>3 DEF TwoFanins
<1>4. t \in {"Xor", "Xnor"} /\ room \in Nat
  OBVIOUS
<1>5. Fits(p.node, t, pair, room)
  <2> HIDE DEF t, room, k
  <2> QED BY <1>3, <1>4, PairFits
<1>6. next = Prim(p, t, pair, room)
  BY DEF ChainPrim
<1> HIDE DEF t, room, next, pair
<1>7. Sound(next) /\ Grown(p.node, next.node)
  BY <1>1, <1>5, <1>6, PrimNode
<1>8. Len(next.node) = Len(p.node) + 1 /\ next.node[Len(p.node) + 1] = NewNode(t, pair, room)
  BY <1>1, <1>5, <1>6, PrimNode
<1>9. c.node = next.node
  <2> DEFINE sites == Append(next.site, <<Top(next), ChainPosition(type, k)>>)
  <2>1. c = [next EXCEPT !.site = sites]
    BY DEF ChainLink, next
  <2> HIDE DEF sites
  <2>2. next \in Builds
    BY <1>7 DEF Sound
  <2> QED BY <2>1, <2>2 DEF Builds
<1>10. Len(c.node) = lo + 1 + j
  BY <1>1, <1>2, <1>8, <1>9
<1>11. c.node[n] = LinkRecord(type, fanin, nfo, lo + j, k)
  <2>1. n = Len(p.node) + 1
    BY <1>1, <1>2
  <2> QED BY <1>2, <1>8, <1>9, <2>1 DEF LinkRecord, t, pair, room
<1>12. \A m \in 1 .. lo + j : c.node[m] = p.node[m]
  <2>1. DOMAIN p.node = 1 .. lo + j
    BY <1>1, <1>2
  <2> QED BY <1>7, <1>9, <2>1 DEF Grown
<1>13. c.node[lo + 1] = p.node[lo + 1] /\ \A s \in 1 .. j - 1 : c.node[lo + 1 + s] = p.node[lo + 1 + s]
  <2>1. lo + 1 \in 1 .. lo + j /\ \A s \in 1 .. j - 1 : lo + 1 + s \in 1 .. lo + j
    BY <1>1, <1>2
  <2> QED BY <1>12, <2>1
<1>14. \A s \in 1 .. j : s = j \/ s \in 1 .. j - 1
  OBVIOUS
<1>15. c.node[lo + 1] = NewNode("Xor", <<fanin[1], fanin[2]>>, 1)
  BY <1>13 DEF ChainShape
<1>16. ASSUME NEW s \in 1 .. j PROVE c.node[lo + 1 + s] = LinkRecord(type, fanin, nfo, lo + s, s + 2)
  <2>1. CASE s = j
    BY <1>11, <2>1
  <2>2. CASE s \in 1 .. j - 1
    BY <1>13, <2>2 DEF ChainShape
  <2> QED BY <1>14, <2>1, <2>2
<1> QED BY <1>10, <1>15, <1>16 DEF ChainShape

LEMMA XorChainShape ==
  ASSUME NEW b, NEW type \in {"Xor", "Xnor"}, NEW fanin, NEW nfo \in Nat, Sound(b), Placed(b),
         Fed(b.node, fanin), Len(fanin) > 2
  PROVE  LET c == XorChain(b, type, fanin, nfo)
         IN  ChainShape(b.node, type, fanin, nfo, Len(fanin) - 2, c) /\ GateDone(b.node, c)
<1> DEFINE n == Len(fanin) - 2
           Shape(j, d) == ChainShape(b.node, type, fanin, nfo, j, d)
<1>1. PICK f : ChainBuilds(b, type, fanin, nfo, f) /\ XorChain(b, type, fanin, nfo) = f[n]
  BY ChainIs
<1>2. n \in Nat /\ fanin \in Seq(Nat) /\ \A k \in DOMAIN fanin : Drives(b.node, fanin[k])
      /\ 1 \in DOMAIN fanin /\ 2 \in DOMAIN fanin
  BY DEF Fed
<1>3. \A j \in 0 .. n : /\ GateDone(b.node, f[j])
                        /\ f[j] = IF j = 0 THEN ChainStart(b, fanin) ELSE ChainLink(f[j - 1], type, fanin, nfo, j + 2)
  BY <1>1 DEF ChainBuilds
<1> DEFINE T == {j \in 0 .. n : Shape(j, f[j])}
<1>4. 0 \in T
  <2>1. TwoFanins(b.node, fanin[1], fanin[2])
    BY <1>2 DEF TwoFanins
  <2>2. Shape(0, ChainStart(b, fanin))
    BY <2>1, ChainStartShape
  <2>3. 0 \in 0 .. n /\ f[0] = ChainStart(b, fanin)
    BY <1>2, <1>3
  <2> QED BY <2>2, <2>3
<1>5. ASSUME NEW j \in 1 .. n, j - 1 \in T PROVE j \in T
  <2> DEFINE p == f[j - 1]
             c == f[j]
  <2>1. j \in 0 .. n /\ j # 0 /\ j - 1 \in 0 .. n
    BY <1>2
  <2>2. c = ChainLink(p, type, fanin, nfo, j + 2) /\ GateDone(b.node, p) /\ Shape(j - 1, p)
    BY <1>3, <1>5, <2>1
  <2> HIDE DEF p, c
  <2>3. Shape(j, c)
    BY <2>2, ChainLinkShape
  <2> QED BY <2>1, <2>3 DEF c
<1> HIDE DEF T
<1>6. n \in T
  BY <1>2, <1>4, <1>5, CountingUp
<1>7. n \in 0 .. n
  BY <1>2
<1> QED BY <1>1, <1>3, <1>6, <1>7 DEF T

LEMMA ChainFed ==
  ASSUME NEW b, Sound(b), NEW type, NEW fanin, NEW nfo, Fed(b.node, fanin), Len(fanin) > 2,
         NEW c, ChainShape(b.node, type, fanin, nfo, Len(fanin) - 2, c), GateDone(b.node, c)
  PROVE  GateFed(b.node, c, fanin, nfo, Len(fanin) - 2)
<1> DEFINE before == b.node
           lo == Len(before)
           ni == Len(fanin)
           hi == lo + ni - 1
           Pin(k) == IF k = 1 THEN <<lo + 1, 1>> ELSE <<lo + k - 1, 2>>
<1>1. /\ before \in Seq(NodeRecs) /\ c.node \in Seq(NodeRecs) /\ Sound(c) /\ Grown(before, c.node)
  BY DEF GateDone, Sound, Builds
<1>2. /\ lo \in Nat /\ ni \in Nat /\ ni > 2 /\ hi \in Nat /\ DOMAIN fanin = 1 .. ni
      /\ \A k \in 1 .. ni : fanin[k] \in DOMAIN before
  BY <1>1 DEF Fed, Drives
<1>3. Len(c.node) = hi /\ DOMAIN c.node = 1 .. hi /\ DOMAIN before = 1 .. lo /\ Top(c) = hi
  <2>1. Len(c.node) = lo + 1 + (ni - 2)
    BY DEF ChainShape
  <2>2. DOMAIN before = 1 .. lo /\ DOMAIN c.node = 1 .. Len(c.node)
    BY <1>1
  <2> HIDE DEF lo, ni
  <2> QED BY <1>2, <2>1, <2>2 DEF Top
<1>4. c.node[lo + 1] = NewNode("Xor", <<fanin[1], fanin[2]>>, 1)
      /\ \A t \in 1 .. ni - 2 : c.node[lo + 1 + t] = LinkRecord(type, fanin, nfo, lo + t, t + 2)
  BY DEF ChainShape
<1> HIDE DEF lo, ni, hi
<1>5. /\ DOMAIN c.node[lo + 1].fanin = {1, 2} /\ c.node[lo + 1].fanin[1] = fanin[1] /\ c.node[lo + 1].fanin[2] = fanin[2]
      /\ c.node[lo + 1].nfo = 1
  BY <1>4 DEF NewNode
<1>6. \A t \in 1 .. ni - 2 :
        /\ DOMAIN c.node[lo + 1 + t].fanin = {1, 2} /\ c.node[lo + 1 + t].fanin[1] = lo + t
        /\ c.node[lo + 1 + t].fanin[2] = fanin[t + 2]
        /\ c.node[lo + 1 + t].nfo = IF t + 2 < ni THEN 1 ELSE nfo
  <2> SUFFICES ASSUME NEW t \in 1 .. ni - 2
               PROVE  /\ DOMAIN c.node[lo + 1 + t].fanin = {1, 2} /\ c.node[lo + 1 + t].fanin[1] = lo + t
                      /\ c.node[lo + 1 + t].fanin[2] = fanin[t + 2]
                      /\ c.node[lo + 1 + t].nfo = IF t + 2 < ni THEN 1 ELSE nfo
    OBVIOUS
  <2>1. c.node[lo + 1 + t] = LinkRecord(type, fanin, nfo, lo + t, t + 2)
    BY <1>4
  <2> DEFINE r == LinkRecord(type, fanin, nfo, lo + t, t + 2)
  <2>2. r.fanin = <<lo + t, fanin[t + 2]>> /\ r.nfo = IF t + 2 < Len(fanin) THEN 1 ELSE nfo
    BY DEF LinkRecord, NewNode
  <2> HIDE DEF r
  <2> QED BY <2>1, <2>2 DEF ni, r
<1>7. /\ lo + 1 \in lo + 1 .. hi /\ \A t \in 1 .. ni - 2 : lo + 1 + t \in lo + 1 .. hi
      /\ \A q \in lo + 1 .. hi : q = lo + 1 \/ (q - lo - 1 \in 1 .. ni - 2 /\ q = lo + 1 + (q - lo - 1))
      /\ \A q : q \in lo + 1 .. hi <=> q \in DOMAIN c.node /\ q \notin DOMAIN before
  BY <1>2, <1>3 DEF hi
<1>8. \A q \in lo + 1 .. hi : DOMAIN c.node[q].fanin = {1, 2}
  BY <1>5, <1>6, <1>7
<1>9. \A p : \A m : p \in NewPins(before, c.node, m) <=>
        /\ p = <<p[1], p[2]>> /\ p[1] \in lo + 1 .. hi /\ p[2] \in {1, 2}
        /\ c.node[p[1]].fanin[p[2]] = m
  <2> SUFFICES ASSUME NEW p, NEW m
               PROVE  p \in NewPins(before, c.node, m) <=>
                        /\ p = <<p[1], p[2]>> /\ p[1] \in lo + 1 .. hi /\ p[2] \in {1, 2}
                        /\ c.node[p[1]].fanin[p[2]] = m
    OBVIOUS
  <2>1. p \in NewPins(before, c.node, m) => /\ p = <<p[1], p[2]>> /\ p[1] \in lo + 1 .. hi /\ p[2] \in {1, 2}
                                            /\ c.node[p[1]].fanin[p[2]] = m
    BY <1>7, <1>8 DEF NewPins, FedPins, PinsOf, Line
  <2>2. ASSUME p = <<p[1], p[2]>>, p[1] \in lo + 1 .. hi, p[2] \in {1, 2}, c.node[p[1]].fanin[p[2]] = m
        PROVE  p \in NewPins(before, c.node, m)
    <3> DEFINE q == p[1]
               s == p[2]
    <3>1. q \in DOMAIN c.node /\ q \notin DOMAIN before /\ s \in DOMAIN c.node[q].fanin /\ s \in Nat /\ c.node[q].fanin[s] = m
      BY <1>7, <1>8, <2>2
    <3>2. p = <<q, s>>
      BY <2>2
    <3> QED BY <3>1, <3>2 DEF NewPins, FedPins, PinsOf, Line
  <2> QED BY <2>1, <2>2
<1>10. ASSUME NEW m \in DOMAIN before
       PROVE  Cardinality(NewPins(before, c.node, m)) = Cardinality(FedBy(fanin, m))
  <2> DEFINE S == FedBy(fanin, m)
             T == NewPins(before, c.node, m)
             f == [k \in S |-> Pin(k)]
  <2>1. S \subseteq 1 .. ni /\ \A k : k \in S <=> k \in 1 .. ni /\ fanin[k] = m
    BY <1>2 DEF FedBy
  <2>2. IsFiniteSet(S)
    <3> HIDE DEF S
    <3> QED BY <1>2, <2>1, PrefixFinite
  <2> HIDE DEF S
  <2>3. ASSUME NEW k \in S PROVE Pin(k) \in T
    <3>1. k \in 1 .. ni /\ fanin[k] = m
      BY <2>1
    <3>2. CASE k = 1
      <4>1. Pin(k) = <<lo + 1, 1>>
        BY <3>2
      <4> HIDE DEF Pin
      <4>2. Pin(k)[1] = lo + 1 /\ Pin(k)[2] = 1 /\ Pin(k) = <<Pin(k)[1], Pin(k)[2]>>
        BY <4>1
      <4> QED BY <1>5, <1>7, <1>9, <3>1, <3>2, <4>2
    <3>3. CASE k = 2
      <4>1. Pin(k) = <<lo + 1, 2>>
        BY <1>2, <3>3
      <4> HIDE DEF Pin
      <4>2. Pin(k)[1] = lo + 1 /\ Pin(k)[2] = 2 /\ Pin(k) = <<Pin(k)[1], Pin(k)[2]>>
        BY <4>1
      <4> QED BY <1>5, <1>7, <1>9, <3>1, <3>3, <4>2
    <3>4. CASE k # 1 /\ k # 2
      <4> DEFINE t == k - 2
      <4>1. t \in 1 .. ni - 2 /\ t + 2 = k /\ lo + k - 1 = lo + 1 + t
        BY <1>2, <3>1, <3>4
      <4> HIDE DEF t
      <4>2. Pin(k) = <<lo + 1 + t, 2>>
        BY <3>4, <4>1
      <4> HIDE DEF Pin
      <4>3. Pin(k)[1] = lo + 1 + t /\ Pin(k)[2] = 2 /\ Pin(k) = <<Pin(k)[1], Pin(k)[2]>>
        BY <4>2
      <4>4. lo + 1 + t \in lo + 1 .. hi /\ c.node[lo + 1 + t].fanin[2] = m
        BY <1>6, <1>7, <3>1, <4>1
      <4> QED BY <1>9, <4>3, <4>4
    <3> QED BY <3>2, <3>3, <3>4
  <2>4. \A j, k \in S : f[j] = f[k] => j = k
    <3>1. \A j, k \in 1 .. ni : Pin(j) = Pin(k) => j = k
      BY <1>2
    <3> HIDE DEF Pin
    <3> QED BY <2>1, <3>1
  <2>5. ASSUME NEW p \in T PROVE \E k \in S : Pin(k) = p
    <3>1. p = <<p[1], p[2]>> /\ p[1] \in lo + 1 .. hi /\ p[2] \in {1, 2} /\ c.node[p[1]].fanin[p[2]] = m
      BY <1>9
    <3>2. CASE p[1] = lo + 1 /\ p[2] = 1
      <4>1. fanin[1] = m /\ 1 \in 1 .. ni
        BY <1>2, <1>5, <3>1, <3>2
      <4>2. Pin(1) = p
        BY <3>1, <3>2
      <4> QED BY <2>1, <4>1, <4>2
    <3>3. CASE p[1] = lo + 1 /\ p[2] = 2
      <4>1. fanin[2] = m /\ 2 \in 1 .. ni
        BY <1>2, <1>5, <3>1, <3>3
      <4>2. Pin(2) = p
        BY <1>2, <3>1, <3>3
      <4> QED BY <2>1, <4>1, <4>2
    <3>4. CASE p[1] # lo + 1
      <4> DEFINE t == p[1] - lo - 1
                 k == t + 2
      <4>1. t \in 1 .. ni - 2 /\ p[1] = lo + 1 + t
        BY <1>7, <3>1, <3>4
      <4> HIDE DEF t
      <4>2. p[2] = 2 /\ fanin[k] = m
        <5>1. p[2] # 1
          <6>1. p[2] = 1 => lo + t = m
            BY <1>6, <3>1, <4>1
          <6>2. m \in 1 .. lo
            BY <1>3
          <6> QED BY <1>2, <4>1, <6>1, <6>2
        <5> QED BY <1>6, <3>1, <4>1, <5>1
      <4>3. k \in 1 .. ni /\ k # 1 /\ lo + k - 1 = lo + 1 + t
        BY <1>2, <4>1
      <4> HIDE DEF k
      <4>4. Pin(k) = p
        BY <3>1, <4>1, <4>2, <4>3
      <4> QED BY <2>1, <4>2, <4>3, <4>4
    <3> QED BY <3>1, <3>2, <3>3, <3>4
  <2> HIDE DEF T, Pin
  <2>6. OneToOne(f, S, T)
    BY <2>3, <2>4, <2>5 DEF OneToOne
  <2> HIDE DEF f
  <2> QED BY <2>2, <2>6, SameCount DEF S, T
<1>11. NewPins(before, c.node, Top(c)) = {}
  BY <1>1, TopUnfed
<1>12. ASSUME NEW m \in DOMAIN c.node, m \notin DOMAIN before, m # Top(c)
       PROVE  Cardinality(NewPins(before, c.node, m)) = c.node[m].nfo
  <2> DEFINE t == m - lo
             pin == <<lo + 1 + t, 1>>
  <2>1. t \in 1 .. ni - 2 /\ m = lo + t /\ (m # lo + 1 => t - 1 \in 1 .. ni - 2 /\ m = lo + 1 + (t - 1) /\ (t - 1) + 2 < ni)
    <3>1. m \in lo + 1 .. hi /\ m # hi
      BY <1>3, <1>7, <1>12
    <3> QED BY SMTT(40), <1>2, <3>1 DEF hi
  <2> HIDE DEF t
  <2>2. c.node[m].nfo = 1
    <3>1. CASE m = lo + 1
      BY <1>5, <3>1
    <3>2. CASE m # lo + 1
      <4> DEFINE s == t - 1
      <4>1. s \in 1 .. ni - 2 /\ m = lo + 1 + s /\ s + 2 < ni
        BY <2>1, <3>2
      <4> HIDE DEF s
      <4> QED BY <1>6, <4>1
    <3> QED BY <3>1, <3>2
  <2>3. pin \in NewPins(before, c.node, m)
    <3>1. lo + 1 + t \in lo + 1 .. hi /\ c.node[lo + 1 + t].fanin[1] = m
      BY <1>6, <1>7, <2>1
    <3>2. pin = <<pin[1], pin[2]>> /\ pin[1] = lo + 1 + t /\ pin[2] = 1
      OBVIOUS
    <3> HIDE DEF pin
    <3> QED BY <1>9, <3>1, <3>2
  <2>4. ASSUME NEW p \in NewPins(before, c.node, m) PROVE p = pin
    <3>1. p = <<p[1], p[2]>> /\ p[1] \in lo + 1 .. hi /\ p[2] \in {1, 2} /\ c.node[p[1]].fanin[p[2]] = m
      BY <1>9
    <3>2. \A k \in 1 .. ni : fanin[k] # m
      BY <1>2, <1>12
    <3>3. p[1] # lo + 1
      <4>1. 1 \in 1 .. ni /\ 2 \in 1 .. ni
        BY <1>2
      <4> QED BY <1>5, <3>1, <3>2, <4>1
    <3> DEFINE s == p[1] - lo - 1
    <3>4. s \in 1 .. ni - 2 /\ p[1] = lo + 1 + s /\ s + 2 \in 1 .. ni
      <4>1. s \in 1 .. ni - 2 /\ p[1] = lo + 1 + s
        BY <1>7, <3>1, <3>3
      <4> HIDE DEF s
      <4> QED BY <1>2, <4>1
    <3> HIDE DEF s
    <3>5. p[2] = 1 /\ lo + s = m
      BY <1>6, <3>1, <3>2, <3>4
    <3>6. s = t
      BY <1>2, <2>1, <3>4, <3>5
    <3> QED BY <3>1, <3>4, <3>5, <3>6
  <2> HIDE DEF pin
  <2>5. NewPins(before, c.node, m) = {pin}
    BY <2>3, <2>4
  <2>6. Cardinality({pin}) = 1
    BY FS_Singleton
  <2> QED BY <2>2, <2>5, <2>6
<1>13. Top(c) \in DOMAIN c.node /\ Top(c) \notin DOMAIN before /\ c.node[Top(c)].nfo = nfo
  <2> DEFINE t == ni - 2
  <2>1. t \in 1 .. ni - 2 /\ Top(c) = lo + 1 + t /\ ~ (t + 2 < ni)
    BY <1>2, <1>3 DEF hi
  <2> HIDE DEF t
  <2> QED BY <1>6, <1>7, <2>1
<1>14. Len(c.node) = lo + 1 + (ni - 2) /\ ni - 2 \in Nat
  BY <1>2, <1>3 DEF hi
<1> QED BY <1>10, <1>11, <1>12, <1>13, <1>14 DEF GateFed, lo, ni

\* The nodes of any source gate: as many as counted, each with its fanouts.
LEMMA GateBuildFed ==
  ASSUME NEW g, NEW first \in Nat \ {0}, ProperGate(g, first), Wired(node, conn),
         Maps(nodeMap, first - 1, node), NEW nfo \in Nat
  PROVE  GateFed(node, GateBuild(g, FaninNodes(g, nodeMap), nfo), FaninNodes(g, nodeMap), nfo, ExtraNodes(g))
<1> DEFINE fanin == FaninNodes(g, nodeMap)
           b == [node |-> node, conn |-> conn, site |-> << >>, leaf |-> << >>, at |-> << >>]
<1>1. b.node = node /\ b.conn = conn /\ b.site = << >> /\ b.leaf = << >> /\ b.at = << >>
  OBVIOUS
<1>2. node \in Seq(NodeRecs) /\ conn \in Seq(Pairs)
  BY DEF Wired, Pairs
<1>3. b \in Builds
  BY <1>2 DEF Builds
<1>4. GateBuild(g, fanin, nfo) =
        CASE g.type = "Expr" -> ExprGate(b, g.expr, fanin, nfo)
          [] g.type \in {"Xor", "Xnor"} /\ Len(fanin) > 2 -> XorChain(b, g.type, fanin, nfo)
          [] OTHER -> SimpleGate(b, g.type, fanin, nfo)
  BY Zenon DEF GateBuild
<1> HIDE DEF b
<1>5. Sound(b) /\ Placed(b)
  <2>1. DOMAIN << >> = {}
    OBVIOUS
  <2> QED BY <1>1, <1>3, <2>1 DEF Sound, Placed
<1>6. Fed(b.node, fanin) /\ Len(fanin) = Len(g.fanin) /\ fanin \in Seq(Nat)
  BY <1>1, <1>2, FaninIsFed DEF Fed
<1> HIDE DEF fanin
<1>7. CASE g.type = "Expr"
  <2>1. ProperExpr(g.expr, Len(fanin))
    BY <1>6, <1>7 DEF ProperGate
  <2> DEFINE c == ExprGate(b, g.expr, fanin, nfo)
  <2>2. GateBuild(g, fanin, nfo) = c
    BY <1>4, <1>7
  <2>3. ExtraNodes(g) = ExtraNodeCount(g.expr, Len(fanin))
    BY <1>6, <1>7 DEF ExtraNodes
  <2>4. c = ExprGate(b, g.expr, fanin, nfo)
    OBVIOUS
  <2> HIDE DEF c
  <2>5. GateDone(b.node, c)
    BY <1>1, <1>5, <1>6, <2>1, <2>4, ExprGateShape
  <2>6. ExprShape(b.node, g.expr, fanin, nfo, Len(fanin), Len(g.expr), c)
    BY <1>1, <1>5, <1>6, <2>1, <2>4, ExprGateShape
  <2>7. NodesDone(b.node, g.expr, Len(fanin), Len(g.expr), c)
    BY <1>1, <1>5, <1>6, <2>1, <2>4, ExprGateShape
  <2>8. Complete(b, g.expr, fanin, nfo, c)
    BY <1>5, <1>6, <2>1, <2>6, <2>7 DEF Complete
  <2>9. GateFed(b.node, c, fanin, nfo, ExtraNodeCount(g.expr, Len(fanin)))
    BY <2>5, <2>8, ExprFed
  <2> QED BY <1>1, <2>2, <2>3, <2>9 DEF fanin
<1>8. CASE g.type \in {"Xor", "Xnor"} /\ Len(fanin) > 2
  <2> DEFINE c == XorChain(b, g.type, fanin, nfo)
  <2>1. ChainShape(b.node, g.type, fanin, nfo, Len(fanin) - 2, c) /\ GateDone(b.node, c)
    BY <1>5, <1>6, <1>8, XorChainShape
  <2>2. GateBuild(g, fanin, nfo) = c
    BY <1>4, <1>8
  <2>3. ExtraNodes(g) = Len(fanin) - 2
    BY <1>6, <1>8 DEF ExtraNodes
  <2> HIDE DEF c
  <2>4. GateFed(b.node, c, fanin, nfo, Len(fanin) - 2)
    BY <1>5, <1>6, <1>8, <2>1, ChainFed
  <2> QED BY <1>1, <2>2, <2>3, <2>4 DEF fanin
<1>9. CASE g.type # "Expr" /\ ~ (g.type \in {"Xor", "Xnor"} /\ Len(fanin) > 2)
  <2>1. g.type \in {"Const0", "Const1", "Buff", "Not", "And", "Nand", "Or", "Nor", "Xor", "Xnor"}
    BY <1>9 DEF ProperGate, GateTypes
  <2>2. /\ g.type \in {"Const0", "Const1"} => Len(fanin) = 0
        /\ g.type \in {"Buff", "Not"} => Len(fanin) = 1
        /\ g.type \notin {"Const0", "Const1", "Buff", "Not"} => Len(fanin) >= 2
    <3>1. Len(<< >>) = 0
      OBVIOUS
    <3> QED BY <1>6, <2>1, <3>1 DEF ProperGate
  <2>3. fanin = << >> <=> Len(fanin) = 0
    BY <1>6
  <2>4. Arity(g.type, fanin) /\ g.type \in C!NodeTypes /\ g.type \notin C!PpoTypes
    BY <2>1, <2>2, <2>3 DEF Arity, C!NodeTypes, C!GateTypes, C!PpoTypes, C!NoFanin, C!PpiTypes, C!OneFanin, C!ControlTypes
  <2> DEFINE c == SimpleGate(b, g.type, fanin, nfo)
  <2>5. GateBuild(g, fanin, nfo) = c
    BY <1>4, <1>9
  <2>6. c = SimpleGate(b, g.type, fanin, nfo)
    OBVIOUS
  <2> HIDE DEF c
  <2>7. GateFed(b.node, c, fanin, nfo, 0)
    <3>1. Fits(b.node, g.type, fanin, nfo)
      BY <1>6, <2>4 DEF Fits
    <3> QED BY <1>5, <2>4, <2>6, <3>1, SimpleFed
  <2>8. ExtraNodes(g) = 0
    <3> DEFINE l == Len(fanin)
    <3>1. l \in Nat /\ Len(g.fanin) = l
      BY <1>6
    <3>2. g.type \in {"Xor", "Xnor"} => ~ (l > 2) /\ l >= 2
      BY <1>9, <2>1, <2>2
    <3> HIDE DEF l
    <3>3. g.type \in {"Xor", "Xnor"} => l - 2 = 0
      BY <3>1, <3>2
    <3> QED BY <1>9, <3>1, <3>3 DEF ExtraNodes
  <2> QED BY <1>1, <2>5, <2>7, <2>8 DEF fanin
<1> QED BY <1>7, <1>8, <1>9

LEMMA ExtraNodesType ==
  ASSUME NEW g, NEW first, ProperGate(g, first)
  PROVE  ExtraNodes(g) \in Nat
<1> DEFINE l == Len(g.fanin)
<1>1. l \in Nat
  BY DEF ProperGate
<1>2. g.type \in {"And", "Nand", "Or", "Nor", "Xor", "Xnor"} => l >= 2
  BY DEF ProperGate
<1>3. g.type = "Expr" => ExtraNodeCount(g.expr, l) \in Nat
  <2>1. ASSUME g.type = "Expr" PROVE ProperExpr(g.expr, l)
    BY <2>1 DEF ProperGate
  <2> HIDE DEF l
  <2> QED BY <1>1, <2>1, KeyNumber
<1>4. g.type \in {"Xor", "Xnor"} => l - 2 \in Nat
  <2> HIDE DEF l
  <2> QED BY <1>1, <1>2
<1> QED BY <1>3, <1>4 DEF ExtraNodes

\* The places of the gates are added up one gate after the other.
LEMMA LogicNodesAre ==
  ASSUME NEW src, ProperSource(src)
  PROVE  /\ LogicNodes(src)[0] = 0
         /\ \A k \in 1 .. Len(src.logic) :
              LogicNodes(src)[k] = LogicNodes(src)[k - 1] + 1 + ExtraNodes(src.logic[k])
         /\ \A k \in 0 .. Len(src.logic) :
              LogicNodes(src)[k] \in Nat /\ LogicNodes(src)[k] <= LogicNodes(src)[Len(src.logic)]
<1> DEFINE n == Len(src.logic)
           E(g) == [k \in 0 .. n |-> IF k = 0 THEN 0 ELSE g[k - 1] + 1 + ExtraNodes(src.logic[k])]
           f == CHOOSE g : g = E(g)
           step == [k \in 1 .. n |-> [w \in Nat |-> w + 1 + ExtraNodes(src.logic[k])]]
<1>1. LogicNodes(src) = f
  BY Zenon DEF LogicNodes
<1>2. n \in Nat /\ \A k \in 1 .. n : ExtraNodes(src.logic[k]) \in Nat
  BY SourceFacts, ExtraNodesType
<1> HIDE DEF n
<1>3. PICK g \in [0 .. n -> Nat] : g = P!Steps(n, 0, step, g)
  <2>1. \A k \in 1 .. n, w \in Nat : step[k][w] \in Nat
    <3>1. \A e \in Nat : \A w \in Nat : w + 1 + e \in Nat
      OBVIOUS
    <3> QED BY <1>2, <3>1
  <2> HIDE DEF step
  <2>2. P!StepsIn(n, Nat, 0, step)
    BY <1>2, <2>1 DEF P!StepsIn
  <2>3. \A m, B, start, st : P!StepsIn(m, B, start, st) => \E h \in [0 .. m -> B] : h = P!Steps(m, start, st, h)
    BY P!RecursionTo
  <2> QED BY <2>2, <2>3
<1>4. g = E(g)
  <2>1. \A k \in 0 .. n : g[k] = IF k = 0 THEN 0 ELSE step[k][g[k - 1]]
    BY <1>3 DEF P!Steps
  <2>2. \A k \in 0 .. n : k # 0 => k \in 1 .. n /\ k - 1 \in 0 .. n
    BY <1>2
  <2>3. \A k \in 0 .. n : k # 0 => g[k - 1] \in Nat
    BY <2>2
  <2>4. \A k \in 0 .. n : g[k] = IF k = 0 THEN 0 ELSE g[k - 1] + 1 + ExtraNodes(src.logic[k])
    BY <2>1, <2>2, <2>3
  <2>5. g = [k \in 0 .. n |-> g[k]]
    BY <1>3
  <2> HIDE DEF step
  <2> QED BY <2>4, <2>5
<1>5. f = E(f)
  <2> HIDE DEF E
  <2> QED BY <1>4
<1> HIDE DEF f, step
<1>6. f[0] = 0 /\ \A k \in 1 .. n : f[k] = f[k - 1] + 1 + ExtraNodes(src.logic[k])
  <2>1. \A k \in 0 .. n : f[k] = IF k = 0 THEN 0 ELSE f[k - 1] + 1 + ExtraNodes(src.logic[k])
    BY <1>5
  <2>2. 0 \in 0 .. n /\ \A k \in 1 .. n : k \in 0 .. n /\ k # 0
    BY <1>2
  <2> QED BY <2>1, <2>2
<1> HIDE DEF E
<1> DEFINE Up(k) == f[k] \in Nat /\ \A j \in 0 .. k : f[j] \in Nat /\ f[j] <= f[k]
<1>7. Up(n)
  <2> DEFINE T == {k \in 0 .. n : Up(k)}
  <2>1. 0 \in T
    BY <1>2, <1>6
  <2>2. ASSUME NEW k \in 1 .. n, k - 1 \in T PROVE k \in T
    <3> DEFINE e == ExtraNodes(src.logic[k])
               a == f[k - 1]
    <3>1. e \in Nat /\ a \in Nat /\ f[k] = a + 1 + e
      BY <1>2, <1>6, <2>2
    <3>2. \A j \in 0 .. k - 1 : f[j] \in Nat /\ f[j] <= a
      BY <2>2
    <3> HIDE DEF a, e
    <3>3. f[k] \in Nat /\ a <= f[k]
      BY <3>1
    <3>4. \A j \in 0 .. k : f[j] \in Nat /\ f[j] <= f[k]
      <4>1. \A j \in 0 .. k : j \in 0 .. k - 1 \/ j = k
        BY <1>2
      <4> QED BY <3>1, <3>2, <3>3, <4>1
    <3>5. k \in 0 .. n
      BY <1>2
    <3> QED BY <3>3, <3>4, <3>5
  <2>3. n \in T
    <3> HIDE DEF T
    <3> QED BY <1>2, <2>1, <2>2, CountingUp
  <2> QED BY <2>3
<1> QED BY <1>1, <1>6, <1>7 DEF n

-----------------------------------------------------------------------------
(* What a source node feeds, of the first gates and terminals.             *)

TakenByTerminals(src, s, t) == {k \in DOMAIN Terminals(src) : k <= t /\ Terminals(src)[k][2] = s}
TakenByGates(src, s, g) == {e \in Pins(src) : e[1] <= g /\ src.logic[e[1]].fanin[e[2]] = s}
Taken(src, s, g, t) == Cardinality(TakenByTerminals(src, s, t)) + Cardinality(TakenByGates(src, s, g))

LEMMA SourcePins ==
  ASSUME NEW src, ProperSource(src)
  PROVE  /\ IsFiniteSet(Pins(src))
         /\ \A e \in Pins(src) : /\ e = <<e[1], e[2]>> /\ e[1] \in 1 .. Len(src.logic)
                                 /\ e[2] \in DOMAIN src.logic[e[1]].fanin
         /\ \A k \in 1 .. Len(src.logic) : \A j \in DOMAIN src.logic[k].fanin : <<k, j>> \in Pins(src)
<1> DEFINE D == DOMAIN src.logic
           PinSets == {{k} \X DOMAIN src.logic[k].fanin : k \in D}
           f == [k \in D |-> {k} \X DOMAIN src.logic[k].fanin]
<1>1. IsFiniteSet(D) /\ D = 1 .. Len(src.logic)
  <2>1. D = 1 .. Len(src.logic) /\ Len(src.logic) \in Nat
    BY SourceFacts
  <2> QED BY <2>1, FS_Interval
<1>2. ASSUME NEW k \in D PROVE IsFiniteSet({k} \X DOMAIN src.logic[k].fanin)
  <2> DEFINE g == src.logic[k]
             l == Len(g.fanin)
  <2>1. ProperGate(g, src.inputs + Len(src.dff) + k)
    BY SourceFacts
  <2> HIDE DEF g
  <2>2. DOMAIN g.fanin = 1 .. l /\ l \in Nat
    BY <2>1 DEF ProperGate
  <2> HIDE DEF l
  <2>3. IsFiniteSet(DOMAIN g.fanin) /\ IsFiniteSet({k})
    <3>1. DOMAIN g.fanin \subseteq 1 .. l
      BY <2>2
    <3> QED BY <2>2, <3>1, PrefixFinite, FS_Singleton
  <2> QED BY <2>3, FS_Product DEF g
<1> HIDE DEF D
<1>3. f \in Surjection(D, PinSets)
  BY DEF Surjection
<1>4. IsFiniteSet(PinSets)
  <2> HIDE DEF f, PinSets
  <2> QED BY <1>1, <1>3, FS_Surjection
<1>5. \A S \in PinSets : IsFiniteSet(S)
  BY <1>2
<1>6. Pins(src) = UNION PinSets
  BY DEF Pins, D
<1>7. \A e \in Pins(src) : /\ e = <<e[1], e[2]>> /\ e[1] \in D
                           /\ e[2] \in DOMAIN src.logic[e[1]].fanin
  BY <1>6
<1>8. \A k \in D : \A j \in DOMAIN src.logic[k].fanin : <<k, j>> \in Pins(src)
  BY <1>6
<1> HIDE DEF PinSets
<1>9. IsFiniteSet(Pins(src))
  BY <1>4, <1>5, <1>6, FS_UNION
<1> QED BY <1>1, <1>7, <1>8, <1>9

LEMMA TakenFinite ==
  ASSUME NEW src, ProperSource(src), NEW s, NEW g, NEW t
  PROVE  /\ IsFiniteSet(TakenByTerminals(src, s, t)) /\ IsFiniteSet(TakenByGates(src, s, g))
         /\ Cardinality(TakenByTerminals(src, s, t)) \in Nat /\ Cardinality(TakenByGates(src, s, g)) \in Nat
         /\ DOMAIN Terminals(src) = 1 .. Len(Terminals(src)) /\ Len(Terminals(src)) \in Nat
<1>1. Terminals(src) \in Seq(TerminalTypes \X (1 .. All(src)))
  BY TerminalsType
<1> DEFINE l == Len(Terminals(src))
<1>2. l \in Nat /\ DOMAIN Terminals(src) = 1 .. l
  BY <1>1
<1>3. TakenByTerminals(src, s, t) \subseteq 1 .. l
  BY <1>2 DEF TakenByTerminals
<1> HIDE DEF l
<1>4. IsFiniteSet(TakenByTerminals(src, s, t))
  BY <1>2, <1>3, PrefixFinite
<1>5. IsFiniteSet(TakenByGates(src, s, g))
  <2>1. TakenByGates(src, s, g) \subseteq Pins(src)
    BY DEF TakenByGates
  <2> QED BY <2>1, SourcePins, FS_Subset
<1> QED BY <1>2, <1>4, <1>5, FS_CardinalityType DEF l

\* Nothing is taken at first, and nothing by the gates before a node.
LEMMA TakenNone ==
  ASSUME NEW src, ProperSource(src), NEW s, NEW g \in Nat, s \in Nat,
         g = 0 \/ s >= src.inputs + Len(src.dff) + g
  PROVE  Taken(src, s, g, 0) = 0
<1>1. TakenByTerminals(src, s, 0) = {}
  <2>1. \A k \in DOMAIN Terminals(src) : k \in Nat /\ k >= 1
    BY TakenFinite
  <2> QED BY <2>1 DEF TakenByTerminals
<1>2. ASSUME NEW e \in Pins(src), e[1] <= g PROVE src.logic[e[1]].fanin[e[2]] # s
  <2> DEFINE k == e[1]
             j == e[2]
             gate == src.logic[k]
             p == src.inputs + Len(src.dff)
  <2>1. k \in 1 .. Len(src.logic) /\ j \in DOMAIN gate.fanin
    BY SourcePins
  <2>2. ProperGate(gate, p + k) /\ p \in Nat /\ k \in Nat /\ k >= 1
    BY <2>1, SourceFacts
  <2> HIDE DEF gate, p
  <2>3. gate.fanin \in Seq(1 .. p + k - 1)
    BY <2>2 DEF ProperGate
  <2> HIDE DEF k, j
  <2>4. gate.fanin[j] \in 1 .. p + k - 1
    <3> DEFINE A == 1 .. p + k - 1
    <3>1. gate.fanin \in Seq(A)
      BY <2>3
    <3> HIDE DEF A
    <3>2. gate.fanin[j] \in A
      BY <2>1, <3>1
    <3> QED BY <3>2 DEF A
  <2>5. k <= g /\ (g = 0 \/ s >= p + g)
    BY <1>2 DEF k, p
  <2>6. gate.fanin[j] < p + k /\ gate.fanin[j] \in Int
    BY <2>2, <2>4
  <2>7. g # 0
    BY <2>2, <2>5
  <2> DEFINE x == gate.fanin[j]
  <2>8. x < p + k /\ x \in Int
    BY <2>6
  <2> HIDE DEF x
  <2>9. x # s
    BY <2>2, <2>5, <2>7, <2>8
  <2> QED BY <2>9 DEF x, gate, k, j
<1>3. TakenByGates(src, s, g) = {}
  BY <1>2 DEF TakenByGates
<1>4. Cardinality({}) = 0
  BY FS_EmptySet
<1> QED BY <1>1, <1>3, <1>4 DEF Taken

\* Everything is taken in the end.
LEMMA TakenAll ==
  ASSUME NEW src, ProperSource(src), NEW s
  PROVE  Taken(src, s, Len(src.logic), Len(Terminals(src))) = FanoutNum(src, s)
<1>1. TakenByTerminals(src, s, Len(Terminals(src))) = {k \in DOMAIN Terminals(src) : Terminals(src)[k][2] = s}
  <2>1. \A k \in DOMAIN Terminals(src) : k <= Len(Terminals(src))
    BY TakenFinite
  <2> QED BY <2>1 DEF TakenByTerminals
<1>2. TakenByGates(src, s, Len(src.logic)) = {e \in Pins(src) : src.logic[e[1]].fanin[e[2]] = s}
  <2>1. \A e \in Pins(src) : e[1] <= Len(src.logic)
    <3>1. Len(src.logic) \in Nat
      BY SourceFacts
    <3>2. \A k \in 1 .. Len(src.logic) : k <= Len(src.logic)
      BY <3>1
    <3> QED BY <3>2, SourcePins
  <2> QED BY <2>1 DEF TakenByGates
<1> QED BY <1>1, <1>2 DEF Taken, FanoutNum

\* What the next gate takes, and the next terminal.
LEMMA TakenByGate ==
  ASSUME NEW src, ProperSource(src), NEW s, NEW t, NEW k \in 1 .. Len(src.logic)
  PROVE  Taken(src, s, k, t) = Taken(src, s, k - 1, t) + Cardinality(FedBy(src.logic[k].fanin, s))
         /\ Taken(src, s, k - 1, t) \in Nat
<1> DEFINE before == TakenByGates(src, s, k - 1)
           here == {e \in TakenByGates(src, s, k) : e[1] = k}
           S == FedBy(src.logic[k].fanin, s)
           f == [j \in S |-> <<k, j>>]
<1>1. /\ \A e \in TakenByGates(src, s, k) : /\ e = <<e[1], e[2]>> /\ e[1] \in 1 .. Len(src.logic) /\ e[1] \in Nat
                                            /\ e[2] \in DOMAIN src.logic[e[1]].fanin
                                            /\ e[1] <= k /\ src.logic[e[1]].fanin[e[2]] = s /\ e \in Pins(src)
      /\ k \in Nat
  BY SourcePins, SourceFacts DEF TakenByGates
<1>2. TakenByGates(src, s, k) = before \cup here /\ before \cap here = {}
  <2>1. \A e \in TakenByGates(src, s, k) : e[1] <= k - 1 \/ e[1] = k
    BY <1>1
  <2>2. ASSUME NEW e \in before PROVE e \in TakenByGates(src, s, k) /\ e[1] # k
    <3>1. e \in Pins(src) /\ e[1] <= k - 1 /\ src.logic[e[1]].fanin[e[2]] = s /\ e[1] \in Nat
      BY SourcePins, SourceFacts DEF TakenByGates
    <3>2. e[1] <= k /\ e[1] # k
      BY <1>1, <3>1
    <3> QED BY <3>1, <3>2 DEF TakenByGates
  <2>3. \A e \in TakenByGates(src, s, k) : e \in before \/ e \in here
    BY <1>1, <2>1 DEF TakenByGates
  <2> QED BY <2>2, <2>3
<1>3. IsFiniteSet(before) /\ IsFiniteSet(here)
  <2>1. IsFiniteSet(TakenByGates(src, s, k)) /\ here \subseteq TakenByGates(src, s, k)
    BY TakenFinite
  <2> HIDE DEF here
  <2> QED BY <2>1, FS_Subset, TakenFinite
<1>4. Cardinality(here) = Cardinality(S)
  <2>1. IsFiniteSet(S)
    <3> DEFINE g == src.logic[k]
               l == Len(g.fanin)
    <3>1. ProperGate(g, src.inputs + Len(src.dff) + k)
      BY SourceFacts
    <3> HIDE DEF g
    <3>2. DOMAIN g.fanin = 1 .. l /\ l \in Nat
      BY <3>1 DEF ProperGate
    <3>3. S \subseteq 1 .. l
      BY <3>2 DEF FedBy, g
    <3> HIDE DEF S, l
    <3> QED BY <3>2, <3>3, PrefixFinite
  <2>2. \A j \in S : <<k, j>> \in here
    <3> SUFFICES ASSUME NEW j \in S PROVE <<k, j>> \in here
      OBVIOUS
    <3>1. j \in DOMAIN src.logic[k].fanin /\ src.logic[k].fanin[j] = s
      BY DEF FedBy
    <3>2. <<k, j>> \in Pins(src) /\ <<k, j>>[1] = k /\ <<k, j>>[2] = j
      BY <3>1, SourcePins
    <3>3. k <= k
      BY <1>1
    <3> QED BY <3>1, <3>2, <3>3 DEF TakenByGates
  <2>3. \A e \in here : e[2] \in S /\ e = <<k, e[2]>>
    BY <1>1 DEF FedBy
  <2> HIDE DEF S, here
  <2>4. OneToOne(f, S, here)
    BY <2>2, <2>3 DEF OneToOne
  <2> HIDE DEF f
  <2> QED BY <2>1, <2>4, SameCount
<1>5. Cardinality(TakenByGates(src, s, k)) = Cardinality(before) + Cardinality(here)
  <2> HIDE DEF before, here
  <2> QED BY <1>2, <1>3, DisjointCount
<1> DEFINE a == Cardinality(TakenByTerminals(src, s, t))
           b == Cardinality(before)
           c == Cardinality(S)
<1>6. a \in Nat /\ b \in Nat
  BY TakenFinite
<1>7. c \in Nat
  BY <1>3, <1>4, FS_CardinalityType
<1>8. Taken(src, s, k, t) = a + Cardinality(TakenByGates(src, s, k)) /\ Taken(src, s, k - 1, t) = a + b
  BY DEF Taken
<1>9. Taken(src, s, k, t) = a + (b + c)
  BY <1>4, <1>5, <1>8
<1> HIDE DEF a, b, c
<1> QED BY <1>6, <1>7, <1>8, <1>9 DEF c

LEMMA TakenByTerminal ==
  ASSUME NEW src, ProperSource(src), NEW s, NEW g, NEW t \in 1 .. Len(Terminals(src))
  PROVE  Taken(src, s, g, t) = Taken(src, s, g, t - 1) + Cardinality(FedBy(<<Terminals(src)[t][2]>>, s))
         /\ Taken(src, s, g, t - 1) \in Nat
<1> DEFINE before == TakenByTerminals(src, s, t - 1)
           S == FedBy(<<Terminals(src)[t][2]>>, s)
           here == {k \in {t} : Terminals(src)[k][2] = s}
<1>1. DOMAIN Terminals(src) = 1 .. Len(Terminals(src)) /\ t \in Nat /\ \A k \in DOMAIN Terminals(src) : k \in Nat
  BY TakenFinite
<1>2. TakenByTerminals(src, s, t) = before \cup here /\ before \cap here = {}
  <2>1. \A k \in Nat : k <= t <=> k <= t - 1 \/ k = t
    BY <1>1
  <2>2. ~ (t <= t - 1)
    BY <1>1
  <2> QED BY <1>1, <2>1, <2>2 DEF TakenByTerminals
<1>3. IsFiniteSet(before) /\ IsFiniteSet(here)
  <2>1. here \subseteq {t}
    OBVIOUS
  <2> HIDE DEF here
  <2> QED BY <2>1, FS_Subset, FS_Singleton, TakenFinite
<1>4. Cardinality(here) = Cardinality(S)
  <2> DEFINE x == Terminals(src)[t][2]
  <2>1. DOMAIN <<x>> = {1} /\ <<x>>[1] = x
    OBVIOUS
  <2>2. Cardinality({1}) = 1 /\ Cardinality({t}) = 1
    BY FS_Singleton
  <2>3. S = IF x = s THEN {1} ELSE {}
    <3>1. S = {k \in DOMAIN <<x>> : <<x>>[k] = s}
      BY DEF FedBy
    <3> QED BY <2>1, <3>1
  <2>4. here = IF x = s THEN {t} ELSE {}
    OBVIOUS
  <2> HIDE DEF S, here, x
  <2> QED BY <2>2, <2>3, <2>4
<1>5. Cardinality(TakenByTerminals(src, s, t)) = Cardinality(before) + Cardinality(here)
  <2> HIDE DEF before, here
  <2> QED BY <1>2, <1>3, DisjointCount
<1> DEFINE a == Cardinality(TakenByGates(src, s, g))
           b == Cardinality(before)
           c == Cardinality(S)
<1>6. a \in Nat /\ b \in Nat
  BY TakenFinite
<1>7. c \in Nat
  BY <1>3, <1>4, FS_CardinalityType
<1>8. Taken(src, s, g, t) = Cardinality(TakenByTerminals(src, s, t)) + a /\ Taken(src, s, g, t - 1) = b + a
  BY DEF Taken
<1>9. Taken(src, s, g, t) = (b + c) + a
  BY <1>4, <1>5, <1>8
<1> HIDE DEF a, b, c
<1> QED BY <1>6, <1>7, <1>8, <1>9 DEF c

-----------------------------------------------------------------------------
(* The invariant: how many nodes there are, and how many fanouts of the    *)
(* source nodes have been made.                                            *)

GatesMade == CASE pc \in {"inputs", "dffs"} -> 0
               [] pc = "logic" -> i - 1
               [] OTHER -> Len(source.logic)
TerminalsMade == CASE pc \in {"inputs", "dffs", "logic"} -> 0
                   [] pc = "terminals" -> i - 1
                   [] OTHER -> Len(Terminals(source))

\* Every source node has the room counted for it and its fanouts so far, every
\* node that a gate has beside its root has all of them.
RoomKept(src, nodes, map, g, t) ==
  /\ \A r, s \in DOMAIN map : map[r] = map[s] => r = s
  /\ \A s \in DOMAIN map : /\ nodes[map[s]].nfo = FanoutNum(src, s)
                           /\ Load(nodes, map[s]) = Taken(src, s, g, t)
  /\ \A n \in DOMAIN nodes : (\A s \in DOMAIN map : map[s] # n) => Load(nodes, n) = nodes[n].nfo
NodesCounted(src, nodes, map, g, t) == Len(nodes) = (Len(map) - g) + LogicNodes(src)[g] + t
Counted ==
  /\ NodesCounted(source, node, nodeMap, GatesMade, TerminalsMade)
  /\ RoomKept(source, node, nodeMap, GatesMade, TerminalsMade)
  /\ pc = "terminals" => i <= Len(Terminals(source)) + 1

\* New nodes: their fanins are those of the source nodes f, in map so far.
Carried(f, map) == [k \in DOMAIN f |-> map[f[k]]]
Filling(old, c, map, f, nfo) ==
  /\ \E conns : Wired(old, conns)
  /\ Sound(c) /\ Grown(old, c.node)
  /\ \E m : Maps(map, m, old)
  /\ \A k \in DOMAIN f : f[k] \in DOMAIN map
  /\ \E extra : GateFed(old, c, Carried(f, map), nfo, extra)
Takes(map, f, g, t, h, u) ==
  \A s \in DOMAIN map : Taken(source, s, h, u) = Taken(source, s, g, t) + Cardinality(FedBy(f, s))
Filled(c, map, nfo, h, u) ==
  /\ \A s \in DOMAIN map : /\ c.node[map[s]].nfo = FanoutNum(source, s)
                           /\ Load(c.node, map[s]) = Taken(source, s, h, u)
                           /\ map[s] # Top(c)
  /\ \A n \in DOMAIN c.node :
       n # Top(c) /\ (\A s \in DOMAIN map : map[s] # n) => Load(c.node, n) = c.node[n].nfo
  /\ Load(c.node, Top(c)) = 0 /\ c.node[Top(c)].nfo = nfo

LEMMA RoomFilled ==
  ASSUME NEW old, NEW c, NEW map, NEW f, NEW nfo, Filling(old, c, map, f, nfo),
         NEW g, NEW t, RoomKept(source, old, map, g, t), NEW h, NEW u, Takes(map, f, g, t, h, u)
  PROVE  Filled(c, map, nfo, h, u)
<1> DEFINE fanin == Carried(f, map)
<1>0. /\ Sound(c) /\ Grown(old, c.node) /\ (\A s \in DOMAIN map : Drives(old, map[s]))
      /\ \A k \in DOMAIN f : f[k] \in DOMAIN map
  BY DEF Filling, Maps
<1>a. PICK oldConns : Wired(old, oldConns)
  BY DEF Filling
<1>b. PICK extra : GateFed(old, c, fanin, nfo, extra)
  BY DEF Filling
<1>1. /\ old \in Seq(NodeRecs) /\ c.node \in Seq(NodeRecs) /\ Wired(c.node, c.conn)
      /\ \A s \in DOMAIN map : map[s] \in DOMAIN old
      /\ \A n \in DOMAIN old : n \in DOMAIN c.node /\ c.node[n] = old[n]
  <2>1. old \in Seq(NodeRecs) /\ c.node \in Seq(NodeRecs) /\ Wired(c.node, c.conn)
    BY <1>0, <1>a DEF Sound, Builds, Wired
  <2>2. \A n \in DOMAIN old : n \in DOMAIN c.node /\ c.node[n] = old[n]
    BY <1>0, <2>1, GrownFacts DEF Grown
  <2> QED BY <1>0, <2>1, <2>2 DEF Drives
<1>2. \A n : /\ Load(c.node, n) = Load(old, n) + Cardinality(NewPins(old, c.node, n))
             /\ n \notin DOMAIN old => Load(old, n) = 0
             /\ Load(old, n) \in Nat
  BY <1>0, <1>1, <1>a, LoadGrown, PinsFinite
<1>3. DOMAIN fanin = DOMAIN f /\ \A k \in DOMAIN f : fanin[k] = map[f[k]]
  BY DEF Carried
<1> HIDE DEF fanin
<1>4. Cardinality({}) = 0
  BY FS_EmptySet
<1>5. ASSUME NEW s \in DOMAIN map
      PROVE  /\ c.node[map[s]].nfo = FanoutNum(source, s)
             /\ Load(c.node, map[s]) = Taken(source, s, h, u)
             /\ map[s] # Top(c)
  <2>1. FedBy(fanin, map[s]) = FedBy(f, s)
    <3>1. \A k \in DOMAIN f : map[f[k]] = map[s] <=> f[k] = s
      BY <1>0 DEF RoomKept
    <3> QED BY <1>3, <3>1 DEF FedBy
  <2>2. Cardinality(NewPins(old, c.node, map[s])) = Cardinality(FedBy(f, s))
    BY <1>1, <1>b, <2>1 DEF GateFed
  <2>3. Load(old, map[s]) = Taken(source, s, g, t) /\ old[map[s]].nfo = FanoutNum(source, s)
    BY DEF RoomKept
  <2>4. Load(c.node, map[s]) = Taken(source, s, h, u)
    BY <1>2, <2>2, <2>3 DEF Takes
  <2> QED BY <1>1, <1>b, <2>3, <2>4 DEF GateFed
<1>6. ASSUME NEW n \in DOMAIN c.node, n # Top(c), \A s \in DOMAIN map : map[s] # n
      PROVE  Load(c.node, n) = c.node[n].nfo
  <2> DEFINE new == Cardinality(NewPins(old, c.node, n))
  <2>0. Load(c.node, n) = Load(old, n) + new /\ Load(old, n) \in Nat
    BY <1>2
  <2>1. CASE n \in DOMAIN old
    <3>1. FedBy(fanin, n) = {}
      BY <1>0, <1>3, <1>6 DEF FedBy
    <3>2. new = 0
      BY <1>4, <1>b, <2>1, <3>1 DEF GateFed
    <3>3. Load(old, n) = old[n].nfo
      BY <1>6, <2>1 DEF RoomKept
    <3>4. Load(c.node, n) = Load(old, n)
      <4> HIDE DEF new
      <4> QED BY <2>0, <3>2
    <3> QED BY <1>1, <2>1, <3>3, <3>4
  <2>2. CASE n \notin DOMAIN old
    <3>1. new = c.node[n].nfo
      BY <1>6, <1>b, <2>2 DEF GateFed
    <3>2. Load(old, n) = 0
      BY <1>2, <2>2
    <3>3. new \in Nat
      <4>1. c.node[n] \in NodeRecs
        BY <1>1
      <4> QED BY <3>1, <4>1 DEF NodeRecs
    <3> HIDE DEF new
    <3> QED BY <2>0, <3>1, <3>2, <3>3
  <2> QED BY <2>1, <2>2
<1>7. Load(c.node, Top(c)) = 0 /\ c.node[Top(c)].nfo = nfo
  <2>1. Top(c) \notin DOMAIN old /\ NewPins(old, c.node, Top(c)) = {} /\ c.node[Top(c)].nfo = nfo
    BY <1>b DEF GateFed
  <2>2. Cardinality(NewPins(old, c.node, Top(c))) = 0
    BY <1>4, <2>1
  <2>3. Load(c.node, Top(c)) = Load(old, Top(c)) + 0 /\ Load(old, Top(c)) = 0
    BY <1>2, <2>1, <2>2
  <2> QED BY <2>1, <2>3
<1> QED BY <1>5, <1>6, <1>7 DEF Filled

\* The next source node, and a node that is none.
LEMMA RoomForNext ==
  ASSUME NEW old, NEW c, NEW map, NEW f, Filling(old, c, map, f, FanoutNum(source, Len(map) + 1)),
         NEW g, NEW t, RoomKept(source, old, map, g, t), NEW h, NEW u, Takes(map, f, g, t, h, u),
         Taken(source, Len(map) + 1, h, u) = 0
  PROVE  RoomKept(source, c.node, Append(map, Top(c)), h, u)
<1> DEFINE next == Append(map, Top(c))
           l == Len(map)
           num == FanoutNum(source, l + 1)
<1>1. Filled(c, map, num, h, u)
  BY RoomFilled
<1> HIDE DEF num
<1>2. \A s \in DOMAIN map : /\ c.node[map[s]].nfo = FanoutNum(source, s)
                            /\ Load(c.node, map[s]) = Taken(source, s, h, u)
                            /\ map[s] # Top(c)
  BY <1>1 DEF Filled
<1>3. \A n \in DOMAIN c.node :
        n # Top(c) /\ (\A s \in DOMAIN map : map[s] # n) => Load(c.node, n) = c.node[n].nfo
  BY <1>1 DEF Filled
<1>4. Load(c.node, Top(c)) = 0 /\ c.node[Top(c)].nfo = num
  BY <1>1 DEF Filled
<1>5. \A r, s \in DOMAIN map : map[r] = map[s] => r = s
  BY DEF RoomKept
<1>6. /\ DOMAIN map = 1 .. l /\ l \in Nat /\ DOMAIN next = 1 .. l + 1
      /\ \A s \in 1 .. l : next[s] = map[s]
      /\ next[l + 1] = Top(c)
      /\ \A s \in 1 .. l + 1 : s \in 1 .. l \/ s = l + 1
  <2>1. map \in Seq(Nat) /\ Top(c) \in Nat
    BY DEF Filling, Maps, Sound, Builds, Top
  <2> DEFINE x == Top(c)
  <2>2. x \in Nat
    BY <2>1
  <2> HIDE DEF x
  <2> QED BY <2>1, <2>2, AppendFacts DEF x
<1> HIDE DEF next, l
<1>7. \A r, s \in DOMAIN next : next[r] = next[s] => r = s
  BY <1>2, <1>5, <1>6
<1>8. ASSUME NEW s \in DOMAIN next
      PROVE  c.node[next[s]].nfo = FanoutNum(source, s) /\ Load(c.node, next[s]) = Taken(source, s, h, u)
  <2>1. CASE s \in 1 .. l
    BY <1>2, <1>6, <2>1
  <2>2. CASE s = l + 1
    BY <1>4, <1>6, <2>2 DEF num, l
  <2> QED BY <1>6, <2>1, <2>2
<1>9. \A n \in DOMAIN c.node : (\A s \in DOMAIN next : next[s] # n) => Load(c.node, n) = c.node[n].nfo
  <2>1. l + 1 \in 1 .. l + 1 /\ \A s \in 1 .. l : s \in 1 .. l + 1
    BY <1>6
  <2> QED BY <1>3, <1>6, <2>1
<1> QED BY <1>7, <1>8, <1>9 DEF RoomKept, next

LEMMA RoomWithTerminal ==
  ASSUME NEW old, NEW c, NEW map, NEW f, Filling(old, c, map, f, 0),
         NEW g, NEW t, RoomKept(source, old, map, g, t), NEW h, NEW u, Takes(map, f, g, t, h, u)
  PROVE  RoomKept(source, c.node, map, h, u)
<1>1. Filled(c, map, 0, h, u)
  BY RoomFilled
<1>2. \A r, s \in DOMAIN map : map[r] = map[s] => r = s
  BY DEF RoomKept
<1>3. \A n \in DOMAIN c.node : (\A s \in DOMAIN map : map[s] # n) => Load(c.node, n) = c.node[n].nfo
  BY <1>1 DEF Filled
<1> QED BY <1>1, <1>2, <1>3 DEF Filled, RoomKept

-----------------------------------------------------------------------------
(* The steps.                                                              *)

\* A build that starts from the nodes there are.
Start == [node |-> node, conn |-> conn, site |-> << >>, leaf |-> << >>, at |-> << >>]
LEMMA OneMade ==
  ASSUME Building, NEW type, NEW fanin, NEW num, Fits(node, type, fanin, num),
         NEW c, c = Prim(Start, type, fanin, num)
  PROVE  /\ Sound(c) /\ Grown(node, c.node) /\ c.node = Append(node, NewNode(type, fanin, num))
         /\ GateFed(node, c, fanin, num, 0) /\ Top(c) = Len(node) + 1
<1> DEFINE b == Start
<1>1. Wired(node, conn) /\ node \in Seq(NodeRecs) /\ conn \in Seq(Pairs)
  BY DEF Building, Wired, Pairs
<1>2. b.node = node /\ b.conn = conn /\ b \in Builds
  BY <1>1 DEF Builds, Start
<1>3. c = [b EXCEPT !.node = Append(node, NewNode(type, fanin, num)),
                    !.conn = conn \o [k \in DOMAIN fanin |-> <<fanin[k], Len(node) + 1>>]]
  BY <1>2 DEF Prim, NewNode
<1> HIDE DEF b
<1>4. c.node = Append(node, NewNode(type, fanin, num))
  BY <1>2, <1>3 DEF Builds
<1>5. Sound(b) /\ Fits(b.node, type, fanin, num)
  BY <1>1, <1>2 DEF Sound
<1>6. c = Prim(b, type, fanin, num)
  BY DEF b
<1>7. Sound(c) /\ Grown(b.node, c.node) /\ Top(c) = Len(b.node) + 1
  BY <1>5, <1>6, PrimFacts
<1>8. GateFed(b.node, c, fanin, num, 0)
  BY <1>5, <1>6, PrimFed
<1> QED BY <1>2, <1>4, <1>7, <1>8

LEMMA PpiCounted ==
  ASSUME Building, Counted, pc \in {"inputs", "dffs"}, NEW type \in {"Input", "DffOutput"}, MakePpi(type)
  PROVE  NodesCounted(source, node', nodeMap', 0, 0) /\ RoomKept(source, node', nodeMap', 0, 0)
<1> DEFINE num == FanoutNum(source, Len(nodeMap) + 1)
           c == Prim(Start, type, << >>, num)
<1>1. ProperSource(source) /\ num \in Nat
  BY AnyMade, FanoutNumType
<1>2. Maps(nodeMap, Made, node) /\ nodeMap \in Seq(Nat) /\ Wired(node, conn)
  BY DEF Building, Maps
<1>3. Fits(node, type, << >>, num)
  <2>1. << >> \in Seq(Nat) /\ DOMAIN << >> = {}
    OBVIOUS
  <2>2. type \in C!NodeTypes /\ type \in C!NoFanin /\ type \notin C!OneFanin
    BY DEF C!NodeTypes, C!GateTypes, C!NoFanin, C!PpiTypes, C!OneFanin, C!PpoTypes, C!ControlTypes
  <2> QED BY <1>1, <2>1, <2>2 DEF Fits, Fed, Arity
<1>4. c = Prim(Start, type, << >>, num)
  OBVIOUS
<1>5. node' = Append(node, NewNode(type, << >>, num)) /\ nodeMap' = Append(nodeMap, Len(node) + 1)
  BY DEF MakePpi, NewNode
<1> HIDE DEF c, num
<1>6. /\ Sound(c) /\ Grown(node, c.node) /\ c.node = Append(node, NewNode(type, << >>, num))
      /\ GateFed(node, c, << >>, num, 0) /\ Top(c) = Len(node) + 1
  BY <1>3, <1>4, OneMade
<1>7. GatesMade = 0 /\ TerminalsMade = 0
  BY DEF GatesMade, TerminalsMade
<1>8. DOMAIN << >> = {} /\ Carried(<< >>, nodeMap) = << >>
  BY DEF Carried
<1>9. Filling(node, c, nodeMap, << >>, num)
  <2>1. \A k \in DOMAIN << >> : <<  >>[k] \in DOMAIN nodeMap
    OBVIOUS
  <2> QED BY <1>2, <1>6, <1>8, <2>1 DEF Filling
<1>10. RoomKept(source, node, nodeMap, 0, 0) /\ NodesCounted(source, node, nodeMap, 0, 0)
  BY <1>7 DEF Counted
<1>11. Takes(nodeMap, << >>, 0, 0, 0, 0)
  <2>1. \A s : FedBy(<< >>, s) = {}
    BY <1>8 DEF FedBy
  <2>2. Cardinality({}) = 0
    BY FS_EmptySet
  <2>3. \A s : Taken(source, s, 0, 0) \in Nat
    <3> TAKE s
    <3> DEFINE a == Cardinality(TakenByTerminals(source, s, 0))
               b == Cardinality(TakenByGates(source, s, 0))
    <3>1. a \in Nat /\ b \in Nat
      BY <1>1, TakenFinite
    <3>2. Taken(source, s, 0, 0) = a + b
      BY DEF Taken
    <3> HIDE DEF a, b
    <3> QED BY <3>1, <3>2
  <2>4. ASSUME NEW s PROVE Taken(source, s, 0, 0) = Taken(source, s, 0, 0) + Cardinality(FedBy(<< >>, s))
    <3> DEFINE x == Taken(source, s, 0, 0)
               y == Cardinality(FedBy(<< >>, s))
    <3>1. x \in Nat /\ y = 0
      BY <2>1, <2>2, <2>3
    <3> HIDE DEF x, y
    <3>2. x = x + y
      BY <3>1
    <3> QED BY <3>2 DEF x, y
  <2> QED BY <2>4 DEF Takes
<1>12. Len(nodeMap) \in Nat /\ Len(nodeMap) + 1 \in Nat
  BY <1>2
<1>13. Taken(source, Len(nodeMap) + 1, 0, 0) = 0
  BY <1>1, <1>12, TakenNone
<1>14. RoomKept(source, c.node, Append(nodeMap, Top(c)), 0, 0)
  BY <1>9, <1>10, <1>11, <1>13, RoomForNext DEF num
<1>15. NodesCounted(source, node', nodeMap', 0, 0)
  <2> DEFINE x == Len(node)
             y == Len(nodeMap)
  <2>1. x = (y - 0) + 0 + 0 /\ LogicNodes(source)[0] = 0
    BY <1>1, <1>10, LogicNodesAre DEF NodesCounted
  <2>2. Len(c.node) = x + 1 + 0
    BY <1>6 DEF GateFed
  <2>3. Len(nodeMap') = y + 1
    <3>1. x + 1 \in Nat
      <4>1. node \in Seq(NodeRecs)
        BY <1>2 DEF Wired
      <4> QED BY <4>1
    <3> HIDE DEF x
    <3> QED BY <1>2, <1>5, <3>1, AppendFacts DEF x
  <2>4. y \in Nat
    BY <1>12
  <2> HIDE DEF x, y
  <2>5. Len(c.node) = (y + 1 - 0) + 0 + 0
    BY <2>1, <2>2, <2>4
  <2> QED BY <1>5, <1>6, <2>1, <2>3, <2>5 DEF NodesCounted
<1> QED BY <1>5, <1>6, <1>14, <1>15

LEMMA LogicCounted ==
  ASSUME Building, Counted, MakeLogicNode
  PROVE  NodesCounted(source, node', nodeMap', i, 0) /\ RoomKept(source, node', nodeMap', i, 0)
<1> DEFINE g == source.logic[i]
           num == FanoutNum(source, Len(nodeMap) + 1)
           c == GateBuild(g, FaninNodes(g, nodeMap), num)
           first == source.inputs + Len(source.dff) + i
           l == Len(nodeMap)
<1>1. ProperSource(source) /\ num \in Nat /\ i \in Nat /\ i # 0
  BY AnyMade, FanoutNumType
<1>2. Maps(nodeMap, Made, node) /\ nodeMap \in Seq(Nat) /\ Wired(node, conn) /\ node \in Seq(NodeRecs) /\ l = Made
  BY SMTT(40) DEF Building, Maps, Wired
<1>3. pc = "logic" /\ i \in 1 .. Len(source.logic)
  BY <1>1, SourceFacts DEF MakeLogicNode
<1>4. ProperGate(g, first) /\ first \in Nat \ {0} /\ Made = first - 1
  <2>1. Made = source.inputs + Len(source.dff) + (i - 1)
    BY <1>3 DEF Made
  <2>2. source.inputs \in Nat /\ Len(source.dff) \in Nat /\ ProperGate(g, first)
    BY <1>1, <1>3, SourceFacts
  <2> QED BY SMTT(40), <1>1, <2>1, <2>2
<1>5. node' = c.node /\ nodeMap' = Append(nodeMap, Top(c))
  BY Zenon DEF MakeLogicNode, FaninNodes
<1>6. LogicNodes(source)[i] = LogicNodes(source)[i - 1] + 1 + ExtraNodes(g)
  BY <1>1, <1>3, LogicNodesAre
<1>7. \A s : Taken(source, s, i, 0) = Taken(source, s, i - 1, 0) + Cardinality(FedBy(g.fanin, s))
  BY <1>1, <1>3, TakenByGate
<1>8. GatesMade = i - 1 /\ TerminalsMade = 0
  BY <1>3 DEF GatesMade, TerminalsMade
<1>9. first >= source.inputs + Len(source.dff) + i
  <2>1. first \in Nat
    BY <1>4
  <2> DEFINE x == first
  <2>2. x >= x
    <3> HIDE DEF x
    <3>1. x \in Nat
      BY <2>1 DEF x
    <3> QED BY <3>1
  <2> QED BY <2>2
<1>10. Taken(source, first, i, 0) = 0
  <2>1. first \in Nat
    BY <1>4
  <2> QED BY <1>1, <1>9, <2>1, TakenNone
<1> HIDE DEF g, num, first, c, l
<1>11. GateDone(node, c) /\ GateFed(node, c, Carried(g.fanin, nodeMap), num, ExtraNodes(g))
  <2>1. GateDone(node, GateBuild(g, FaninNodes(g, nodeMap), num))
    BY <1>1, <1>2, <1>4, GateBuildFacts
  <2>2. GateFed(node, GateBuild(g, FaninNodes(g, nodeMap), num), FaninNodes(g, nodeMap), num, ExtraNodes(g))
    BY <1>1, <1>2, <1>4, GateBuildFed
  <2>3. FaninNodes(g, nodeMap) = Carried(g.fanin, nodeMap)
    BY DEF FaninNodes, Carried
  <2> QED BY <2>1, <2>2, <2>3 DEF c
<1>12. l = first - 1 /\ l + 1 = first /\ DOMAIN nodeMap = 1 .. first - 1
  <2>1. l = first - 1 /\ DOMAIN nodeMap = 1 .. l
    BY <1>2, <1>4 DEF l
  <2> QED BY <1>4, <2>1
<1>13. Filling(node, c, nodeMap, g.fanin, num)
  <2>1. \A k \in DOMAIN g.fanin : g.fanin[k] \in DOMAIN nodeMap
    <3>1. g.fanin \in Seq(1 .. first - 1)
      BY <1>4 DEF ProperGate
    <3> QED BY <1>12, <3>1
  <2> QED BY <1>2, <1>11, <2>1 DEF Filling, GateDone
<1>14. RoomKept(source, node, nodeMap, i - 1, 0) /\ NodesCounted(source, node, nodeMap, i - 1, 0)
  BY <1>8 DEF Counted
<1>15. Takes(nodeMap, g.fanin, i - 1, 0, i, 0)
  BY <1>7 DEF Takes
<1>16. RoomKept(source, c.node, Append(nodeMap, Top(c)), i, 0)
  BY <1>10, <1>12, <1>13, <1>14, <1>15, RoomForNext DEF num, l
<1>17. NodesCounted(source, node', nodeMap', i, 0)
  <2> DEFINE x == Len(node)
             y == LogicNodes(source)[i - 1]
             e == ExtraNodes(g)
  <2>1. x = (l - (i - 1)) + y + 0
    BY <1>14 DEF NodesCounted, l
  <2>2. Len(c.node) = x + 1 + e
    BY <1>11 DEF GateFed
  <2>3. Len(nodeMap') = l + 1
    <3>1. Top(c) \in Nat
      BY <1>11 DEF GateDone, Sound, Builds, Top
    <3> QED BY <1>2, <1>5, <3>1, AppendFacts DEF l
  <2>4. l \in Nat /\ y \in Nat /\ e \in Nat
    <3>1. l \in Nat
      BY <1>2 DEF l
    <3>2. e \in Nat
      BY <1>4, ExtraNodesType
    <3>3. i - 1 \in 0 .. Len(source.logic)
      BY <1>3
    <3>4. y \in Nat
      BY <1>1, <3>3, LogicNodesAre
    <3> QED BY <3>1, <3>2, <3>4
  <2>5. LogicNodes(source)[i] = y + 1 + e
    BY <1>6
  <2> HIDE DEF x, y, e
  <2>6. Len(c.node) = (l + 1 - i) + (y + 1 + e) + 0
    BY <1>1, <2>1, <2>2, <2>4
  <2>7. Len(c.node) = (Len(nodeMap') - i) + LogicNodes(source)[i] + 0
    <3> DEFINE z == LogicNodes(source)[i]
               m == Len(nodeMap')
    <3>1. z = y + 1 + e /\ m = l + 1
      BY <2>3, <2>5
    <3> HIDE DEF z, m
    <3>2. Len(c.node) = (m - i) + z + 0
      BY <1>1, <2>4, <2>6, <3>1
    <3> QED BY <3>2 DEF z, m
  <2> QED BY <1>5, <2>7 DEF NodesCounted
<1> QED BY <1>5, <1>16, <1>17

LEMMA TerminalCounted ==
  ASSUME Building, Counted, MakeTerminalNode
  PROVE  /\ NodesCounted(source, node', nodeMap', Len(source.logic), i)
         /\ RoomKept(source, node', nodeMap', Len(source.logic), i)
         /\ i + 1 <= Len(Terminals(source)) + 1
<1> DEFINE t == Terminals(source)[i]
           s == t[2]
           n == Len(node) + 1
           fanin == <<nodeMap[s]>>
           L == Len(source.logic)
           c == Prim(Start, t[1], fanin, 0)
<1>1. ProperSource(source) /\ All(source) \in Nat /\ i \in Nat /\ i # 0 /\ L \in Nat
  BY AnyMade, SourceFacts
<1>2. Wired(node, conn) /\ node \in Seq(NodeRecs) /\ Maps(nodeMap, Made, node) /\ Made = All(source)
  BY DEF Building, Wired, Made, MakeTerminalNode
<1>3. /\ node' = Append(node, NewNode(t[1], fanin, 0)) /\ nodeMap' = nodeMap
      /\ pc = "terminals" /\ i \in DOMAIN Terminals(source)
  BY Zenon DEF MakeTerminalNode, NewNode
<1>4. i \in 1 .. Len(Terminals(source)) /\ Len(Terminals(source)) \in Nat
  BY <1>1, <1>3, TakenFinite
<1>5. t[1] \in TerminalTypes /\ t[2] \in 1 .. All(source)
  <2>1. Terminals(source) \in Seq(TerminalTypes \X (1 .. All(source)))
    BY <1>1, TerminalsType
  <2>2. t \in TerminalTypes \X (1 .. All(source))
    BY <1>3, <2>1
  <2> HIDE DEF t
  <2> QED BY <2>2
<1>6. \A r : Taken(source, r, L, i) = Taken(source, r, L, i - 1) + Cardinality(FedBy(<<s>>, r))
  BY <1>1, <1>4, TakenByTerminal
<1>7. GatesMade = L /\ TerminalsMade = i - 1
  BY <1>3 DEF GatesMade, TerminalsMade
<1>8. c = Prim(Start, t[1], fanin, 0)
  OBVIOUS
<1> HIDE DEF c, t, L
<1>9. nodeMap[s] \in Nat /\ Drives(node, nodeMap[s]) /\ s \in DOMAIN nodeMap
  <2>1. DOMAIN nodeMap = 1 .. All(source) /\ \A r \in DOMAIN nodeMap : nodeMap[r] \in Nat
    BY <1>1, <1>2 DEF Maps
  <2> QED BY <1>2, <1>5, <2>1 DEF Maps
<1>10. fanin = Carried(<<s>>, nodeMap) /\ DOMAIN <<s>> = {1} /\ <<s>>[1] = s
  <2>1. DOMAIN <<s>> = {1} /\ <<s>>[1] = s
    OBVIOUS
  <2> QED BY <2>1 DEF Carried
<1>11. Fits(node, t[1], fanin, 0)
  <2>1. fanin \in Seq(Nat) /\ DOMAIN fanin = {1} /\ fanin[1] = nodeMap[s] /\ fanin # << >> /\ Len(fanin) = 1
    BY <1>9
  <2>2. t[1] \in C!NodeTypes /\ t[1] \notin C!NoFanin
    BY <1>5 DEF TerminalTypes, C!NodeTypes, C!GateTypes, C!PpoTypes, C!ControlTypes, C!NoFanin, C!PpiTypes
  <2> HIDE DEF fanin
  <2> QED BY <1>9, <2>1, <2>2 DEF Fits, Fed, Arity
<1> HIDE DEF fanin
<1>12. /\ Sound(c) /\ Grown(node, c.node) /\ c.node = Append(node, NewNode(t[1], fanin, 0))
       /\ GateFed(node, c, fanin, 0, 0)
  BY SMTT(40), <1>8, <1>11, OneMade
<1> HIDE DEF s
<1>13. Filling(node, c, nodeMap, <<s>>, 0)
  <2>1. \A k \in DOMAIN <<s>> : <<s>>[k] \in DOMAIN nodeMap
    BY <1>9, <1>10
  <2> DEFINE f == <<s>>
  <2>2. GateFed(node, c, Carried(f, nodeMap), 0, 0)
    BY <1>10, <1>12
  <2> HIDE DEF f
  <2>3. \A k \in DOMAIN f : f[k] \in DOMAIN nodeMap
    BY <2>1 DEF f
  <2>4. Filling(node, c, nodeMap, f, 0)
    BY <1>2, <1>12, <2>2, <2>3 DEF Filling
  <2> QED BY <2>4 DEF f
<1>14. RoomKept(source, node, nodeMap, L, i - 1) /\ NodesCounted(source, node, nodeMap, L, i - 1)
  BY <1>7 DEF Counted
<1>15. Takes(nodeMap, <<s>>, L, i - 1, L, i)
  BY <1>6 DEF Takes
<1>16. RoomKept(source, c.node, nodeMap, L, i)
  BY <1>13, <1>14, <1>15, RoomWithTerminal
<1>17. NodesCounted(source, c.node, nodeMap, L, i)
  <2> DEFINE x == Len(node)
             y == Len(nodeMap)
             z == LogicNodes(source)[L]
  <2>1. x = (y - L) + z + (i - 1)
    BY <1>14 DEF NodesCounted
  <2>2. Len(c.node) = x + 1 + 0
    BY <1>12 DEF GateFed
  <2>3. y \in Nat /\ z \in Nat
    <3>1. L \in 0 .. L
      BY <1>1
    <3> QED BY <1>1, <1>2, <3>1, LogicNodesAre DEF Maps, L
  <2> HIDE DEF x, y, z
  <2>4. Len(c.node) = (y - L) + z + i
    BY <1>1, <2>1, <2>2, <2>3
  <2> QED BY <2>4 DEF NodesCounted, y, z
<1>18. i + 1 <= Len(Terminals(source)) + 1
  BY <1>4
<1> QED BY <1>3, <1>12, <1>16, <1>17, <1>18 DEF L

LEMMA CountedNext ==
  ASSUME source' = source, NodesCounted(source, node', nodeMap', GatesMade', TerminalsMade'),
         RoomKept(source, node', nodeMap', GatesMade', TerminalsMade'),
         pc' = "terminals" => i' <= Len(Terminals(source)) + 1
  PROVE  Counted'
BY DEF Counted

LEMMA MakingCounts ==
  ASSUME Building, Counted, Making
  PROVE  Counted'
<1>1. source' = source /\ pc' = pc /\ i' = i + 1 /\ i \in Nat
  BY Zenon, AnyMade DEF Making, MakeInputNode, MakeDffOutputNode, MakeLogicNode, MakeTerminalNode, MakePpi
<1>2. CASE MakeInputNode
  <2>1. pc = "inputs" /\ MakePpi("Input")
    BY <1>2 DEF MakeInputNode
  <2>2. NodesCounted(source, node', nodeMap', 0, 0) /\ RoomKept(source, node', nodeMap', 0, 0)
    BY <2>1, PpiCounted
  <2>3. GatesMade' = 0 /\ TerminalsMade' = 0
    BY <1>1, <2>1 DEF GatesMade, TerminalsMade
  <2> QED BY <1>1, <2>1, <2>2, <2>3, CountedNext
<1>3. CASE MakeDffOutputNode
  <2>1. pc = "dffs" /\ MakePpi("DffOutput")
    BY <1>3 DEF MakeDffOutputNode
  <2>2. NodesCounted(source, node', nodeMap', 0, 0) /\ RoomKept(source, node', nodeMap', 0, 0)
    BY <2>1, PpiCounted
  <2>3. GatesMade' = 0 /\ TerminalsMade' = 0
    BY <1>1, <2>1 DEF GatesMade, TerminalsMade
  <2> QED BY <1>1, <2>1, <2>2, <2>3, CountedNext
<1>4. CASE MakeLogicNode
  <2>1. pc = "logic"
    BY <1>4, Zenon DEF MakeLogicNode
  <2>2. NodesCounted(source, node', nodeMap', i, 0) /\ RoomKept(source, node', nodeMap', i, 0)
    BY <1>4, LogicCounted
  <2>3. GatesMade' = i /\ TerminalsMade' = 0
    BY <1>1, <2>1 DEF GatesMade, TerminalsMade
  <2> QED BY <1>1, <2>1, <2>2, <2>3, CountedNext
<1>5. CASE MakeTerminalNode
  <2>1. pc = "terminals"
    BY <1>5 DEF MakeTerminalNode
  <2>2. /\ NodesCounted(source, node', nodeMap', Len(source.logic), i)
        /\ RoomKept(source, node', nodeMap', Len(source.logic), i)
        /\ i + 1 <= Len(Terminals(source)) + 1
    BY <1>5, TerminalCounted
  <2>3. GatesMade' = Len(source.logic) /\ TerminalsMade' = i
    BY <1>1, <2>1 DEF GatesMade, TerminalsMade
  <2> QED BY <1>1, <2>1, <2>2, <2>3, CountedNext
<1> QED BY SMTT(40), <1>2, <1>3, <1>4, <1>5 DEF Making

LEMMA LoopCounts ==
  ASSUME Building, Counted, NextLoop
  PROVE  Counted'
<1>1. /\ pc # "done" /\ i > Length /\ pc' = Following[pc] /\ i' = 1
      /\ source' = source /\ node' = node /\ nodeMap' = nodeMap
  BY DEF NextLoop, built
<1>2. /\ pc \in DOMAIN Following /\ i \in Nat
      /\ pc \in {"inputs", "dffs", "logic"} => i <= Length + 1
      /\ pc = "terminals" => i <= Len(Terminals(source)) + 1
      /\ NodesCounted(source, node, nodeMap, GatesMade, TerminalsMade)
      /\ RoomKept(source, node, nodeMap, GatesMade, TerminalsMade)
  BY <1>1, AnyMade DEF Building, Counted
<1>3. ProperSource(source) /\ Len(source.logic) \in Nat /\ Len(Terminals(source)) \in Nat
  BY AnyMade, SourceFacts, TakenFinite
<1>4. GatesMade' = GatesMade /\ TerminalsMade' = TerminalsMade
  <2>1. CASE pc \in {"inputs", "dffs"}
    <3>1. pc' \in {"dffs", "logic"}
      BY <1>1, <2>1 DEF Following
    <3> QED BY <1>1, <2>1, <3>1 DEF GatesMade, TerminalsMade
  <2>2. CASE pc = "logic"
    <3>1. pc' = "terminals"
      BY <1>1, <2>2 DEF Following
    <3>2. i - 1 = Len(source.logic)
      BY <1>1, <1>2, <1>3, <2>2 DEF Length
    <3> QED BY <1>1, <2>2, <3>1, <3>2 DEF GatesMade, TerminalsMade
  <2>3. CASE pc = "terminals"
    <3>1. pc' = "fanouts"
      BY <1>1, <2>3 DEF Following
    <3>2. i - 1 = Len(Terminals(source))
      BY <1>1, <1>2, <1>3, <2>3 DEF Length
    <3> QED BY <1>1, <2>3, <3>1, <3>2 DEF GatesMade, TerminalsMade
  <2>4. CASE pc \notin {"inputs", "dffs", "logic", "terminals"}
    <3>1. pc' \notin {"inputs", "dffs", "logic", "terminals"}
      BY <1>1, <1>2, <2>4 DEF Following
    <3> QED BY <1>1, <2>4, <3>1 DEF GatesMade, TerminalsMade
  <2> QED BY <2>1, <2>2, <2>3, <2>4
<1>5. i' <= Len(Terminals(source)) + 1
  BY <1>1, <1>3
<1> QED BY <1>1, <1>2, <1>4, <1>5, CountedNext

LEMMA OthersCount ==
  ASSUME Counted, Analysing \/ SetRepFaults \/ UNCHANGED networkVars
  PROVE  Counted'
<1>1. /\ source' = source /\ pc' = pc /\ node' = node /\ nodeMap' = nodeMap
      /\ pc \in {"inputs", "dffs", "logic", "terminals"} => i' = i
  BY DEF Analysing, SetFanouts, SetRepFaults, SortOutputs, SetImmDom, BeginFfr, VisitFfr, BeginMffc, VisitMffc,
         networkVars, built
<1>2. GatesMade' = GatesMade /\ TerminalsMade' = TerminalsMade
  BY <1>1 DEF GatesMade, TerminalsMade
<1>3. /\ NodesCounted(source, node, nodeMap, GatesMade, TerminalsMade)
      /\ RoomKept(source, node, nodeMap, GatesMade, TerminalsMade)
      /\ pc = "terminals" => i <= Len(Terminals(source)) + 1
  BY DEF Counted
<1> QED BY SMTT(40), <1>1, <1>2, <1>3, CountedNext

-----------------------------------------------------------------------------
(* The sizes are sufficient.                                               *)

\* A node has a fanout for each pin that it feeds.
LEMMA FanoutCount ==
  ASSUME Wired(node, conn), NEW n \in DOMAIN node
  PROVE  Len(FanoutsOf(n)) = Load(node, n)
<1> DEFINE S == {n} \X DOMAIN node
           edges == Within(conn, S)
           l == Len(edges)
           J == {m \in DOMAIN conn : conn[m] \in S}
           F == FedPins(node, n)
<1>1. Len(FanoutsOf(n)) = l
  BY EdgeFacts
<1>2. conn \in Seq(Pairs) /\ DOMAIN conn = 1 .. Len(conn)
  BY DEF Wired, Pairs
<1>3. edges \in Seq(Pairs) /\ \E pos : Picks(pos, edges, Len(conn), conn, S)
  <2> HIDE DEF S
  <2> QED BY <1>2, WithinPicks
<1>4. l \in Nat
  BY <1>3
<1>5. PICK pos : Picks(pos, edges, Len(conn), conn, S)
  BY <1>3
<1> HIDE DEF edges
<1>6. OneToOne(pos, 1 .. l, J)
  <2> HIDE DEF S
  <2>1. \A j \in 1 .. l : pos[j] \in J
    BY <1>2, <1>5 DEF Picks
  <2>2. \A j, k \in 1 .. l : pos[j] = pos[k] => j = k
    <3>1. \A j, k \in 1 .. l : j < k => pos[j] < pos[k]
      BY <1>5 DEF Picks
    <3>2. \A j \in 1 .. l : pos[j] \in Nat
      BY <1>5 DEF Picks
    <3> HIDE DEF l
    <3>3. \A j, k \in 1 .. l : j = k \/ j < k \/ k < j
      BY <1>4
    <3>4. \A j, k \in 1 .. l : pos[j] = pos[k] => ~ (pos[j] < pos[k]) /\ ~ (pos[k] < pos[j])
      BY <3>2
    <3> QED BY <3>1, <3>3, <3>4
  <2>3. \A m \in J : \E j \in 1 .. l : pos[j] = m
    BY <1>2, <1>5 DEF Picks
  <2> QED BY <2>1, <2>2, <2>3 DEF OneToOne
<1>7. PICK at : Wires(at, node, conn)
  BY DEF Wired
<1>8. OneToOne(at, F, J)
  <2>1. \A p \in PinsOf(node) : at[p] \in DOMAIN conn /\ conn[at[p]] = <<Line(node, p), p[1]>> /\ p[1] \in DOMAIN node
    BY <1>7 DEF Wires, Line, PinsOf
  <2>2. \A p \in F : p \in PinsOf(node) /\ Line(node, p) = n
    BY DEF FedPins
  <2>3. \A p \in F : at[p] \in J
    <3> SUFFICES ASSUME NEW p \in F PROVE at[p] \in J
      OBVIOUS
    <3>1. at[p] \in DOMAIN conn /\ conn[at[p]] = <<n, p[1]>> /\ p[1] \in DOMAIN node
      BY <2>1, <2>2
    <3>2. <<n, p[1]>> \in S
      BY <3>1
    <3> QED BY <3>1, <3>2
  <2>4. \A p, q \in F : at[p] = at[q] => p = q
    BY <1>7, <2>2 DEF Wires
  <2>5. ASSUME NEW m \in J PROVE \E p \in F : at[p] = m
    <3>1. m \in DOMAIN conn /\ conn[m] \in S
      OBVIOUS
    <3>2. PICK p \in PinsOf(node) : at[p] = m
      BY <1>7, <3>1 DEF Wires
    <3>3. conn[m] = <<Line(node, p), p[1]>>
      BY <2>1, <3>2
    <3>4. Line(node, p) = n
      BY <3>1, <3>3
    <3> QED BY <3>2, <3>4 DEF FedPins
  <2> HIDE DEF F, J
  <2> QED BY <2>3, <2>4, <2>5 DEF OneToOne
<1>9. IsFiniteSet(F)
  BY PinsFinite
<1>10. Cardinality(J) = Cardinality(F)
  <2> HIDE DEF F, J
  <2> QED BY <1>8, <1>9, SameCount
<1>11. Cardinality(J) = Cardinality(1 .. l) /\ Cardinality(1 .. l) = l
  <2> HIDE DEF J, l
  <2>1. IsFiniteSet(1 .. l) /\ Cardinality(1 .. l) = (IF 1 > l THEN 0 ELSE l - 1 + 1)
    <3>1. 1 \in Int /\ l \in Int
      BY <1>4
    <3> QED BY <3>1, FS_Interval
  <2>2. Cardinality(1 .. l) = l
    BY <1>4, <2>1
  <2> QED BY <1>6, <2>1, <2>2, SameCount
<1> QED BY <1>1, <1>10, <1>11 DEF Load

\* The nodes never outnumber the places, and fill them in the end.
LEMMA PlacesFollow ==
  ASSUME Building, Counted
  PROVE  /\ Len(node) <= NodeNum(source)
         /\ pc \notin {"inputs", "dffs", "logic", "terminals"} => Len(node) = NodeNum(source)
<1> DEFINE p == source.inputs
           d == Len(source.dff)
           L == Len(source.logic)
           T == Len(Terminals(source))
           at(k) == LogicNodes(source)[k]
           m == Len(nodeMap)
<1>1. ProperSource(source) /\ i \in Nat /\ i # 0
  BY AnyMade
<1>2. p \in Nat /\ d \in Nat /\ L \in Nat /\ T \in Nat /\ All(source) = p + d + L
  BY <1>1, SourceFacts, TakenFinite DEF All
<1>3. NodeNum(source) = p + d + T + at(L)
  BY DEF NodeNum
<1>4. Len(node) = (m - GatesMade) + at(GatesMade) + TerminalsMade
  BY DEF Counted, NodesCounted
<1>5. m = Made /\ (pc \in {"inputs", "dffs", "logic"} => i <= Length + 1) /\ (pc = "terminals" => i <= T + 1)
  BY DEF Building, Maps, Counted
<1>6. at(0) = 0 /\ \A k \in 0 .. L : at(k) \in Nat /\ at(k) <= at(L)
  BY <1>1, LogicNodesAre
<1>7. at(L) \in Nat
  BY <1>2, <1>6
<1>8. CASE pc \in {"inputs", "dffs"}
  <2>1. m <= p + d /\ m \in Nat
    BY <1>1, <1>2, <1>5, <1>8 DEF Made, Length
  <2>2. Len(node) = (m - 0) + at(0) + 0
    BY <1>4, <1>8 DEF GatesMade, TerminalsMade
  <2>3. Len(node) = m
    BY <1>6, <2>1, <2>2
  <2> DEFINE all == at(L)
  <2> HIDE DEF p, d, T, m, all
  <2>4. m <= p + d + T + all
    BY <1>2, <1>7, <2>1 DEF all
  <2> QED BY <1>3, <1>8, <2>3, <2>4 DEF all
<1>9. CASE pc = "logic"
  <2> DEFINE k == i - 1
             x == at(k)
             all == at(L)
  <2>1. m = p + d + k /\ k \in 0 .. L /\ k \in Nat
    <3>1. m = p + d + (i - 1) /\ i <= L + 1
      BY <1>5, <1>9 DEF Made, Length
    <3> HIDE DEF m, L, p, d
    <3> QED BY <1>1, <1>2, <3>1
  <2>2. Len(node) = (m - k) + x + 0
    BY <1>4, <1>9 DEF GatesMade, TerminalsMade
  <2>3. x \in Nat /\ x <= all
    BY <1>6, <2>1
  <2> HIDE DEF p, d, T, m, all, x, k
  <2>4. Len(node) <= p + d + T + all
    BY <1>2, <1>7, <2>1, <2>2, <2>3 DEF all
  <2> QED BY <1>3, <1>9, <2>4 DEF all
<1>10. CASE pc = "terminals"
  <2> DEFINE all == at(L)
  <2>1. m = p + d + L
    BY <1>2, <1>5, <1>10 DEF Made
  <2>2. Len(node) = (m - L) + all + (i - 1) /\ i <= T + 1
    BY <1>4, <1>5, <1>10 DEF GatesMade, TerminalsMade
  <2>3. all \in Nat
    BY <1>7
  <2> HIDE DEF p, d, L, T, m, all
  <2>4. Len(node) <= p + d + T + all
    BY <1>1, <1>2, <2>1, <2>2, <2>3
  <2> QED BY <1>3, <1>10, <2>4 DEF all, L
<1>11. CASE pc \notin {"inputs", "dffs", "logic", "terminals"}
  <2> DEFINE all == at(L)
  <2>1. m = p + d + L
    BY <1>2, <1>5, <1>11 DEF Made
  <2>2. Len(node) = (m - L) + all + T
    BY <1>4, <1>11 DEF GatesMade, TerminalsMade
  <2>3. all \in Nat
    BY <1>7
  <2> HIDE DEF p, d, L, T, m, all
  <2>4. Len(node) = p + d + T + all /\ p + d + T + all <= p + d + T + all
    BY <1>2, <2>1, <2>2, <2>3
  <2> QED BY <1>3, <2>4 DEF all, L
<1> QED BY <1>8, <1>9, <1>10, <1>11

LEMMA NothingCounted ==
  ASSUME Init
  PROVE  Counted
<1>1. source \in Sources /\ pc = "inputs" /\ i = 1 /\ node = << >> /\ nodeMap = << >>
  BY DEF Init
<1>2. DOMAIN << >> = {} /\ Len(<< >>) = 0
  OBVIOUS
<1>3. LogicNodes(source)[0] = 0
  BY <1>1, SourcesAssumption, LogicNodesAre
<1>4. GatesMade = 0 /\ TerminalsMade = 0
  BY <1>1 DEF GatesMade, TerminalsMade
<1>5. RoomKept(source, node, nodeMap, 0, 0)
  BY <1>1, <1>2 DEF RoomKept
<1>6. NodesCounted(source, node, nodeMap, 0, 0)
  BY <1>1, <1>2, <1>3 DEF NodesCounted
<1> QED BY <1>1, <1>4, <1>5, <1>6 DEF Counted

LEMMA SizesFollow ==
  ASSUME IInv, Counted
  PROVE  SizesSuffice
<1>1. Building /\ Analysed /\ Wired(node, conn)
  BY DEF IInv, Building
<1>2. Len(node) <= NodeNum(source) /\ (pc = "fanouts" => Len(node) = NodeNum(source))
  BY <1>1, PlacesFollow
<1>3. ASSUME NEW n \in DOMAIN fanout PROVE Len(fanout[n]) = node[n].nfo
  <2>1. ~ Early
    <3>1. Early => DOMAIN fanout = {}
      BY <1>1 DEF Analysed
    <3> QED BY <3>1
  <2>2. n \in DOMAIN node /\ fanout[n] = FanoutsOf(n)
    BY <1>1, <2>1 DEF Analysed
  <2>3. GatesMade = Len(source.logic) /\ TerminalsMade = Len(Terminals(source))
    BY <2>1 DEF Early, GatesMade, TerminalsMade
  <2>4. RoomKept(source, node, nodeMap, Len(source.logic), Len(Terminals(source)))
    BY <2>3 DEF Counted
  <2>5. Load(node, n) = node[n].nfo
    <3>1. CASE \E s \in DOMAIN nodeMap : nodeMap[s] = n
      <4>1. PICK s \in DOMAIN nodeMap : nodeMap[s] = n
        BY <3>1
      <4>2. ProperSource(source)
        BY <1>1, AnyMade
      <4>3. Taken(source, s, Len(source.logic), Len(Terminals(source))) = FanoutNum(source, s)
        BY <4>2, TakenAll
      <4>4. Load(node, n) = FanoutNum(source, s) /\ node[n].nfo = FanoutNum(source, s)
        BY <2>4, <4>1, <4>3 DEF RoomKept
      <4> QED BY <4>4
    <3>2. CASE \A s \in DOMAIN nodeMap : nodeMap[s] # n
      BY <2>2, <2>4, <3>2 DEF RoomKept
    <3> QED BY <3>1, <3>2
  <2>6. Len(FanoutsOf(n)) = Load(node, n)
    BY <1>1, <2>2, FanoutCount
  <2> QED BY <2>2, <2>5, <2>6
<1> QED BY <1>2, <1>3 DEF SizesSuffice

\* set() fills exactly the places it has counted beforehand, dummy buffers, inverters and
\* the chains of wide XORs included (the assertion TpgNetworkImpl.cc:558), and every node
\* gets as many fanouts as it was given room for, whatever the network.
THEOREM SizesAreSufficient == Spec => []SizesSuffice
<1>1. Init => IInv /\ Counted
  BY InitIsGood, NothingCounted
<1>2. IInv /\ Counted /\ [Next]_networkVars => (IInv /\ Counted)'
  <2> SUFFICES ASSUME IInv, Counted, [Next]_networkVars PROVE IInv' /\ Counted'
    OBVIOUS
  <2>1. IInv'
    BY StepsAreGood
  <2>2. Building
    BY DEF IInv
  <2>3. CASE Making
    BY <2>1, <2>2, <2>3, MakingCounts
  <2>4. CASE NextLoop
    BY <2>1, <2>2, <2>4, LoopCounts
  <2>5. CASE Analysing \/ SetRepFaults \/ UNCHANGED networkVars
    BY <2>1, <2>5, OthersCount
  <2> QED BY <2>3, <2>4, <2>5, Zenon DEF Next, Making, Analysing
<1>3. IInv /\ Counted => SizesSuffice
  BY SizesFollow
<1> QED BY <1>1, <1>2, <1>3, PTL DEF Spec

-----------------------------------------------------------------------------
(* What a gate computes when some of its inputs are X.                     *)

Values3 == {"0", "1", "X"}
Below(a, v) == a = "X" \/ v = a

\* A gate whose output does not depend on the inputs that are X has this output.
LEMMA GateFollows ==
  ASSUME NEW op \in Ops, NEW D, NEW a, NEW ins, DOMAIN a = D, DOMAIN ins = D,
         \A j \in D : ins[j] \in {"0", "1"} /\ Below(a[j], ins[j])
  PROVE  Below(GateFunction(op, a), GateFunction(op, ins))
<1>1. \A x : (Some(a, x) <=> \E j \in D : a[j] = x) /\ (Some(ins, x) <=> \E j \in D : ins[j] = x)
  BY DEF Some
<1>2. CASE op = "And"
  <2>1. GateFunction(op, a) = AndOf(a) /\ GateFunction(op, ins) = AndOf(ins)
    BY <1>2 DEF GateFunction
  <2> QED BY <1>1, <2>1 DEF AndOf, Below
<1>3. CASE op = "Or"
  <2>1. GateFunction(op, a) = OrOf(a) /\ GateFunction(op, ins) = OrOf(ins)
    BY <1>3 DEF GateFunction
  <2> QED BY <1>1, <2>1 DEF OrOf, Below
<1>4. CASE op = "Xor"
  <2>1. GateFunction(op, a) = XorOf(a) /\ GateFunction(op, ins) = XorOf(ins)
    BY <1>4 DEF GateFunction
  <2>2. CASE Some(a, "X")
    BY <2>1, <2>2 DEF XorOf, Below
  <2>3. CASE ~ Some(a, "X")
    <3>1. ~ Some(ins, "X") /\ \A j \in D : ins[j] = a[j]
      BY <1>1, <2>3 DEF Below
    <3>2. {j \in DOMAIN a : a[j] = "1"} = {j \in DOMAIN ins : ins[j] = "1"}
      BY <3>1
    <3>3. XorOf(a) = XorOf(ins)
      BY <2>3, <3>1, <3>2 DEF XorOf
    <3> QED BY <2>1, <3>3 DEF Below
  <2> QED BY <2>2, <2>3
<1> QED BY <1>2, <1>3, <1>4 DEF Ops

\* The values of the subexpressions.
ExprBy(expr, ins, g) ==
  [k \in DOMAIN expr |->
     CASE expr[k].op = "Var" -> ins[expr[k].var]
       [] expr[k].op = "Neg" -> Complement(ins[expr[k].var])
       [] OTHER -> GateFunction(expr[k].op, [j \in DOMAIN expr[k].kids |-> g[expr[k].kids[j]]])]

LEMMA OperatorType ==
  ASSUME NEW op \in Ops, NEW ins
  PROVE  GateFunction(op, ins) \in Values3
BY DEF Ops, GateFunction, AndOf, OrOf, XorOf, Values3

LEMMA ExprValueIs ==
  ASSUME NEW expr, NEW ni \in Nat, ProperExpr(expr, ni), NEW ins, \A w \in 1 .. ni : ins[w] \in Values3
  PROVE  \E a : /\ a = ExprBy(expr, ins, a) /\ ExprValue(expr, ins) = a[Len(expr)]
<1> DEFINE D == DOMAIN expr
           G == [g \in [D -> Values3] |-> ExprBy(expr, ins, g)]
<1>1. D = 1 .. Len(expr) /\ Len(expr) \in Nat
  BY ExprFacts
<1>2. \A k \in D : IF k \in Operators(expr)
                   THEN expr[k].op \in Ops /\ \A j \in DOMAIN expr[k].kids : expr[k].kids[j] \in D /\ expr[k].kids[j] < k
                   ELSE expr[k].op \in {"Var", "Neg"} /\ expr[k].var \in 1 .. ni
  <2>1. \A k \in D : IF k \in Operators(expr) THEN expr[k].op \in Ops
                     ELSE expr[k].op \in {"Var", "Neg"} /\ expr[k].var \in 1 .. ni
    BY ExprFacts
  <2>2. \A k \in Operators(expr) : \A j \in DOMAIN expr[k].kids :
           expr[k].kids[j] \in D /\ expr[k].kids[j] \in 1 .. k - 1 /\ k \in Nat
    BY OperatorFacts
  <2>3. \A k \in Nat : \A x \in 1 .. k - 1 : x < k
    OBVIOUS
  <2> HIDE DEF D
  <2> QED BY <2>1, <2>2, <2>3
<1>3. \A x \in Values3 : Complement(x) \in Values3
  BY DEF Complement, Values3
<1>4. ASSUME NEW g PROVE ExprBy(expr, ins, g) \in [D -> Values3]
  <2>1. ASSUME NEW k \in D
        PROVE (CASE expr[k].op = "Var" -> ins[expr[k].var]
                 [] expr[k].op = "Neg" -> Complement(ins[expr[k].var])
                 [] OTHER -> GateFunction(expr[k].op, [j \in DOMAIN expr[k].kids |-> g[expr[k].kids[j]]])) \in Values3
    <3>1. CASE k \in Operators(expr)
      <4>1. expr[k].op \in Ops
        BY <1>2, <3>1
      <4>2. \A x : GateFunction(expr[k].op, x) \in Values3
        BY <4>1, OperatorType
      <4>3. expr[k].op # "Var" /\ expr[k].op # "Neg"
        BY <4>1 DEF Ops
      <4> QED BY <4>2, <4>3
    <3>2. CASE k \notin Operators(expr)
      BY <1>2, <1>3, <3>2
    <3> QED BY <3>1, <3>2
  <2> QED BY <2>1 DEF ExprBy
<1>5. ASSUME NEW g, NEW h, NEW k \in D, \A m \in D : m < k => g[m] = h[m]
      PROVE  ExprBy(expr, ins, g)[k] = ExprBy(expr, ins, h)[k]
  <2>1. CASE k \in Operators(expr)
    <3>1. [j \in DOMAIN expr[k].kids |-> g[expr[k].kids[j]]] = [j \in DOMAIN expr[k].kids |-> h[expr[k].kids[j]]]
      BY <1>2, <1>5, <2>1
    <3> QED BY <3>1 DEF ExprBy
  <2>2. CASE k \notin Operators(expr)
    <3>1. expr[k].op \in {"Var", "Neg"}
      BY <1>2, <2>2
    <3> QED BY <3>1 DEF ExprBy
  <2> QED BY <2>1, <2>2
<1>6. P!UpDependent(Len(expr), D, Values3, G)
  <2>1. G \in [[D -> Values3] -> [D -> Values3]]
    BY <1>4
  <2>2. [D -> Values3] # {}
    <3>1. [k \in D |-> "X"] \in [D -> Values3]
      BY DEF Values3
    <3> QED BY <3>1
  <2>3. \A g, h \in [D -> Values3] : \A k \in D : (\A m \in D : m < k => g[m] = h[m]) => G[g][k] = G[h][k]
    BY <1>5
  <2> HIDE DEF G, D
  <2> QED BY <1>1, <2>1, <2>2, <2>3 DEF P!UpDependent, D
<1>7. PICK g \in [D -> Values3] : g = G[g]
  <2> HIDE DEF G, D
  <2> QED BY <1>6, P!UpRecursion
<1>8. g = ExprBy(expr, ins, g)
  BY <1>7
<1> DEFINE a == CHOOSE f : f = ExprBy(expr, ins, f)
<1>9. a = ExprBy(expr, ins, a)
  BY <1>8, Zenon
<1>10. ExprValue(expr, ins) = a[Len(expr)]
  BY Zenon DEF ExprValue, ExprBy
<1> HIDE DEF a
<1> QED BY <1>9, <1>10

-----------------------------------------------------------------------------
(* The sites of the inputs of a complex gate.                              *)

\* The node and the pin where the branch of input w ends in the gate.
SiteOn(c, expr, ni, w, key, p) ==
  /\ key \in Keys(expr, ni, Len(expr)) /\ c.site[w] = <<KeyLine(c, key), p>>
  /\ IF Buffered(expr, w) THEN key = <<w, 1>> /\ p = 1
     ELSE IF Inverted(expr, w) THEN key = <<w, 2>> /\ p = 1
     ELSE /\ key[2] = 3 /\ key[1] \in Operators(expr) /\ p \in DOMAIN expr[key[1]].kids
          /\ IsVar(expr, expr[key[1]].kids[p], w)

LEMMA SiteFound ==
  ASSUME NEW b, NEW expr, NEW fanin, NEW nfo, NEW c, Complete(b, expr, fanin, nfo, c), GateDone(b.node, c),
         NEW w \in 1 .. Len(fanin)
  PROVE  \E key, p : SiteOn(c, expr, Len(fanin), w, key, p)
<1> DEFINE ni == Len(fanin)
<1>1. ni \in Nat /\ ProperExpr(expr, ni)
  BY DEF Complete, Fed
<1>2. SiteIs(c, expr, Len(expr), w)
  BY DEF Complete, ExprShape
<1>3. c.node \in Seq(NodeRecs) /\ DOMAIN c.site = 1 .. ni
  BY DEF Complete, NodesDone, Sound, Builds
<1>4. c.site[w] # Unplaced
  <2>1. c.site[w][1] \in DOMAIN c.node
    BY <1>3 DEF GateDone, Placed
  <2>2. 0 \notin DOMAIN c.node
    BY <1>3
  <2> QED BY <2>1, <2>2 DEF Unplaced
<1>5. CASE Buffered(expr, w)
  <2>1. <<w, 1>> \in Keys(expr, ni, Len(expr))
    BY <1>1, <1>5, MadeKeys DEF Keys
  <2>2. c.site[w] = <<KeyLine(c, <<w, 1>>), 1>>
    BY <1>2, <1>5 DEF SiteIs, KeyLine
  <2> QED BY <1>5, <2>1, <2>2 DEF SiteOn
<1>6. CASE ~ Buffered(expr, w) /\ Inverted(expr, w)
  <2>1. <<w, 2>> \in Keys(expr, ni, Len(expr))
    BY <1>1, <1>6, MadeKeys DEF Keys
  <2>2. c.site[w] = <<KeyLine(c, <<w, 2>>), 1>>
    BY <1>2, <1>6 DEF SiteIs, KeyLine
  <2> QED BY <1>6, <2>1, <2>2 DEF SiteOn
<1>7. CASE ~ Buffered(expr, w) /\ ~ Inverted(expr, w)
  <2>1. PICK q \in Operators(expr) : \E j \in DOMAIN expr[q].kids :
          IsVar(expr, expr[q].kids[j], w) /\ c.site[w] = <<c.at[q], j>>
    BY <1>2, <1>4, <1>7 DEF SiteIs, DirectSite
  <2>2. PICK j \in DOMAIN expr[q].kids : IsVar(expr, expr[q].kids[j], w) /\ c.site[w] = <<c.at[q], j>>
    BY <2>1
  <2>3. <<q, 3>> \in Keys(expr, ni, Len(expr))
    BY <1>1, MadeKeys DEF Keys
  <2>4. c.site[w] = <<KeyLine(c, <<q, 3>>), j>>
    BY <2>2 DEF KeyLine
  <2> QED BY <1>7, <2>2, <2>3, <2>4 DEF SiteOn
<1> QED BY <1>5, <1>6, <1>7

\* Each input has a site of its own, at a pin of a new node.
SitesMade(before, c, ni) ==
  /\ DOMAIN c.site = 1 .. ni
  /\ \A w \in 1 .. ni : /\ c.site[w] = <<c.site[w][1], c.site[w][2]>>
                        /\ c.site[w][1] \in DOMAIN c.node /\ c.site[w][1] \notin DOMAIN before
                        /\ c.site[w][2] \in DOMAIN c.node[c.site[w][1]].fanin
  /\ \A u, w \in 1 .. ni : c.site[u] = c.site[w] => u = w

LEMMA ExprSites ==
  ASSUME NEW b, NEW expr, NEW fanin, NEW nfo, NEW c, Complete(b, expr, fanin, nfo, c), GateDone(b.node, c)
  PROVE  SitesMade(b.node, c, Len(fanin))
<1> DEFINE ni == Len(fanin)
           K == Keys(expr, ni, Len(expr))
<1>1. ni \in Nat /\ ProperExpr(expr, ni)
  BY DEF Complete, Fed
<1>2. DOMAIN c.site = 1 .. ni
  BY DEF Complete, NodesDone
<1>3. \A w \in 1 .. ni : \E key, p : SiteOn(c, expr, ni, w, key, p)
  BY SiteFound
<1>4. /\ \A key \in K : /\ KeyLine(c, key) \in DOMAIN c.node /\ KeyLine(c, key) \notin DOMAIN b.node
                        /\ c.node[KeyLine(c, key)] = RecordOf(expr, fanin, nfo, c, key)
      /\ \A key, other \in K : KeyLine(c, key) = KeyLine(c, other) => key = other
  BY KeyNodes
<1>5. ASSUME NEW w \in 1 .. ni
      PROVE  /\ c.site[w] = <<c.site[w][1], c.site[w][2]>>
             /\ c.site[w][1] \in DOMAIN c.node /\ c.site[w][1] \notin DOMAIN b.node
             /\ c.site[w][2] \in DOMAIN c.node[c.site[w][1]].fanin
  <2>1. PICK key, p : SiteOn(c, expr, ni, w, key, p)
    BY <1>3
  <2>2. key \in K /\ c.site[w] = <<KeyLine(c, key), p>>
    BY <2>1 DEF SiteOn
  <2>3. p \in DOMAIN RecordOf(expr, fanin, nfo, c, key).fanin
    <3>1. CASE key[2] \in {1, 2}
      <4>1. p = 1
        BY <2>1, <3>1 DEF SiteOn
      <4>2. \E x : RecordOf(expr, fanin, nfo, c, key).fanin = <<x>>
        BY <3>1 DEF RecordOf, NewNode
      <4> QED BY <4>1, <4>2
    <3>2. CASE key[2] = 3
      <4>1. p \in DOMAIN expr[key[1]].kids
        BY <2>1, <3>2 DEF SiteOn
      <4>2. RecordOf(expr, fanin, nfo, c, key).fanin = OperandsOf(c, expr, key[1])
        BY <3>2 DEF RecordOf, NewNode
      <4> QED BY <4>1, <4>2 DEF OperandsOf
    <3> QED BY <1>1, <2>2, <3>1, <3>2, EdgePair
  <2> QED BY <1>4, <2>2, <2>3
<1>6. ASSUME NEW u \in 1 .. ni, NEW w \in 1 .. ni, c.site[u] = c.site[w] PROVE u = w
  <2>1. PICK key, p : SiteOn(c, expr, ni, u, key, p)
    BY <1>3
  <2>2. PICK other, m : SiteOn(c, expr, ni, w, other, m)
    BY <1>3
  <2>3. key = other /\ p = m
    <3>1. key \in K /\ other \in K /\ c.site[u] = <<KeyLine(c, key), p>> /\ c.site[w] = <<KeyLine(c, other), m>>
      BY <2>1, <2>2 DEF SiteOn
    <3>2. <<KeyLine(c, key), p>> = <<KeyLine(c, other), m>>
      BY <1>6, <3>1
    <3>3. KeyLine(c, key) = KeyLine(c, other) /\ p = m
      BY <3>2
    <3> HIDE DEF K
    <3> QED BY <1>4, <3>1, <3>3
  <2>4. CASE Buffered(expr, u) \/ Inverted(expr, u)
    BY <2>1, <2>2, <2>3, <2>4 DEF SiteOn
  <2>5. CASE ~ Buffered(expr, u) /\ ~ Inverted(expr, u)
    BY <2>1, <2>2, <2>3, <2>5 DEF SiteOn, IsVar
  <2> QED BY <2>4, <2>5
<1> QED BY <1>2, <1>5, <1>6 DEF SitesMade

-----------------------------------------------------------------------------
(* A stuck branch of a complex gate, and the output it forces.             *)

LEMMA SolvedAt ==
  ASSUME NEW nodes, NEW lo, NEW q, NEW n, NEW p, NEW v, NEW val, Solves(nodes, lo, q, n, p, v, val),
         NEW m \in lo .. q, NEW type, NEW fan, NEW r, nodes[m] = NewNode(type, fan, r)
  PROVE  val[m] = GateFunction(type, [k \in DOMAIN fan |-> IF m = n /\ k = p THEN v ELSE val[fan[k]]])
<1>1. nodes[m].type = type /\ nodes[m].fanin = fan
  BY DEF NewNode
<1>2. val[m] = GateFunction(nodes[m].type, PinValues(nodes, m, n, p, v, val))
  BY DEF Solves
<1> QED BY <1>1, <1>2 DEF PinValues

LEMMA SingleInput ==
  ASSUME NEW ins
  PROVE  GateFunction("Buff", ins) = ins[1] /\ GateFunction("Not", ins) = Complement(ins[1])
BY DEF GateFunction

\* The values val of the nodes while the site of input w is stuck at v, and the values
\* a of the subexpressions when only this input is known.
OnlyInput(ni, w, v) == [j \in 1 .. ni |-> IF j = w THEN v ELSE "X"]
Stuck(b, expr, fanin, nfo, c, w, key, p, v, val, a) ==
  /\ Complete(b, expr, fanin, nfo, c) /\ w \in 1 .. Len(fanin) /\ v \in {"0", "1"}
  /\ SiteOn(c, expr, Len(fanin), w, key, p)
  /\ Solves(c.node, Len(b.node) + 1, Top(c), KeyLine(c, key), p, v, val)
  /\ a = ExprBy(expr, OnlyInput(Len(fanin), w, v), a)

LEMMA StuckFacts ==
  ASSUME NEW b, NEW expr, NEW fanin, NEW nfo, NEW c, NEW w, NEW key, NEW p, NEW v, NEW val, NEW a,
         Stuck(b, expr, fanin, nfo, c, w, key, p, v, val, a), NEW K, K = Keys(expr, Len(fanin), Len(expr))
  PROVE  /\ Len(fanin) \in Nat /\ ProperExpr(expr, Len(fanin)) /\ key \in K
         /\ \A k \in K : /\ KeyLine(c, k) \in Len(b.node) + 1 .. Top(c) /\ KeyLine(c, k) \in 1 .. Top(c)
                         /\ c.node[KeyLine(c, k)] = RecordOf(expr, fanin, nfo, c, k)
         /\ \A k, other \in K : KeyLine(c, k) = KeyLine(c, other) => k = other
         /\ \A m : Drives(c.node, m) => m \in 1 .. Top(c)
<1>1. Complete(b, expr, fanin, nfo, c) /\ SiteOn(c, expr, Len(fanin), w, key, p)
  BY DEF Stuck
<1>2. Len(fanin) \in Nat /\ ProperExpr(expr, Len(fanin)) /\ key \in K
  BY <1>1 DEF Complete, Fed, SiteOn
<1>3. b.node \in Seq(NodeRecs) /\ c.node \in Seq(NodeRecs)
  BY <1>1 DEF Complete, NodesDone, Sound, Builds
<1>4. DOMAIN b.node = 1 .. Len(b.node) /\ DOMAIN c.node = 1 .. Top(c) /\ Len(b.node) \in Nat /\ Top(c) \in Nat
  BY <1>3 DEF Top
<1>5. \A k \in K : /\ KeyLine(c, k) \in DOMAIN c.node /\ KeyLine(c, k) \notin DOMAIN b.node
                   /\ c.node[KeyLine(c, k)] = RecordOf(expr, fanin, nfo, c, k)
  BY <1>1, KeyNodes
<1>6. \A k, other \in K : KeyLine(c, k) = KeyLine(c, other) => k = other
  BY <1>1, KeyNodes
<1>7. \A m \in DOMAIN c.node : m \notin DOMAIN b.node => m \in Len(b.node) + 1 .. Top(c)
  BY <1>4
<1> QED BY <1>2, <1>4, <1>5, <1>6, <1>7 DEF Drives

LEMMA LeafValues ==
  ASSUME NEW b, NEW expr, NEW fanin, NEW nfo, NEW c, NEW w, NEW key, NEW p, NEW v, NEW val, NEW a,
         Stuck(b, expr, fanin, nfo, c, w, key, p, v, val, a)
  PROVE  /\ Buffered(expr, w) => val[c.leaf[w][1]] = v
         /\ Inverted(expr, w) => val[c.leaf[w][2]] = Complement(v)
<1> DEFINE K == Keys(expr, Len(fanin), Len(expr))
           lo == Len(b.node) + 1
           n == KeyLine(c, key)
<1>1. /\ Len(fanin) \in Nat /\ ProperExpr(expr, Len(fanin)) /\ key \in K
      /\ \A k \in K : /\ KeyLine(c, k) \in lo .. Top(c)
                      /\ c.node[KeyLine(c, k)] = RecordOf(expr, fanin, nfo, c, k)
      /\ \A k, other \in K : KeyLine(c, k) = KeyLine(c, other) => k = other
  BY StuckFacts
<1>2. Solves(c.node, lo, Top(c), n, p, v, val) /\ SiteOn(c, expr, Len(fanin), w, key, p) /\ w \in 1 .. Len(fanin)
  BY DEF Stuck
<1>3. ASSUME Buffered(expr, w) PROVE val[c.leaf[w][1]] = v
  <2>1. key = <<w, 1>> /\ p = 1
    BY <1>2, <1>3 DEF SiteOn
  <2>2. n = c.leaf[w][1]
    BY <2>1 DEF KeyLine
  <2>3. c.node[n] = NewNode("Buff", <<fanin[w]>>, BufferNum(expr, w)) /\ n \in lo .. Top(c)
    BY <1>1, <2>1 DEF RecordOf
  <2>4. val[n] = GateFunction("Buff", [k \in DOMAIN <<fanin[w]>> |-> IF n = n /\ k = p THEN v ELSE val[<<fanin[w]>>[k]]])
    BY <1>2, <2>3, SolvedAt
  <2>5. val[n] = [k \in DOMAIN <<fanin[w]>> |-> IF n = n /\ k = p THEN v ELSE val[<<fanin[w]>>[k]]][1]
    BY <2>4, SingleInput
  <2> QED BY <2>1, <2>2, <2>5
<1>4. ASSUME Inverted(expr, w) PROVE val[c.leaf[w][2]] = Complement(v)
  <2> DEFINE t == c.leaf[w][2]
             f == <<c.leaf[w][1]>>
  <2>1. <<w, 2>> \in K /\ KeyLine(c, <<w, 2>>) = t
    BY <1>1, <1>2, <1>4, MadeKeys DEF Keys, KeyLine
  <2>2. c.node[t] = NewNode("Not", f, LitNum(expr, w, "Neg")) /\ t \in lo .. Top(c)
    <3>1. RecordOf(expr, fanin, nfo, c, <<w, 2>>) = NewNode("Not", f, LitNum(expr, w, "Neg"))
      BY DEF RecordOf
    <3> HIDE DEF K, f, t, lo
    <3> QED BY <1>1, <2>1, <3>1
  <2> HIDE DEF n, t
  <2>3. val[t] = GateFunction("Not", [k \in DOMAIN f |-> IF t = n /\ k = p THEN v ELSE val[f[k]]])
    BY <1>2, <2>2, SolvedAt
  <2>4. val[t] = Complement([k \in DOMAIN f |-> IF t = n /\ k = p THEN v ELSE val[f[k]]][1])
    BY <2>3, SingleInput
  <2>5. val[t] = Complement(IF t = n /\ 1 = p THEN v ELSE val[c.leaf[w][1]])
    BY <2>4
  <2>6. CASE Buffered(expr, w)
    <3>1. val[c.leaf[w][1]] = v
      BY <1>3, <2>6
    <3> QED BY <2>5, <3>1 DEF t
  <2>7. CASE ~ Buffered(expr, w)
    <3>1. key = <<w, 2>> /\ p = 1
      BY <1>2, <1>4, <2>7 DEF SiteOn
    <3>2. t = n
      BY <2>1, <3>1 DEF n
    <3> QED BY <2>5, <3>1, <3>2 DEF t
  <2> QED BY <2>6, <2>7
<1> QED BY <1>3, <1>4

LEMMA OperandBelow ==
  ASSUME NEW b, NEW expr, NEW fanin, NEW nfo, NEW c, NEW w, NEW key, NEW p, NEW v, NEW val, NEW a,
         Stuck(b, expr, fanin, nfo, c, w, key, p, v, val, a),
         NEW q \in Operators(expr), \A o \in Operators(expr) : o < q => Below(a[o], val[c.at[o]]),
         NEW j \in DOMAIN expr[q].kids, NEW e, e = expr[q].kids[j],
         NEW pin, pin = IF c.at[q] = KeyLine(c, key) /\ j = p THEN v ELSE val[c.at[e]]
  PROVE  pin \in {"0", "1"} /\ Below(a[e], pin)
<1> DEFINE ni == Len(fanin)
           K == Keys(expr, ni, Len(expr))
           ins == OnlyInput(ni, w, v)
<1>1. /\ ni \in Nat /\ ProperExpr(expr, ni) /\ key \in K
      /\ \A k, other \in K : KeyLine(c, k) = KeyLine(c, other) => k = other
      /\ \A m : Drives(c.node, m) => m \in 1 .. Top(c)
  BY StuckFacts
<1>2. /\ Complete(b, expr, fanin, nfo, c) /\ w \in 1 .. ni /\ v \in {"0", "1"}
      /\ SiteOn(c, expr, ni, w, key, p) /\ a = ExprBy(expr, ins, a)
      /\ \A m \in 1 .. Top(c) : val[m] \in {"0", "1"}
  BY DEF Stuck, Solves
<1>3. e \in DOMAIN expr /\ e \in 1 .. q - 1 /\ q \in Nat /\ DOMAIN expr = 1 .. Len(expr)
  BY <1>1, OperatorFacts
<1>4. c.at[q] = KeyLine(c, key) => key = <<q, 3>>
  <2>1. <<q, 3>> \in K
    BY <1>1, MadeKeys DEF Keys
  <2>2. KeyLine(c, <<q, 3>>) = c.at[q]
    BY DEF KeyLine
  <2> HIDE DEF K
  <2> QED BY <1>1, <2>1, <2>2
<1>5. val[c.at[e]] \in {"0", "1"}
  <2>1. Drives(c.node, c.at[e])
    BY <1>2, <1>3 DEF Complete, NodesDone
  <2> QED BY <1>1, <1>2, <2>1
<1>6. pin \in {"0", "1"}
  BY <1>2, <1>5
<1>7. ASSUME c.at[q] = KeyLine(c, key) /\ j = p
      PROVE  ~ Buffered(expr, w) /\ ~ Inverted(expr, w) /\ IsVar(expr, e, w)
  BY <1>2, <1>4, <1>7 DEF SiteOn
<1>8. CASE e \in Operators(expr)
  <2>1. ~ IsVar(expr, e, w)
    BY <1>8 DEF IsVar, Operators
  <2>2. pin = val[c.at[e]]
    BY <1>7, <2>1
  <2>3. e < q
    BY <1>3
  <2> QED BY <1>6, <1>8, <2>2, <2>3
<1>9. CASE e \notin Operators(expr)
  <2> DEFINE u == expr[e].var
  <2>1. expr[e].op \in {"Var", "Neg"} /\ u \in 1 .. ni
    BY <1>1, <1>3, <1>9, ExprFacts
  <2>2. a[e] = IF expr[e].op = "Var" THEN ins[u] ELSE Complement(ins[u])
    <3>1. a[e] = ExprBy(expr, ins, a)[e]
      BY <1>2
    <3> HIDE DEF ins
    <3> QED BY <1>3, <2>1, <3>1 DEF ExprBy
  <2>3. c.at[e] = c.leaf[u][IF expr[e].op = "Var" THEN 1 ELSE 2]
    <3>1. PositionIs(c, expr, nfo, e)
      BY <1>2, <1>3 DEF Complete, ExprShape
    <3> QED BY <1>9, <3>1 DEF PositionIs
  <2>4. CASE u # w
    <3>1. a[e] = "X"
      BY <2>1, <2>2, <2>4 DEF OnlyInput, Complement
    <3> QED BY <1>6, <3>1 DEF Below
  <2>5. CASE u = w
    <3>1. ins[u] = v
      BY <1>2, <2>5 DEF OnlyInput
    <3>2. CASE expr[e].op = "Neg"
      <4>1. Inverted(expr, w)
        BY <1>1, <1>2, <1>3, <2>5, <3>2, LitCounts
      <4>2. pin = val[c.leaf[w][2]]
        BY <1>7, <2>3, <2>5, <3>2, <4>1
      <4>3. pin = Complement(v)
        BY <4>1, <4>2, LeafValues
      <4> QED BY <1>6, <2>2, <3>1, <3>2, <4>3 DEF Below
    <3>3. CASE expr[e].op = "Var"
      <4>1. IsVar(expr, e, w)
        BY <1>3, <2>5, <3>3 DEF IsVar
      <4>2. CASE Buffered(expr, w)
        <5>1. pin = val[c.leaf[w][1]]
          BY <1>7, <2>3, <2>5, <3>3, <4>2
        <5>2. pin = v
          BY <4>2, <5>1, LeafValues
        <5> QED BY <1>6, <2>2, <3>1, <3>3, <5>2 DEF Below
      <4>3. CASE ~ Buffered(expr, w)
        <5>1. ~ Inverted(expr, w)
          BY <1>1, <1>2, <4>1, <4>3, LitCounts
        <5>2. PICK d : \A x : IsVar(expr, x, w) <=> x = d
          BY <1>1, <1>2, <4>3, <5>1, LitCounts
        <5>3. key[2] = 3 /\ key[1] \in Operators(expr) /\ p \in DOMAIN expr[key[1]].kids /\ expr[key[1]].kids[p] = e
          BY <1>2, <4>1, <4>3, <5>1, <5>2 DEF SiteOn
        <5>4. PICK slot : SlotsOf(expr, slot)
          BY <1>1, SlotsExist
        <5>5. slot[e] = <<q, j>> /\ slot[e] = <<key[1], p>>
          <6>1. \A x \in Operators(expr) : \A y \in DOMAIN expr[x].kids : slot[expr[x].kids[y]] = <<x, y>>
            BY <5>4 DEF SlotsOf
          <6>2. slot[expr[q].kids[j]] = <<q, j>> /\ slot[expr[key[1]].kids[p]] = <<key[1], p>>
            BY <5>3, <6>1
          <6> QED BY <5>3, <6>2
        <5>6. key[1] = q /\ p = j
          BY <5>5
        <5>7. KeyLine(c, key) = c.at[q]
          BY <5>3, <5>6 DEF KeyLine
        <5>8. pin = v
          BY <5>6, <5>7
        <5> QED BY <1>6, <2>2, <3>1, <3>3, <5>8 DEF Below
      <4> QED BY <4>2, <4>3
    <3> QED BY <2>1, <3>2, <3>3
  <2> QED BY <2>4, <2>5
<1> QED BY <1>8, <1>9

\* Every operator of a gate has a value, or at least the one that the input alone gives it.
LEMMA OperatorsBelow ==
  ASSUME NEW b, NEW expr, NEW fanin, NEW nfo, NEW c, NEW w, NEW key, NEW p, NEW v, NEW val, NEW a,
         Stuck(b, expr, fanin, nfo, c, w, key, p, v, val, a)
  PROVE  \A q \in Operators(expr) : Below(a[q], val[c.at[q]])
<1> DEFINE ni == Len(fanin)
           ins == OnlyInput(ni, w, v)
           T == {q \in DOMAIN expr : q \in Operators(expr) => Below(a[q], val[c.at[q]])}
<1>1. /\ ni \in Nat /\ ProperExpr(expr, ni)
      /\ \A k \in Keys(expr, ni, Len(expr)) : /\ KeyLine(c, k) \in Len(b.node) + 1 .. Top(c)
                                              /\ c.node[KeyLine(c, k)] = RecordOf(expr, fanin, nfo, c, k)
  BY StuckFacts
<1>2. DOMAIN expr = 1 .. Len(expr) /\ Len(expr) \in Nat
  BY <1>1, ExprFacts
<1>3. /\ Solves(c.node, Len(b.node) + 1, Top(c), KeyLine(c, key), p, v, val) /\ a = ExprBy(expr, ins, a)
  BY DEF Stuck
<1>4. ASSUME NEW q \in DOMAIN expr, \A o \in DOMAIN expr : o < q => o \in T, q \in Operators(expr)
      PROVE  Below(a[q], val[c.at[q]])
  <2> DEFINE kids == expr[q].kids
             n == KeyLine(c, key)
             f == OperandsOf(c, expr, q)
             pins == [j \in DOMAIN kids |-> IF c.at[q] = n /\ j = p THEN v ELSE val[c.at[kids[j]]]]
             below == [j \in DOMAIN kids |-> a[kids[j]]]
  <2>1. \A o \in Operators(expr) : o < q => Below(a[o], val[c.at[o]])
    BY <1>4 DEF Operators
  <2>2. \A j \in DOMAIN kids : pins[j] \in {"0", "1"} /\ Below(below[j], pins[j])
    BY <1>4, <2>1, OperandBelow
  <2>3. expr[q].op \in Ops
    BY <1>1, <1>4, ExprFacts
  <2>4. a[q] = GateFunction(expr[q].op, below)
    <3>1. expr[q].op # "Var" /\ expr[q].op # "Neg"
      BY <2>3 DEF Ops
    <3>2. a[q] = ExprBy(expr, ins, a)[q]
      BY <1>3
    <3> HIDE DEF ins
    <3> QED BY <3>1, <3>2 DEF ExprBy
  <2>5. val[c.at[q]] = GateFunction(expr[q].op, pins)
    <3>1. <<q, 3>> \in Keys(expr, ni, Len(expr)) /\ KeyLine(c, <<q, 3>>) = c.at[q]
      BY <1>1, <1>4, MadeKeys DEF Keys, KeyLine
    <3>2. RecordOf(expr, fanin, nfo, c, <<q, 3>>) = NewNode(expr[q].op, f, IF q = Len(expr) THEN nfo ELSE 1)
      BY DEF RecordOf
    <3>3. c.at[q] \in Len(b.node) + 1 .. Top(c) /\ c.node[c.at[q]] = RecordOf(expr, fanin, nfo, c, <<q, 3>>)
      BY <1>1, <3>1
    <3>4. val[c.at[q]] = GateFunction(expr[q].op, [j \in DOMAIN f |-> IF c.at[q] = n /\ j = p THEN v ELSE val[f[j]]])
      BY <1>3, <3>2, <3>3, SolvedAt
    <3>5. [j \in DOMAIN f |-> IF c.at[q] = n /\ j = p THEN v ELSE val[f[j]]] = pins
      BY DEF OperandsOf
    <3> QED BY <3>4, <3>5
  <2>6. DOMAIN pins = DOMAIN kids /\ DOMAIN below = DOMAIN kids
    OBVIOUS
  <2> HIDE DEF pins, below, kids
  <2> QED BY <2>2, <2>3, <2>4, <2>5, <2>6, GateFollows
<1>5. DOMAIN expr \subseteq T
  <2>1. \A q \in 1 .. Len(expr) : (\A o \in 1 .. Len(expr) : o < q => o \in T) => q \in T
    BY <1>2, <1>4
  <2> HIDE DEF T
  <2> QED BY <1>2, <2>1, P!UpInduction
<1>6. Operators(expr) \subseteq DOMAIN expr
  BY DEF Operators
<1> QED BY <1>5, <1>6

LEMMA ExprForces ==
  ASSUME NEW b, NEW expr, NEW fanin, NEW nfo, NEW c, Complete(b, expr, fanin, nfo, c), GateDone(b.node, c),
         NEW w \in 1 .. Len(fanin), NEW v \in {"0", "1"},
         NEW forced, forced = ExprValue(expr, OnlyInput(Len(fanin), w, v)), forced # "X"
  PROVE  Forces(c.node, Len(b.node) + 1, Top(c), c.site[w][1], c.site[w][2], v, forced)
<1> DEFINE ni == Len(fanin)
           ins == OnlyInput(ni, w, v)
<1>1. ni \in Nat /\ ProperExpr(expr, ni)
  BY DEF Complete, Fed
<1>2. \A x \in 1 .. ni : ins[x] \in Values3
  BY DEF OnlyInput, Values3
<1>3. PICK a : a = ExprBy(expr, ins, a) /\ ExprValue(expr, ins) = a[Len(expr)]
  <2> HIDE DEF ins, ni
  <2> QED BY <1>1, <1>2, ExprValueIs
<1>4. PICK key, p : SiteOn(c, expr, ni, w, key, p)
  BY SiteFound
<1>5. c.site[w] = <<KeyLine(c, key), p>>
  BY <1>4 DEF SiteOn
<1>6. c.site[w][1] = KeyLine(c, key) /\ c.site[w][2] = p
  BY <1>5
<1>7. Len(expr) \in Operators(expr) /\ c.at[Len(expr)] = Top(c)
  <2>1. Len(expr) \in Operators(expr)
    BY <1>1, ExprFacts
  <2> QED BY <2>1 DEF Complete, NodesDone
<1>8. ASSUME NEW val, Solves(c.node, Len(b.node) + 1, Top(c), KeyLine(c, key), p, v, val)
      PROVE  val[Top(c)] = forced
  <2>1. Stuck(b, expr, fanin, nfo, c, w, key, p, v, val, a)
    BY <1>3, <1>4, <1>8 DEF Stuck
  <2>2. Below(a[Len(expr)], val[Top(c)])
    BY <1>7, <2>1, OperatorsBelow
  <2> QED BY <1>3, <2>2 DEF Below
<1> QED BY <1>6, <1>8 DEF Forces

-----------------------------------------------------------------------------
(* The sites of the other gates.                                           *)

SimpleMade(before, type, fanin, nfo, c) ==
  /\ c.site = [k \in DOMAIN fanin |-> <<Top(c), k>>]
  /\ c.node[Top(c)] = NewNode(type, fanin, nfo) /\ Top(c) = Len(before) + 1 /\ Len(before) \in Nat
  /\ SitesMade(before, c, Len(fanin))
LEMMA SimpleSites ==
  ASSUME NEW b, NEW type, NEW fanin, NEW nfo, Sound(b), Fits(b.node, type, fanin, nfo),
         NEW c, c = SimpleGate(b, type, fanin, nfo)
  PROVE  SimpleMade(b.node, type, fanin, nfo, c)
<1> DEFINE d == Prim(b, type, fanin, nfo)
           sites == [k \in DOMAIN fanin |-> <<Top(d), k>>]
<1>1. d = Prim(b, type, fanin, nfo)
  OBVIOUS
<1>2. c = [d EXCEPT !.site = sites]
  BY Zenon DEF SimpleGate
<1> HIDE DEF d
<1>3. /\ Sound(d) /\ Len(b.node) \in Nat /\ Top(d) = Len(b.node) + 1
      /\ d.node[Len(b.node) + 1] = NewNode(type, fanin, nfo)
  BY <1>1, PrimNode
<1>4. d \in Builds /\ b.node \in Seq(NodeRecs) /\ d.node \in Seq(NodeRecs)
  BY <1>3 DEF Sound, Builds
<1>5. c.node = d.node /\ c.site = sites
  <2> HIDE DEF sites
  <2> QED BY <1>2, <1>4 DEF Builds
<1>6. Top(c) = Top(d)
  BY <1>5 DEF Top
<1>7. DOMAIN fanin = 1 .. Len(fanin) /\ Len(fanin) \in Nat
  BY DEF Fed, Fits
<1>8. /\ Top(c) \in DOMAIN c.node /\ Top(c) \notin DOMAIN b.node /\ c.node[Top(c)] = NewNode(type, fanin, nfo)
      /\ c.node[Top(c)].fanin = fanin
  <2>1. Top(d) = Len(d.node) /\ DOMAIN d.node = 1 .. Len(d.node) /\ DOMAIN b.node = 1 .. Len(b.node)
    BY <1>4 DEF Top
  <2>2. c.node[Top(c)] = NewNode(type, fanin, nfo)
    BY <1>3, <1>5, <1>6
  <2> QED BY <1>3, <1>5, <1>6, <2>1, <2>2 DEF NewNode
<1>9. \A k \in DOMAIN fanin : c.site[k] = <<Top(c), k>>
  BY <1>5, <1>6
<1>10. DOMAIN c.site = 1 .. Len(fanin)
  BY <1>5, <1>7
<1>11. SitesMade(b.node, c, Len(fanin))
  <2>1. ASSUME NEW w \in 1 .. Len(fanin)
        PROVE  /\ c.site[w] = <<c.site[w][1], c.site[w][2]>> /\ c.site[w][1] = Top(c) /\ c.site[w][2] = w
    BY <1>7, <1>9
  <2>2. \A u, w \in 1 .. Len(fanin) : c.site[u] = c.site[w] => u = w
    BY <2>1
  <2> QED BY <1>7, <1>8, <1>10, <2>1, <2>2 DEF SitesMade
<1> QED BY <1>3, <1>5, <1>6, <1>8, <1>11 DEF SimpleMade

LEMMA ControlForces ==
  ASSUME NEW type \in {"Buff", "Not", "And", "Nand", "Or", "Nor", "Xor", "Xnor"}, NEW ins, NEW k \in DOMAIN ins,
         type \in {"Buff", "Not"} => k = 1, NEW v \in {"0", "1"}, ins[k] = v,
         NEW w, w # "X", w = IF type \in {"Buff", "Not"} THEN GateFunction(type, <<v>>)
                             ELSE IF v = ControlValue(type) THEN ControlledOutput(type) ELSE "X"
  PROVE  GateFunction(type, ins) = w
<1>1. CASE type \in {"Buff", "Not"}
  <2>1. <<v>>[1] = v
    OBVIOUS
  <2> QED BY <1>1, <2>1, SingleInput
<1>2. CASE type \in {"And", "Nand", "Or", "Nor", "Xor", "Xnor"}
  <2>1. Some(ins, v)
    BY DEF Some
  <2>2. CASE type \in {"And", "Nand"}
    <3>1. v = "0" /\ w = ControlledOutput(type)
      BY <2>2 DEF ControlValue
    <3>2. AndOf(ins) = "0"
      BY <2>1, <3>1 DEF AndOf
    <3> QED BY <2>2, <3>1, <3>2 DEF GateFunction, Complement, ControlledOutput
  <2>3. CASE type \in {"Or", "Nor"}
    <3>1. v = "1" /\ w = ControlledOutput(type)
      BY <2>3 DEF ControlValue
    <3>2. OrOf(ins) = "1"
      BY <2>1, <3>1 DEF OrOf
    <3> QED BY <2>3, <3>1, <3>2 DEF GateFunction, Complement, ControlledOutput
  <2>4. CASE type \in {"Xor", "Xnor"}
    BY <2>4 DEF ControlValue
  <2> QED BY <1>2, <2>2, <2>3, <2>4
<1> QED BY <1>1, <1>2

\* A chain of XOR gates of two inputs has sites at the pins of its gates.
LEMMA ChainSites ==
  ASSUME NEW b, NEW fanin, NEW nfo \in Nat, Sound(b), Placed(b), Fed(b.node, fanin), Len(fanin) > 2,
         NEW c, c = XorChain(b, "Xor", fanin, nfo)
  PROVE  SitesMade(b.node, c, Len(fanin))
<1> DEFINE n == Len(fanin) - 2
           lo == Len(b.node)
           SiteAfter(w) == IF w = 1 THEN <<lo + 1, 1>> ELSE <<lo + (w - 1), 2>>
           Sites(j, d) == DOMAIN d.site = 1 .. j + 2 /\ \A w \in 1 .. j + 2 : d.site[w] = SiteAfter(w)
<1>1. PICK f : ChainBuilds(b, "Xor", fanin, nfo, f) /\ c = f[n]
  BY ChainIs
<1>2. n \in Nat /\ n # 0 /\ fanin \in Seq(Nat) /\ (\A k \in DOMAIN fanin : Drives(b.node, fanin[k]))
      /\ 1 \in DOMAIN fanin /\ 2 \in DOMAIN fanin /\ b.node \in Seq(NodeRecs) /\ lo \in Nat
  <2>1. fanin \in Seq(Nat) /\ \A k \in DOMAIN fanin : Drives(b.node, fanin[k])
    BY DEF Fed
  <2>2. Len(fanin) \in Nat /\ DOMAIN fanin = 1 .. Len(fanin)
    BY <2>1
  <2>3. b.node \in Seq(NodeRecs) /\ lo \in Nat
    BY DEF Sound, Builds
  <2> QED BY <2>1, <2>2, <2>3
<1>3. \A j \in 0 .. n : /\ GateDone(b.node, f[j])
                        /\ f[j] = IF j = 0 THEN ChainStart(b, fanin) ELSE ChainLink(f[j - 1], "Xor", fanin, nfo, j + 2)
  BY <1>1 DEF ChainBuilds
<1>4. \A j \in 0 .. n : ChainShape(b.node, "Xor", fanin, nfo, j, f[j])
  <2> DEFINE T == {j \in 0 .. n : ChainShape(b.node, "Xor", fanin, nfo, j, f[j])}
  <2>1. 0 \in T
    <3>1. TwoFanins(b.node, fanin[1], fanin[2])
      BY <1>2 DEF TwoFanins
    <3>2. ChainShape(b.node, "Xor", fanin, nfo, 0, ChainStart(b, fanin))
      BY <3>1, ChainStartShape
    <3>3. 0 \in 0 .. n /\ f[0] = ChainStart(b, fanin)
      BY <1>2, <1>3
    <3> QED BY <3>2, <3>3
  <2>2. ASSUME NEW j \in 1 .. n, j - 1 \in T PROVE j \in T
    <3> DEFINE p == f[j - 1]
               d == f[j]
    <3>1. j \in 0 .. n /\ j # 0 /\ j - 1 \in 0 .. n
      BY <1>2
    <3>2. d = ChainLink(p, "Xor", fanin, nfo, j + 2) /\ GateDone(b.node, p) /\ ChainShape(b.node, "Xor", fanin, nfo, j - 1, p)
      BY <1>3, <2>2, <3>1
    <3> HIDE DEF p, d
    <3>3. ChainShape(b.node, "Xor", fanin, nfo, j, d)
      BY <3>2, ChainLinkShape
    <3> QED BY <3>1, <3>3 DEF d
  <2> HIDE DEF T
  <2>3. 0 .. n \subseteq T
    BY <1>2, <2>1, <2>2, P!InductionTo
  <2> QED BY <2>3 DEF T
<1>5. \A j \in 0 .. n : Sites(j, f[j])
  <2> DEFINE T == {j \in 0 .. n : Sites(j, f[j])}
  <2>1. 0 \in T
    <3> DEFINE pair == <<fanin[1], fanin[2]>>
               first == Prim(b, "Xor", pair, 1)
               sites == << <<Top(first), 1>>, <<Top(first), 2>> >>
    <3>1. Fits(b.node, "Xor", pair, 1)
      <4>1. TwoFanins(b.node, fanin[1], fanin[2])
        BY <1>2 DEF TwoFanins
      <4> QED BY <4>1, PairFits
    <3>2. Sound(first) /\ Top(first) = lo + 1
      <4> HIDE DEF pair
      <4> QED BY <3>1, PrimNode
    <3>3. f[0] = [first EXCEPT !.site = sites]
      <4>1. f[0] = ChainStart(b, fanin)
        BY <1>2, <1>3
      <4> QED BY Zenon, <4>1 DEF ChainStart
    <3>4. first \in Builds
      BY <3>2 DEF Sound
    <3>5. f[0].site = sites
      <4> HIDE DEF first, sites
      <4> QED BY <3>3, <3>4 DEF Builds
    <3>6. DOMAIN sites = 1 .. 2 /\ sites[1] = <<lo + 1, 1>> /\ sites[2] = <<lo + 1, 2>>
      BY <3>2
    <3> HIDE DEF sites
    <3>7. DOMAIN f[0].site = 1 .. 0 + 2 /\ \A w \in 1 .. 0 + 2 : f[0].site[w] = SiteAfter(w)
      <4>1. \A w \in 1 .. 0 + 2 : w = 1 \/ w = 2
        OBVIOUS
      <4>2. SiteAfter(1) = <<lo + 1, 1>> /\ SiteAfter(2) = <<lo + 1, 2>>
        BY <1>2
      <4> HIDE DEF SiteAfter
      <4> QED BY <3>5, <3>6, <4>1, <4>2
    <3>8. Sites(0, f[0]) /\ 0 \in 0 .. n
      BY <1>2, <3>7
    <3> HIDE DEF Sites
    <3> QED BY <3>8
  <2>2. ASSUME NEW j \in 1 .. n, j - 1 \in T PROVE j \in T
    <3> DEFINE p == f[j - 1]
               d == f[j]
               prim == ChainPrim(p, "Xor", fanin, nfo, j + 2)
               s == <<Top(prim), ChainPosition("Xor", j + 2)>>
    <3>1. j \in 0 .. n /\ j # 0 /\ j - 1 \in 0 .. n /\ j \in Nat
      BY <1>2
    <3>2. /\ d = ChainLink(p, "Xor", fanin, nfo, j + 2) /\ GateDone(b.node, p) /\ Sites(j - 1, p)
          /\ ChainShape(b.node, "Xor", fanin, nfo, j - 1, p)
      BY <1>3, <1>4, <2>2, <3>1
    <3>3. d = [prim EXCEPT !.site = Append(@, s)]
      BY Zenon, <3>2 DEF ChainLink
    <3>4. Sound(p) /\ Top(p) = lo + j
      <4>1. Len(p.node) = lo + 1 + (j - 1)
        BY <3>2 DEF ChainShape
      <4>2. lo \in Nat
        BY <1>2
      <4> HIDE DEF p, lo
      <4>3. Len(p.node) = lo + j
        BY <4>1, <4>2
      <4> QED BY <3>2, <4>3, Zenon DEF GateDone, Top
    <3>5. Sound(prim) /\ prim.site = p.site /\ Top(prim) = Top(p) + 1
      <4> DEFINE t == IF j + 2 < Len(fanin) THEN "Xor" ELSE "Xor"
                 m == IF j + 2 < Len(fanin) THEN 1 ELSE nfo
                 pair == <<Top(p), fanin[j + 2]>>
      <4>1. prim = Prim(p, "Xor", pair, m)
        <5> HIDE DEF p
        <5> QED BY DEF ChainPrim
      <4>2. Fits(p.node, "Xor", pair, m)
        <5>1. j + 2 \in DOMAIN fanin
          BY <1>2, <3>1
        <5>2. Drives(p.node, Top(p)) /\ Drives(p.node, fanin[j + 2])
          <6>1. p.node \in Seq(NodeRecs) /\ Grown(b.node, p.node)
            BY <3>2 DEF GateDone, Sound, Builds
          <6>2. Drives(b.node, fanin[j + 2])
            BY <1>2, <5>1
          <6>3. Drives(p.node, fanin[j + 2])
            <7> HIDE DEF p
            <7> QED BY <1>2, <6>1, <6>2, GrownFacts
          <6>4. Drives(p.node, Top(p))
            BY <3>2 DEF GateDone
          <6> QED BY <6>3, <6>4
        <5>3. TwoFanins(p.node, Top(p), fanin[j + 2])
          <6>1. Top(p) \in Nat /\ fanin[j + 2] \in Nat
            BY <1>2, <3>1, <3>4, <5>1
          <6> QED BY <5>2, <6>1 DEF TwoFanins
        <5>4. m \in Nat
          OBVIOUS
        <5> HIDE DEF p, m
        <5> QED BY <5>3, <5>4, PairFits
      <4> HIDE DEF p, pair, m, prim
      <4>3. Sound(prim) /\ prim.site = p.site /\ Top(prim) = Len(p.node) + 1
        BY <3>4, <4>1, <4>2, PrimNode
      <4> QED BY <4>3 DEF Top
    <3>6. prim \in Builds
      BY <3>5 DEF Sound
    <3> DEFINE pos == ChainPosition("Xor", j + 2)
    <3>7. pos = 2
      BY DEF ChainPosition
    <3>8. s = <<lo + (j + 1), 2>>
      <4>1. Top(prim) = lo + (j + 1)
        <5>1. Top(prim) = (lo + j) + 1
          BY <3>4, <3>5
        <5> HIDE DEF prim, p, lo
        <5> QED BY <1>2, <3>1, <5>1
      <4> HIDE DEF prim, p, pos
      <4> QED BY <3>7, <4>1 DEF pos
    <3>9. d.site = Append(p.site, s)
      <4> HIDE DEF prim, s, p, d
      <4> QED BY <3>3, <3>5, <3>6 DEF Builds
    <3>10. p.site \in Seq(Pairs) /\ s \in Pairs /\ Len(p.site) = j + 1
      <4>1. p.site \in Seq(Pairs)
        BY <3>4 DEF Sound, Builds
      <4>2. DOMAIN p.site = 1 .. (j - 1) + 2
        BY <3>2
      <4>3. s \in Pairs
        <5>1. lo + (j + 1) \in Nat
          <6>1. lo \in Nat /\ j \in Nat
            BY <1>2, <3>1
          <6> HIDE DEF lo
          <6> QED BY <6>1
        <5>2. <<lo + (j + 1), 2>> \in Pairs
          BY <5>1 DEF Pairs
        <5> HIDE DEF s
        <5> QED BY <3>8, <5>2
      <4>4. Len(p.site) = j + 1
        <5> HIDE DEF p
        <5> QED BY <3>1, <4>1, <4>2
      <4> QED BY <4>1, <4>3, <4>4
    <3>11. /\ DOMAIN d.site = 1 .. (j + 1) + 1 /\ \A k \in 1 .. j + 1 : d.site[k] = p.site[k]
           /\ d.site[(j + 1) + 1] = s
      <4>0. DOMAIN p.site = 1 .. j + 1
        BY <3>10
      <4> HIDE DEF d, p, s
      <4> QED BY <3>9, <3>10, <4>0, AppendFacts
    <3>12. \A w \in 1 .. j + 1 : p.site[w] = SiteAfter(w)
      <4>1. \A w \in 1 .. (j - 1) + 2 : p.site[w] = SiteAfter(w)
        BY <3>2
      <4>2. (j - 1) + 2 = j + 1
        BY <3>1
      <4> HIDE DEF p, SiteAfter
      <4> QED BY <4>1, <4>2
    <3>13. SiteAfter(j + 2) = s
      <4>1. j + 2 # 1 /\ (j + 2) - 1 = j + 1
        BY <3>1
      <4>2. SiteAfter(j + 2) = <<lo + ((j + 2) - 1), 2>>
        BY <4>1
      <4> HIDE DEF s, SiteAfter
      <4> QED BY <3>8, <4>1, <4>2
    <3>14. Sites(j, d)
      <4>1. (j + 1) + 1 = j + 2 /\ \A w \in 1 .. j + 2 : w \in 1 .. j + 1 \/ w = j + 2
        BY <3>1
      <4> HIDE DEF d, p, SiteAfter, s
      <4> QED BY <3>11, <3>12, <3>13, <4>1
    <3> HIDE DEF d
    <3> QED BY <3>1, <3>14 DEF d
  <2> HIDE DEF T
  <2>3. 0 .. n \subseteq T
    BY <1>2, <2>1, <2>2, P!InductionTo
  <2> QED BY <2>3 DEF T
<1>6. ChainShape(b.node, "Xor", fanin, nfo, n, c) /\ Sites(n, c) /\ GateDone(b.node, c)
  <2>1. n \in 0 .. n
    BY <1>2
  <2> HIDE DEF Sites
  <2> QED BY <1>1, <1>3, <1>4, <1>5, <2>1
<1>7. DOMAIN c.site = 1 .. Len(fanin) /\ \A w \in 1 .. Len(fanin) : c.site[w] = SiteAfter(w)
  <2>1. n + 2 = Len(fanin)
    BY <1>2
  <2> HIDE DEF SiteAfter, n
  <2> QED BY <1>6, <2>1
<1>8. \A t \in 1 .. n + 1 : /\ lo + t \in DOMAIN c.node /\ lo + t \notin DOMAIN b.node
                            /\ 1 \in DOMAIN c.node[lo + t].fanin /\ 2 \in DOMAIN c.node[lo + t].fanin
  <2>1. Len(c.node) = lo + 1 + n /\ c.node \in Seq(NodeRecs)
    BY <1>6 DEF ChainShape, GateDone, Sound, Builds
  <2>2. DOMAIN c.node = 1 .. lo + 1 + n /\ DOMAIN b.node = 1 .. lo
    BY <1>2, <2>1
  <2>3. ASSUME NEW t \in 1 .. n + 1 PROVE \E x, y : c.node[lo + t].fanin = <<x, y>>
    <3>1. CASE t = 1
      <4>1. c.node[lo + 1] = NewNode("Xor", <<fanin[1], fanin[2]>>, 1)
        BY <1>6 DEF ChainShape
      <4> QED BY <3>1, <4>1 DEF NewNode
    <3>2. CASE t # 1
      <4>1. t - 1 \in 1 .. n /\ lo + 1 + (t - 1) = lo + t
        BY <1>2, <3>2
      <4>2. c.node[lo + 1 + (t - 1)] = LinkRecord("Xor", fanin, nfo, lo + (t - 1), (t - 1) + 2)
        BY <1>6, <4>1 DEF ChainShape
      <4> DEFINE x == lo + (t - 1)
                 y == fanin[(t - 1) + 2]
      <4>3. LinkRecord("Xor", fanin, nfo, lo + (t - 1), (t - 1) + 2).fanin = <<x, y>>
        BY DEF LinkRecord, NewNode
      <4>4. c.node[lo + t].fanin = <<x, y>>
        BY <4>1, <4>2, <4>3
      <4> HIDE DEF x, y
      <4> QED BY <4>4
    <3> QED BY <3>1, <3>2
  <2>4. \A x, y : 1 \in DOMAIN <<x, y>> /\ 2 \in DOMAIN <<x, y>>
    OBVIOUS
  <2>5. \A t \in 1 .. n + 1 : 1 \in DOMAIN c.node[lo + t].fanin /\ 2 \in DOMAIN c.node[lo + t].fanin
    BY <2>3, <2>4
  <2>6. \A t \in 1 .. n + 1 : lo + t \in 1 .. lo + 1 + n /\ lo + t \notin 1 .. lo
    BY <1>2
  <2> QED BY <2>2, <2>5, <2>6
<1>9. \A w \in 1 .. Len(fanin) : w = 1 \/ w - 1 \in 1 .. n + 1
  BY <1>2
<1>10. ASSUME NEW w \in 1 .. Len(fanin)
       PROVE  \E t \in 1 .. n + 1 : \E p \in {1, 2} : c.site[w] = <<lo + t, p>> /\ (p = 1 <=> w = 1) /\ (p = 2 => t = w - 1)
  <2>1. CASE w = 1
    <3>1. 1 \in 1 .. n + 1
      BY <1>2
    <3>2. c.site[w] = <<lo + 1, 1>>
      BY <1>7, <2>1
    <3> HIDE DEF n, lo
    <3> QED BY <2>1, <3>1, <3>2
  <2>2. CASE w # 1
    <3>1. w - 1 \in 1 .. n + 1
      BY <1>9, <2>2
    <3>2. c.site[w] = <<lo + (w - 1), 2>>
      BY <1>7, <2>2
    <3> DEFINE t == w - 1
    <3>3. t \in 1 .. n + 1 /\ t = w - 1 /\ c.site[w] = <<lo + t, 2>>
      BY <3>1, <3>2
    <3> HIDE DEF n, lo, t
    <3> QED BY <2>2, <3>3
  <2> QED BY <2>1, <2>2
<1>11. ASSUME NEW w \in 1 .. Len(fanin)
       PROVE  /\ c.site[w] = <<c.site[w][1], c.site[w][2]>>
              /\ c.site[w][1] \in DOMAIN c.node /\ c.site[w][1] \notin DOMAIN b.node
              /\ c.site[w][2] \in DOMAIN c.node[c.site[w][1]].fanin
  <2>1. PICK t \in 1 .. n + 1, p \in {1, 2} : c.site[w] = <<lo + t, p>>
    BY <1>10
  <2>2. c.site[w][1] = lo + t /\ c.site[w][2] = p
    BY <2>1
  <2> HIDE DEF lo, n
  <2> QED BY <1>8, <2>1, <2>2
<1>12. ASSUME NEW u \in 1 .. Len(fanin), NEW w \in 1 .. Len(fanin), c.site[u] = c.site[w] PROVE u = w
  <2>1. PICK t \in 1 .. n + 1, p \in {1, 2} : c.site[w] = <<lo + t, p>> /\ (p = 1 <=> w = 1) /\ (p = 2 => t = w - 1)
    BY <1>10
  <2>2. PICK s \in 1 .. n + 1, q \in {1, 2} : c.site[u] = <<lo + s, q>> /\ (q = 1 <=> u = 1) /\ (q = 2 => s = u - 1)
    BY <1>10
  <2>3. lo + s = lo + t /\ p = q
    BY <1>12, <2>1, <2>2
  <2>4. s = t
    <3>1. lo \in Nat /\ s \in Nat /\ t \in Nat
      BY <1>2
    <3> HIDE DEF lo, n
    <3> QED BY <2>3, <3>1
  <2> QED BY <2>1, <2>2, <2>3, <2>4
<1> QED BY <1>7, <1>11, <1>12 DEF SitesMade

\* What a gate that is made forces: the nodes it got are a region of its own.
ForcedMade(before, c, g) ==
  \A k \in DOMAIN g.fanin : \A v \in {"0", "1"} : CVal(g, k, v) \in {"0", "1"} =>
    /\ \A m \in Len(before) + 1 .. Top(c) : c.node[m].type \in InnerTypes
    /\ Forces(c.node, Len(before) + 1, Top(c), c.site[k][1], c.site[k][2], v, CVal(g, k, v))

LEMMA ExprTypes ==
  ASSUME NEW b, NEW expr, NEW fanin, NEW nfo, NEW c, Complete(b, expr, fanin, nfo, c)
  PROVE  \A m \in Len(b.node) + 1 .. Top(c) : c.node[m].type \in InnerTypes
<1> DEFINE K == Keys(expr, Len(fanin), Len(expr))
<1>1. Len(fanin) \in Nat /\ ProperExpr(expr, Len(fanin))
  BY DEF Complete, Fed
<1>2. b.node \in Seq(NodeRecs) /\ c.node \in Seq(NodeRecs)
  BY DEF Complete, NodesDone, Sound, Builds
<1>3. DOMAIN b.node = 1 .. Len(b.node) /\ DOMAIN c.node = 1 .. Top(c) /\ Len(b.node) \in Nat /\ Top(c) \in Nat
  BY <1>2 DEF Top
<1>4. SUFFICES ASSUME NEW m \in Len(b.node) + 1 .. Top(c) PROVE c.node[m].type \in InnerTypes
  OBVIOUS
<1>5. m \in DOMAIN c.node /\ m \notin DOMAIN b.node
  BY <1>3
<1>6. PICK key \in K : c.node[m] = RecordOf(expr, fanin, nfo, c, key)
  <2>1. PICK key \in K : KeyLine(c, key) = m
    BY <1>5, KeyNodes
  <2>2. c.node[KeyLine(c, key)] = RecordOf(expr, fanin, nfo, c, key)
    BY <2>1, KeyNodes
  <2> QED BY <2>1, <2>2
<1>7. RecordOf(expr, fanin, nfo, c, key).type =
        IF key[2] = 1 THEN "Buff" ELSE IF key[2] = 2 THEN "Not" ELSE expr[key[1]].op
  BY DEF RecordOf, NewNode
<1>8. key[2] = 1 \/ key[2] = 2 \/ (key[2] = 3 /\ key[1] \in Operators(expr))
  BY DEF Keys, BufferKeys, InverterKeys, OperatorKeys
<1>9. \A q \in Operators(expr) : expr[q].op \in Ops
  BY DEF Operators, Ops
<1> HIDE DEF K
<1>10. CASE key[2] = 3 /\ key[1] \in Operators(expr)
  BY <1>6, <1>7, <1>9, <1>10 DEF InnerTypes, GateTypes, Ops
<1>11. CASE key[2] = 1 \/ key[2] = 2
  BY <1>6, <1>7, <1>11 DEF InnerTypes, GateTypes
<1> QED BY <1>8, <1>10, <1>11

\* Every input of a source gate has a site of its own, at a pin of a new node, except that
\* a wide XNOR numbers them past the two pins that its nodes have; and where the gate
\* forces its output, the site does.
LEMMA GateBuildSites ==
  ASSUME NEW g, NEW first \in Nat \ {0}, ProperGate(g, first), Wired(node, conn),
         Maps(nodeMap, first - 1, node), NEW nfo \in Nat, g.type = "Xnor" => Len(g.fanin) <= 2,
         NEW c, c = GateBuild(g, FaninNodes(g, nodeMap), nfo)
  PROVE  SitesMade(node, c, Len(g.fanin)) /\ ForcedMade(node, c, g)
<1> DEFINE fanin == FaninNodes(g, nodeMap)
           b == [node |-> node, conn |-> conn, site |-> << >>, leaf |-> << >>, at |-> << >>]
<1>1. b.node = node /\ b.conn = conn /\ b.site = << >> /\ b.leaf = << >> /\ b.at = << >>
  OBVIOUS
<1>2. node \in Seq(NodeRecs) /\ conn \in Seq(Pairs)
  BY DEF Wired, Pairs
<1>3. b \in Builds
  BY <1>2 DEF Builds
<1>4. c = CASE g.type = "Expr" -> ExprGate(b, g.expr, fanin, nfo)
            [] g.type \in {"Xor", "Xnor"} /\ Len(fanin) > 2 -> XorChain(b, g.type, fanin, nfo)
            [] OTHER -> SimpleGate(b, g.type, fanin, nfo)
  BY Zenon DEF GateBuild
<1> HIDE DEF b
<1>5. Sound(b) /\ Placed(b)
  <2>1. DOMAIN << >> = {}
    OBVIOUS
  <2> QED BY <1>1, <1>3, <2>1 DEF Sound, Placed
<1>6. /\ Fed(b.node, fanin) /\ Len(fanin) = Len(g.fanin) /\ fanin \in Seq(Nat) /\ DOMAIN g.fanin = 1 .. Len(fanin)
      /\ DOMAIN fanin = 1 .. Len(fanin) /\ Len(fanin) \in Nat
  <2>1. Fed(b.node, fanin) /\ Len(fanin) = Len(g.fanin) /\ DOMAIN fanin = DOMAIN g.fanin
    BY <1>1, <1>2, FaninIsFed
  <2>2. fanin \in Seq(Nat)
    BY <2>1 DEF Fed
  <2> HIDE DEF fanin
  <2> QED BY <2>1, <2>2
<1> HIDE DEF fanin
<1>7. CASE g.type = "Expr"
  <2>1. ProperExpr(g.expr, Len(fanin))
    BY <1>6, <1>7 DEF ProperGate
  <2>2. c = ExprGate(b, g.expr, fanin, nfo)
    BY <1>4, <1>7
  <2>3. GateDone(b.node, c)
    BY <1>1, <1>5, <1>6, <2>1, <2>2, ExprGateShape
  <2>4. ExprShape(b.node, g.expr, fanin, nfo, Len(fanin), Len(g.expr), c)
    BY <1>1, <1>5, <1>6, <2>1, <2>2, ExprGateShape
  <2>5. NodesDone(b.node, g.expr, Len(fanin), Len(g.expr), c)
    BY <1>1, <1>5, <1>6, <2>1, <2>2, ExprGateShape
  <2>6. Complete(b, g.expr, fanin, nfo, c)
    BY <1>5, <1>6, <2>1, <2>4, <2>5 DEF Complete
  <2>7. SitesMade(node, c, Len(g.fanin))
    BY <1>1, <1>6, <2>3, <2>6, ExprSites
  <2>8. \A m \in Len(node) + 1 .. Top(c) : c.node[m].type \in InnerTypes
    BY <1>1, <2>6, ExprTypes
  <2>9. ASSUME NEW k \in DOMAIN g.fanin, NEW v \in {"0", "1"}, CVal(g, k, v) \in {"0", "1"}
        PROVE  Forces(c.node, Len(node) + 1, Top(c), c.site[k][1], c.site[k][2], v, CVal(g, k, v))
    <3>1. CVal(g, k, v) = ExprValue(g.expr, [j \in DOMAIN g.fanin |-> IF j = k THEN v ELSE "X"])
      BY <1>7 DEF CVal
    <3>2. [j \in DOMAIN g.fanin |-> IF j = k THEN v ELSE "X"] = OnlyInput(Len(fanin), k, v)
      BY <1>6 DEF OnlyInput
    <3>3. CVal(g, k, v) = ExprValue(g.expr, OnlyInput(Len(fanin), k, v)) /\ CVal(g, k, v) # "X"
      BY <2>9, <3>1, <3>2
    <3>4. k \in 1 .. Len(fanin)
      BY <1>6
    <3> QED BY <1>1, <2>3, <2>6, <3>3, <3>4, ExprForces
  <2> QED BY <2>7, <2>8, <2>9 DEF ForcedMade
<1>8. CASE g.type \in {"Xor", "Xnor"} /\ Len(fanin) > 2
  <2>1. g.type = "Xor"
    BY <1>6, <1>8
  <2>2. c = XorChain(b, "Xor", fanin, nfo)
    BY <1>4, <1>8, <2>1
  <2>3. SitesMade(node, c, Len(g.fanin))
    BY <1>1, <1>5, <1>6, <1>8, <2>2, ChainSites
  <2>4. \A k, v : v \in {"0", "1"} => CVal(g, k, v) = "X"
    BY <2>1 DEF CVal, ControlValue
  <2> QED BY <2>3, <2>4 DEF ForcedMade
<1>9. CASE g.type # "Expr" /\ ~ (g.type \in {"Xor", "Xnor"} /\ Len(fanin) > 2)
  <2>1. g.type \in {"Const0", "Const1", "Buff", "Not", "And", "Nand", "Or", "Nor", "Xor", "Xnor"}
    BY <1>9 DEF ProperGate, GateTypes
  <2>2. /\ g.type \in {"Const0", "Const1"} => Len(fanin) = 0
        /\ g.type \in {"Buff", "Not"} => Len(fanin) = 1
        /\ g.type \notin {"Const0", "Const1", "Buff", "Not"} => Len(fanin) >= 2
    <3>1. Len(<< >>) = 0
      OBVIOUS
    <3> QED BY <1>6, <2>1, <3>1 DEF ProperGate
  <2>3. fanin = << >> <=> Len(fanin) = 0
    BY <1>6
  <2>4. Arity(g.type, fanin) /\ g.type \in C!NodeTypes /\ g.type \notin C!PpoTypes
    BY <2>1, <2>2, <2>3 DEF Arity, C!NodeTypes, C!GateTypes, C!PpoTypes, C!NoFanin, C!PpiTypes, C!OneFanin, C!ControlTypes
  <2>5. c = SimpleGate(b, g.type, fanin, nfo)
    BY <1>4, <1>9
  <2>6. Fits(b.node, g.type, fanin, nfo)
    BY <1>6, <2>4 DEF Fits
  <2>6s. SimpleMade(node, g.type, fanin, nfo, c)
    BY <1>1, <1>5, <2>5, <2>6, SimpleSites
  <2>7. /\ c.site = [k \in DOMAIN fanin |-> <<Top(c), k>>]
        /\ c.node[Top(c)] = NewNode(g.type, fanin, nfo) /\ Top(c) = Len(node) + 1 /\ Len(node) \in Nat
    BY <2>6s DEF SimpleMade
  <2>8. SitesMade(node, c, Len(g.fanin))
    BY <1>6, <2>6s DEF SimpleMade
  <2>9. ASSUME NEW k \in DOMAIN g.fanin, NEW v \in {"0", "1"}, CVal(g, k, v) \in {"0", "1"}
        PROVE  /\ \A m \in Len(node) + 1 .. Top(c) : c.node[m].type \in InnerTypes
               /\ Forces(c.node, Len(node) + 1, Top(c), c.site[k][1], c.site[k][2], v, CVal(g, k, v))
    <3> DEFINE q == Top(c)
               w == CVal(g, k, v)
    <3>1. k \in DOMAIN fanin /\ k \in 1 .. Len(fanin)
      BY <1>6
    <3>2. g.type \in {"Buff", "Not", "And", "Nand", "Or", "Nor", "Xor", "Xnor"} /\ (g.type \in {"Buff", "Not"} => k = 1)
      <4> DEFINE l == Len(fanin)
      <4>1. l \in Nat /\ k \in 1 .. l /\ (g.type \in {"Const0", "Const1"} => l = 0) /\ (g.type \in {"Buff", "Not"} => l = 1)
        BY <1>6, <2>2, <3>1
      <4> HIDE DEF l
      <4> QED BY <2>1, <4>1
    <3>3. w # "X" /\ w = IF g.type \in {"Buff", "Not"} THEN GateFunction(g.type, <<v>>)
                         ELSE IF v = ControlValue(g.type) THEN ControlledOutput(g.type) ELSE "X"
      BY <1>9, <2>9 DEF CVal
    <3>4. c.node[q].type = g.type /\ c.site[k][1] = q /\ c.site[k][2] = k
      <4>1. c.site[k] = <<q, k>>
        BY <2>7, <3>1
      <4> QED BY <2>7, <4>1 DEF NewNode
    <3>5. g.type \in InnerTypes
      BY <3>2 DEF InnerTypes, GateTypes
    <3>6. q = Len(node) + 1 /\ q \in Nat /\ \A m \in Len(node) + 1 .. q : m = q
      <4>1. q = Len(node) + 1 /\ Len(node) \in Nat
        BY <2>7
      <4> HIDE DEF q
      <4> QED BY <4>1
    <3>7. ASSUME NEW val, Solves(c.node, Len(node) + 1, q, q, k, v, val) PROVE val[q] = w
      <4> DEFINE ins == [j \in DOMAIN fanin |-> IF q = q /\ j = k THEN v ELSE val[fanin[j]]]
      <4>1. q \in Len(node) + 1 .. q
        <5> HIDE DEF q
        <5> QED BY <3>6
      <4>2. val[q] = GateFunction(g.type, ins)
        BY <2>7, <3>7, <4>1, SolvedAt
      <4>3. k \in DOMAIN ins /\ ins[k] = v
        BY <3>1
      <4> HIDE DEF ins, w
      <4> QED BY <3>2, <3>3, <4>2, <4>3, ControlForces
    <3> HIDE DEF q, w
    <3>8. Forces(c.node, Len(node) + 1, q, q, k, v, w)
      BY <3>7 DEF Forces
    <3> QED BY <3>4, <3>5, <3>6, <3>8 DEF q, w
  <2> QED BY <2>8, <2>9 DEF ForcedMade
<1> QED BY <1>7, <1>8, <1>9

-----------------------------------------------------------------------------
(* What is built later leaves the regions of the gates alone.              *)

LEMMA NewFaninsAvoid ==
  ASSUME NEW old, NEW c, NEW map, NEW f, NEW nfo, Filling(old, c, map, f, nfo),
         NEW lo \in Nat \ {0}, NEW q, Region(old, map, lo, q)
  PROVE  \A n \in DOMAIN c.node : n \notin DOMAIN old =>
           \A k \in DOMAIN c.node[n].fanin : c.node[n].fanin[k] \notin lo .. q - 1
<1> SUFFICES ASSUME NEW n \in DOMAIN c.node, n \notin DOMAIN old, NEW k \in DOMAIN c.node[n].fanin,
                    NEW m, m = c.node[n].fanin[k], m \in lo .. q - 1
             PROVE  FALSE
  OBVIOUS
<1>1. PICK oldConns : Wired(old, oldConns)
  BY DEF Filling
<1>2. PICK extra : GateFed(old, c, Carried(f, map), nfo, extra)
  BY DEF Filling
<1>3. Sound(c) /\ Grown(old, c.node) /\ \A j \in DOMAIN f : f[j] \in DOMAIN map
  BY DEF Filling
<1>4. Wired(c.node, c.conn)
  BY <1>3 DEF Sound
<1>5. <<n, k>> \in NewPins(old, c.node, m)
  <2>1. <<n, k>> \in PinsOf(c.node) /\ Line(c.node, <<n, k>>) = m
    BY <1>4, PinFacts
  <2> QED BY <2>1 DEF NewPins, FedPins
<1>6. m \in DOMAIN old
  <2>1. old \in Seq(NodeRecs) /\ q \in DOMAIN old
    BY <1>1 DEF Wired, Region
  <2>2. DOMAIN old = 1 .. Len(old) /\ Len(old) \in Nat
    BY <2>1
  <2> QED BY <2>1, <2>2
<1>7. FedBy(Carried(f, map), m) = {}
  <2>1. \A j \in DOMAIN f : map[f[j]] # m
    BY <1>3 DEF Region
  <2>2. DOMAIN Carried(f, map) = DOMAIN f /\ \A j \in DOMAIN f : Carried(f, map)[j] = map[f[j]]
    BY DEF Carried
  <2> QED BY <2>1, <2>2 DEF FedBy
<1>8. Cardinality(NewPins(old, c.node, m)) = 0
  <2>1. Cardinality(NewPins(old, c.node, m)) = Cardinality(FedBy(Carried(f, map), m))
    BY <1>2, <1>6 DEF GateFed
  <2> QED BY <1>7, <2>1, FS_EmptySet
<1>9. IsFiniteSet(NewPins(old, c.node, m))
  BY <1>1, <1>3, <1>4, LoadGrown
<1> QED BY <1>5, <1>8, <1>9, FS_EmptySet

\* A map of the same nodes, and of new ones.
MapsOn(old, map, new) == \A s \in DOMAIN new : new[s] \notin DOMAIN old \/ \E t \in DOMAIN map : new[s] = map[t]
LEMMA RegionKept ==
  ASSUME NEW old, NEW c, NEW map, NEW f, NEW nfo, Filling(old, c, map, f, nfo),
         NEW lo \in Nat \ {0}, NEW q, Region(old, map, lo, q), NEW new, MapsOn(old, map, new)
  PROVE  Region(c.node, new, lo, q)
<1>1. old \in Seq(NodeRecs) /\ c.node \in Seq(NodeRecs) /\ Grown(old, c.node)
  BY DEF Filling, Sound, Builds, Wired
<1>2. \A n \in DOMAIN old : n \in DOMAIN c.node /\ c.node[n] = old[n]
  BY <1>1, GrownFacts DEF Grown
<1>3. q \in DOMAIN old /\ lo .. q \subseteq DOMAIN old /\ lo .. q - 1 \subseteq DOMAIN old
  <2>1. q \in DOMAIN old /\ DOMAIN old = 1 .. Len(old) /\ Len(old) \in Nat
    BY <1>1 DEF Region
  <2> QED BY <2>1
<1>4. \A m \in lo .. q : c.node[m].type \in InnerTypes
  BY <1>2, <1>3 DEF Region
<1>5. ASSUME NEW n \in DOMAIN c.node, n \notin lo .. q, NEW k \in DOMAIN c.node[n].fanin
      PROVE  c.node[n].fanin[k] \notin lo .. q - 1
  <2>1. CASE n \in DOMAIN old
    BY <1>2, <1>5, <2>1 DEF Region
  <2>2. CASE n \notin DOMAIN old
    BY <2>2, NewFaninsAvoid
  <2> QED BY <2>1, <2>2
<1>6. \A s \in DOMAIN new : new[s] \notin lo .. q - 1
  BY <1>3 DEF MapsOn, Region
<1> QED BY <1>2, <1>3, <1>4, <1>5, <1>6 DEF Region

LEMMA ForcesKept ==
  ASSUME NEW old, NEW nodes, NEW lo, NEW q, \A m \in lo .. q : nodes[m] = old[m],
         NEW n, NEW p, NEW v, NEW w, Forces(old, lo, q, n, p, v, w)
  PROVE  Forces(nodes, lo, q, n, p, v, w)
<1> SUFFICES ASSUME NEW val, Solves(nodes, lo, q, n, p, v, val) PROVE Solves(old, lo, q, n, p, v, val)
  BY DEF Forces
<1>1. \A m \in lo .. q : PinValues(nodes, m, n, p, v, val) = PinValues(old, m, n, p, v, val)
  BY DEF PinValues
<1> QED BY <1>1 DEF Solves

LEMMA CoversKept ==
  ASSUME NEW old, NEW c, NEW map, NEW f, NEW nfo, Filling(old, c, map, f, nfo),
         NEW new, MapsOn(old, map, new), NEW a, NEW b, a.node \in DOMAIN old, Covers(old, map, a, b)
  PROVE  Covers(c.node, new, a, b)
<1>1. PICK lo \in Nat \ {0} : /\ lo <= a.node /\ a.node <= b.node /\ a.pos \in DOMAIN old[a.node].fanin
                              /\ Region(old, map, lo, b.node)
                              /\ Forces(old, lo, b.node, a.node, a.pos, a.val, b.val)
  BY DEF Covers
<1>2. old \in Seq(NodeRecs) /\ c.node \in Seq(NodeRecs) /\ Grown(old, c.node)
  BY DEF Filling, Sound, Builds, Wired
<1>3. \A n \in DOMAIN old : c.node[n] = old[n]
  BY <1>2 DEF Grown
<1>4. lo .. b.node \subseteq DOMAIN old
  <2>1. b.node \in DOMAIN old /\ DOMAIN old = 1 .. Len(old) /\ Len(old) \in Nat
    BY <1>1, <1>2 DEF Region
  <2> QED BY <2>1
<1>5. Forces(c.node, lo, b.node, a.node, a.pos, a.val, b.val)
  BY <1>1, <1>3, <1>4, ForcesKept
<1>6. Region(c.node, new, lo, b.node)
  BY <1>1, RegionKept
<1>7. a.pos \in DOMAIN c.node[a.node].fanin
  BY <1>1, <1>3
<1> QED BY <1>1, <1>5, <1>6, <1>7 DEF Covers

-----------------------------------------------------------------------------
(* The faults as they are made.                                            *)

Traced(nodes, map, faults) == SitesOnce(faults) /\ \A f \in DOMAIN faults : Original(nodes, map, faults, f)

\* Faults of new nodes, which come after those there are.
FreshAt(old, nodes, map, faults, new, t) ==
  /\ new[t].node \in DOMAIN nodes /\ new[t].node \notin DOMAIN old /\ PinExists(nodes, new[t])
  /\ new[t].pos = 0 => new[t].rep = 0
  /\ new[t].rep # 0 => \E u \in DOMAIN new : /\ new[t].rep = Len(faults) + u /\ new[u].pos = 0
                                             /\ Covers(nodes, map, new[t], new[u])
Fresh(old, nodes, map, faults, new) ==
  SitesOnce(new) /\ \A t \in DOMAIN new : FreshAt(old, nodes, map, faults, new, t)

AnyFault == [node : Nat, pos : Nat, val : {"0", "1"}, rep : Nat]
LEMMA AnyFaults ==
  ASSUME NEW n \in Nat, NEW m \in Nat, NEW s \in Seq(FaultRecs(n, m))
  PROVE  s \in Seq(AnyFault)
<1>1. FaultRecs(n, m) \subseteq AnyFault
  BY DEF FaultRecs, AnyFault
<1> HIDE DEF AnyFault
<1> QED BY <1>1

LEMMA TracedMore ==
  ASSUME NEW old, NEW c, NEW map, NEW f, NEW nfo, Filling(old, c, map, f, nfo), NEW to, MapsOn(old, map, to),
         NEW faults \in Seq(AnyFault), Faulted(old, faults), Traced(old, map, faults),
         NEW new \in Seq(AnyFault), Fresh(old, c.node, to, faults, new), NEW both, both = faults \o new
  PROVE  Traced(c.node, to, both)
<1>1. /\ Len(faults) \in Nat /\ DOMAIN faults = 1 .. Len(faults) /\ DOMAIN new = 1 .. Len(new) /\ Len(new) \in Nat
      /\ DOMAIN both = 1 .. Len(faults) + Len(new)
      /\ \A k \in DOMAIN faults : both[k] = faults[k]
      /\ \A k \in DOMAIN new : both[Len(faults) + k] = new[k]
  BY ConcatFacts
<1>2. \A k \in DOMAIN both : k \in DOMAIN faults \/ \E t \in DOMAIN new : k = Len(faults) + t
  <2> DEFINE x == Len(faults)
             y == Len(new)
  <2>1. x \in Nat /\ y \in Nat /\ DOMAIN both = 1 .. x + y /\ DOMAIN faults = 1 .. x /\ DOMAIN new = 1 .. y
    BY <1>1
  <2> HIDE DEF x, y
  <2>2. \A k \in 1 .. x + y : k \in 1 .. x \/ (k - x \in 1 .. y /\ k = x + (k - x))
    BY <2>1
  <2> QED BY <2>1, <2>2 DEF x
<1>3. old \in Seq(NodeRecs) /\ c.node \in Seq(NodeRecs) /\ Grown(old, c.node)
  BY DEF Filling, Sound, Builds, Wired
<1>4. \A n \in DOMAIN old : n \in DOMAIN c.node /\ c.node[n] = old[n]
  BY <1>3, GrownFacts DEF Grown
<1>5. \A k \in DOMAIN faults : faults[k].node \in DOMAIN old /\ (faults[k].rep # 0 => faults[k].rep \in DOMAIN faults)
  <2> DEFINE x == Len(faults)
             n == Len(old)
  <2>1. \A k \in DOMAIN faults : faults[k] \in FaultRecs(n, x)
    BY DEF Faulted
  <2>2. \A k \in DOMAIN faults : faults[k].node \in 1 .. n /\ faults[k].rep \in 0 .. x
    <3> HIDE DEF x, n
    <3> QED BY <2>1 DEF FaultRecs
  <2>3. DOMAIN faults = 1 .. x /\ DOMAIN old = 1 .. n /\ x \in Nat
    BY <1>1, <1>3
  <2> HIDE DEF x, n
  <2> QED BY <2>2, <2>3
<1>6. \A t \in DOMAIN new : new[t].node \notin DOMAIN old
  BY DEF Fresh, FreshAt
<1>7. SitesOnce(both)
  <2> SUFFICES ASSUME NEW j \in DOMAIN both, NEW k \in DOMAIN both, both[j].node = both[k].node,
                      both[j].pos = both[k].pos, both[j].val = both[k].val
               PROVE  j = k
    BY DEF SitesOnce
  <2>1. CASE j \in DOMAIN faults /\ k \in DOMAIN faults
    BY <1>1, <2>1 DEF Traced, SitesOnce
  <2>2. CASE j \notin DOMAIN faults /\ k \notin DOMAIN faults
    <3>1. PICK s \in DOMAIN new : j = Len(faults) + s
      BY <1>2, <2>2
    <3>2. PICK t \in DOMAIN new : k = Len(faults) + t
      BY <1>2, <2>2
    <3>3. both[j] = new[s] /\ both[k] = new[t]
      BY <1>1, <3>1, <3>2
    <3> QED BY <3>1, <3>2, <3>3 DEF Fresh, SitesOnce
  <2>3. CASE j \in DOMAIN faults /\ k \notin DOMAIN faults
    BY <1>1, <1>2, <1>5, <1>6, <2>3
  <2>4. CASE j \notin DOMAIN faults /\ k \in DOMAIN faults
    BY <1>1, <1>2, <1>5, <1>6, <2>4
  <2> QED BY <2>1, <2>2, <2>3, <2>4
<1>8. ASSUME NEW k \in DOMAIN both PROVE Original(c.node, to, both, k)
  <2>1. CASE k \in DOMAIN faults
    <3>1. Original(old, map, faults, k) /\ both[k] = faults[k]
      BY <1>1, <2>1 DEF Traced
    <3>2. PinExists(c.node, both[k])
      BY <1>4, <1>5, <2>1, <3>1 DEF Original, PinExists
    <3>3. ASSUME both[k].rep # 0
          PROVE  both[both[k].rep].pos = 0 /\ Covers(c.node, to, both[k], both[both[k].rep])
      <4>1. faults[k].rep \in DOMAIN faults
        BY <1>5, <2>1, <3>1, <3>3
      <4>2. both[both[k].rep] = faults[faults[k].rep]
        BY <1>1, <3>1, <4>1
      <4>3. Covers(old, map, faults[k], faults[faults[k].rep]) /\ faults[faults[k].rep].pos = 0
        BY <3>1, <3>3 DEF Original
      <4>4. Covers(c.node, to, faults[k], faults[faults[k].rep])
        BY <1>5, <2>1, <4>3, CoversKept
      <4> QED BY <3>1, <4>2, <4>3, <4>4
    <3> QED BY <3>1, <3>2, <3>3 DEF Original
  <2>2. CASE k \notin DOMAIN faults
    <3>1. PICK t \in DOMAIN new : k = Len(faults) + t
      BY <1>2, <2>2
    <3>2. both[k] = new[t] /\ FreshAt(old, c.node, to, faults, new, t)
      BY <1>1, <3>1 DEF Fresh
    <3>3. ASSUME both[k].rep # 0
          PROVE  both[both[k].rep].pos = 0 /\ Covers(c.node, to, both[k], both[both[k].rep])
      <4>1. PICK u \in DOMAIN new : new[t].rep = Len(faults) + u /\ new[u].pos = 0 /\ Covers(c.node, to, new[t], new[u])
        BY <3>2, <3>3 DEF FreshAt
      <4>2. both[both[k].rep] = new[u]
        BY <1>1, <3>2, <4>1
      <4> QED BY <3>2, <4>1, <4>2
    <3> QED BY <3>2, <3>3 DEF Original, FreshAt
  <2> QED BY <2>1, <2>2
<1> QED BY <1>7, <1>8 DEF Traced

LEMMA PairFresh ==
  ASSUME NEW old, NEW nodes, NEW to, NEW faults, NEW n \in DOMAIN nodes, n \notin DOMAIN old,
         NEW p, p = 0 \/ p \in DOMAIN nodes[n].fanin,
         NEW new, new = << [node |-> n, pos |-> p, val |-> "0", rep |-> 0],
                           [node |-> n, pos |-> p, val |-> "1", rep |-> 0] >>
  PROVE  Fresh(old, nodes, to, faults, new)
<1>1. DOMAIN new = {1, 2} /\ new[1].val = "0" /\ new[2].val = "1"
  OBVIOUS
<1>2. \A t \in {1, 2} : new[t].node = n /\ new[t].pos = p /\ new[t].rep = 0
  OBVIOUS
<1>3. \A t \in DOMAIN new : FreshAt(old, nodes, to, faults, new, t)
  BY <1>1, <1>2 DEF FreshAt, PinExists
<1>4. SitesOnce(new)
  BY <1>1 DEF SitesOnce
<1> QED BY <1>3, <1>4 DEF Fresh

\* The nodes of a gate that has just been made are a region.
LEMMA GateRegion ==
  ASSUME NEW c, GateDone(node, c), node \in Seq(NodeRecs), Top(c) \notin DOMAIN node,
         \A m \in Len(node) + 1 .. Top(c) : c.node[m].type \in InnerTypes,
         NEW to, \A s \in DOMAIN to : to[s] \in DOMAIN node \/ to[s] = Top(c)
  PROVE  Region(c.node, to, Len(node) + 1, Top(c))
<1>1. c.node \in Seq(NodeRecs) /\ Wired(c.node, c.conn) /\ Grown(node, c.node)
  BY DEF GateDone, Sound, Builds
<1> DEFINE n == Len(node)
           q == Top(c)
<1>2. n \in Nat /\ DOMAIN node = 1 .. n /\ q \in Nat /\ DOMAIN c.node = 1 .. q
  BY <1>1 DEF Top
<1>3. q \in DOMAIN c.node
  BY DEF GateDone, Drives
<1>4. \A m \in DOMAIN c.node : m \notin n + 1 .. q => m \in DOMAIN node
  <2> HIDE DEF n, q
  <2> QED BY <1>2
<1>5. \A m \in DOMAIN node : m \in DOMAIN c.node /\ \A k \in DOMAIN c.node[m].fanin : c.node[m].fanin[k] \notin n + 1 .. q - 1
  <2>1. \A m \in DOMAIN c.node : \A k \in DOMAIN c.node[m].fanin : c.node[m].fanin[k] \in 1 .. m - 1
    BY <1>1 DEF Wired
  <2>2. \A m \in 1 .. n : \A x \in 1 .. m - 1 : x \notin n + 1 .. q - 1
    <3> HIDE DEF n, q
    <3> QED BY <1>2
  <2>3. \A m \in 1 .. n : m \in DOMAIN c.node
    BY <1>1, <1>2, GrownFacts
  <2> HIDE DEF n, q
  <2> QED BY <1>2, <2>1, <2>2, <2>3
<1>6. \A s \in DOMAIN to : to[s] \notin n + 1 .. q - 1
  <2>1. \A x \in 1 .. n : x \notin n + 1 .. q - 1
    <3> HIDE DEF n, q
    <3> QED BY <1>2
  <2>2. q \notin n + 1 .. q - 1
    <3> HIDE DEF n, q
    <3> QED BY <1>2
  <2> HIDE DEF n
  <2> QED BY <1>2, <2>1, <2>2
<1> HIDE DEF n, q
<1> QED BY <1>3, <1>4, <1>5, <1>6 DEF Region, n, q

\* The fault of input k of a gate that is made.
InputFault(g, c, k, v, first) ==
  [node |-> c.site[k][1], pos |-> c.site[k][2], val |-> v, rep |-> ForcedRep(g, k, v, first)]
InputFaultsOf(g, c, first) == [k \in DOMAIN c.site |-> InputFaults(g, k, c.site[k], first)]

LEMMA InputFaultsAre ==
  ASSUME NEW g, NEW c, GateDone(node, c), NEW first \in Nat, SitesMade(node, c, Len(g.fanin)), Len(g.fanin) \in Nat,
         NEW ins, ins = InputFaultsOf(g, c, first)
  PROVE  /\ ins \in Seq(Seq(AnyFault))
         /\ \A k \in DOMAIN ins : /\ k \in 1 .. Len(g.fanin) /\ DOMAIN ins[k] = {1, 2}
                                  /\ ins[k][1] = InputFault(g, c, k, "0", first)
                                  /\ ins[k][2] = InputFault(g, c, k, "1", first)
<1> DEFINE ni == Len(g.fanin)
<1>1. DOMAIN c.site = 1 .. ni /\ c.site \in Seq(Pairs)
  BY DEF SitesMade, GateDone, Sound, Builds
<1>2. ASSUME NEW k \in 1 .. ni
      PROVE  /\ ins[k] \in Seq(AnyFault) /\ DOMAIN ins[k] = {1, 2}
             /\ ins[k][1] = InputFault(g, c, k, "0", first) /\ ins[k][2] = InputFault(g, c, k, "1", first)
  <2> DEFINE F(m) == LET v == IF m = 1 THEN "0" ELSE "1"
                     IN  [node |-> c.site[k][1], pos |-> c.site[k][2], val |-> v, rep |-> ForcedRep(g, k, v, first)]
  <2>1. ins[k] = [m \in 1 .. 2 |-> F(m)]
    <3>1. ins[k] = InputFaults(g, k, c.site[k], first)
      BY <1>1 DEF InputFaultsOf
    <3> QED BY Zenon, <3>1 DEF InputFaults
  <2>2. F(1) = InputFault(g, c, k, "0", first) /\ F(2) = InputFault(g, c, k, "1", first)
    BY DEF InputFault
  <2>3. \A v \in {"0", "1"} : InputFault(g, c, k, v, first) \in AnyFault
    <3> SUFFICES ASSUME NEW v \in {"0", "1"} PROVE InputFault(g, c, k, v, first) \in AnyFault
      OBVIOUS
    <3>1. c.site[k][1] \in Nat /\ c.site[k][2] \in Nat
      BY <1>1 DEF Pairs
    <3>2. ForcedRep(g, k, v, first) \in Nat
      BY DEF ForcedRep
    <3> QED BY <3>1, <3>2 DEF InputFault, AnyFault
  <2> HIDE DEF F
  <2>4. 1 .. 2 = {1, 2}
    OBVIOUS
  <2>5. DOMAIN ins[k] = {1, 2} /\ ins[k][1] = F(1) /\ ins[k][2] = F(2)
    BY <2>1, <2>4
  <2>6. \A m \in 1 .. 2 : F(m) \in AnyFault
    BY <2>2, <2>3, <2>4
  <2>7. ins[k] \in Seq(AnyFault)
    <3> HIDE DEF AnyFault
    <3> QED BY <2>1, <2>6
  <2> QED BY <2>2, <2>5, <2>7
<1>3. ins = [k \in 1 .. ni |-> ins[k]]
  BY <1>1 DEF InputFaultsOf
<1>4. ins \in Seq(Seq(AnyFault)) /\ DOMAIN ins = 1 .. ni
  BY <1>2, <1>3, IndexedType
<1> QED BY <1>2, <1>4

\* What the lists of the inputs are together: the faults of the sites, each once.
LEMMA InputFaultsOnce ==
  ASSUME NEW g, NEW c, GateDone(node, c), NEW first \in Nat, SitesMade(node, c, Len(g.fanin)), Len(g.fanin) \in Nat,
         NEW ins, ins = InputFaultsOf(g, c, first), NEW flat, flat = FlattenSeq(ins)
  PROVE  /\ flat \in Seq(AnyFault)
         /\ \A t \in DOMAIN flat : \E k \in 1 .. Len(g.fanin), v \in {"0", "1"} : flat[t] = InputFault(g, c, k, v, first)
         /\ SitesOnce(flat)
<1>1. /\ ins \in Seq(Seq(AnyFault))
      /\ \A k \in DOMAIN ins : /\ k \in 1 .. Len(g.fanin) /\ DOMAIN ins[k] = {1, 2}
                               /\ ins[k][1] = InputFault(g, c, k, "0", first)
                               /\ ins[k][2] = InputFault(g, c, k, "1", first)
  BY InputFaultsAre
<1>2. flat \in Seq(AnyFault) /\ ToSet(flat) = UNION {ToSet(ins[k]) : k \in DOMAIN ins}
  BY <1>1, FlattenFacts
<1>3. ASSUME NEW k \in DOMAIN ins, NEW x \in ToSet(ins[k]) PROVE \E v \in {"0", "1"} : x = InputFault(g, c, k, v, first)
  <2>1. PICK m \in DOMAIN ins[k] : x = ins[k][m]
    BY DEF ToSet
  <2> QED BY <1>1, <2>1
<1>4. ASSUME NEW t \in DOMAIN flat
      PROVE  \E k \in 1 .. Len(g.fanin), v \in {"0", "1"} : flat[t] = InputFault(g, c, k, v, first)
  <2>1. flat[t] \in ToSet(flat)
    BY DEF ToSet
  <2>2. PICK k \in DOMAIN ins : flat[t] \in ToSet(ins[k])
    BY <1>2, <2>1
  <2> QED BY <1>1, <1>3, <2>2
<1>5. \A j, k \in 1 .. Len(g.fanin) : c.site[j][1] = c.site[k][1] /\ c.site[j][2] = c.site[k][2] => j = k
  <2> SUFFICES ASSUME NEW j \in 1 .. Len(g.fanin), NEW k \in 1 .. Len(g.fanin),
                      c.site[j][1] = c.site[k][1], c.site[j][2] = c.site[k][2]
               PROVE  j = k
    OBVIOUS
  <2>1. c.site[j] = <<c.site[j][1], c.site[j][2]>> /\ c.site[k] = <<c.site[k][1], c.site[k][2]>>
    BY DEF SitesMade
  <2>2. c.site[j] = c.site[k]
    BY <2>1
  <2> QED BY <2>2 DEF SitesMade
<1>6. \A j, v : /\ InputFault(g, c, j, v, first).node = c.site[j][1] /\ InputFault(g, c, j, v, first).pos = c.site[j][2]
                /\ InputFault(g, c, j, v, first).val = v
  BY DEF InputFault
<1>7. Apart(ins, AnyFault)
  <2>1. ASSUME NEW k \in DOMAIN ins PROVE Once(ins[k], AnyFault)
    <3>1. ins[k][1] # ins[k][2]
      BY <1>1, <1>6
    <3> QED BY <1>1, <3>1 DEF Once
  <2>2. ASSUME NEW j \in DOMAIN ins, NEW k \in DOMAIN ins, j # k, NEW x, x \in ToSet(ins[j]), x \in ToSet(ins[k])
        PROVE  FALSE
    <3>1. PICK v : x = InputFault(g, c, j, v, first)
      BY <1>3, <2>2
    <3>2. PICK w : x = InputFault(g, c, k, w, first)
      BY <1>3, <2>2
    <3>3. x.node = c.site[j][1] /\ x.pos = c.site[j][2]
      BY <1>6, <3>1
    <3>4. x.node = c.site[k][1] /\ x.pos = c.site[k][2]
      BY <1>6, <3>2
    <3> QED BY <1>1, <1>5, <2>2, <3>3, <3>4
  <2> QED BY <2>1, <2>2 DEF Apart
<1>8. Once(flat, AnyFault)
  BY <1>1, <1>7, OnceFlat
<1>9. SitesOnce(flat)
  <2> SUFFICES ASSUME NEW s \in DOMAIN flat, NEW t \in DOMAIN flat, flat[s].node = flat[t].node,
                      flat[s].pos = flat[t].pos, flat[s].val = flat[t].val
               PROVE  s = t
    BY DEF SitesOnce
  <2>1. PICK j \in 1 .. Len(g.fanin), v \in {"0", "1"} : flat[s] = InputFault(g, c, j, v, first)
    BY <1>4
  <2>2. PICK k \in 1 .. Len(g.fanin), w \in {"0", "1"} : flat[t] = InputFault(g, c, k, w, first)
    BY <1>4
  <2>3. flat[s].node = c.site[j][1] /\ flat[s].pos = c.site[j][2] /\ flat[s].val = v
    BY <1>6, <2>1
  <2>4. flat[t].node = c.site[k][1] /\ flat[t].pos = c.site[k][2] /\ flat[t].val = w
    BY <1>6, <2>2
  <2>5. j = k /\ v = w
    BY <1>5, <2>3, <2>4
  <2>6. flat[s] = flat[t]
    BY <2>1, <2>2, <2>5
  <2>7. flat[s] \in AnyFault
    <3> HIDE DEF AnyFault
    <3> QED BY <1>2
  <2> QED BY <1>8, <2>6, <2>7 DEF Once
<1> QED BY <1>2, <1>4, <1>9

\* What is known of a gate that has been made, and of the map with it.
GateMade(g, c, to) ==
  /\ GateDone(node, c) /\ node \in Seq(NodeRecs) /\ Top(c) \in DOMAIN c.node /\ Top(c) \notin DOMAIN node
  /\ Len(g.fanin) \in Nat /\ DOMAIN g.fanin = 1 .. Len(g.fanin)
  /\ SitesMade(node, c, Len(g.fanin)) /\ ForcedMade(node, c, g)
  /\ \A s \in DOMAIN to : to[s] \in DOMAIN node \/ to[s] = Top(c)

\* The fault a has one of the two output faults that follow the old ones as representative.
ForcedTo(c, to, old, a) ==
  \E w \in {"0", "1"} :
    /\ a.rep = IF w = "0" THEN old + 1 ELSE old + 2
    /\ \A b : b.node = Top(c) /\ b.val = w => Covers(c.node, to, a, b)

\* An input with a representative forces the output that the representative is at.
LEMMA InputFresh ==
  ASSUME NEW g, NEW c, NEW to, GateMade(g, c, to), NEW k \in 1 .. Len(g.fanin), NEW v \in {"0", "1"},
         NEW old, old \in Nat, NEW a, a = InputFault(g, c, k, v, old + 1), a.rep # 0
  PROVE  ForcedTo(c, to, old, a)
<1>1. a.node = c.site[k][1] /\ a.pos = c.site[k][2] /\ a.val = v /\ a.rep = ForcedRep(g, k, v, old + 1)
  BY DEF InputFault
<1> DEFINE w == CVal(g, k, v)
<1>2. w \in {"0", "1"} /\ a.rep = IF w = "0" THEN old + 1 ELSE old + 2
  <2>1. CASE w = "0"
    BY <1>1, <2>1 DEF ForcedRep
  <2>2. CASE w = "1"
    <3>1. ForcedRep(g, k, v, old + 1) = old + 1 + 1
      BY <2>2 DEF ForcedRep
    <3> HIDE DEF w
    <3> QED BY <1>1, <2>2, <3>1
  <2>3. CASE w # "0" /\ w # "1"
    BY <1>1, <2>3 DEF ForcedRep
  <2> QED BY <2>1, <2>2, <2>3
<1>3. k \in DOMAIN g.fanin
  BY DEF GateMade
<1> HIDE DEF w
<1>4. /\ \A m \in Len(node) + 1 .. Top(c) : c.node[m].type \in InnerTypes
      /\ Forces(c.node, Len(node) + 1, Top(c), c.site[k][1], c.site[k][2], v, w)
  BY <1>2, <1>3 DEF GateMade, ForcedMade, w
<1>5. Region(c.node, to, Len(node) + 1, Top(c))
  BY <1>4, GateRegion DEF GateMade
<1>6. /\ c.site[k][1] \in DOMAIN c.node /\ c.site[k][1] \notin DOMAIN node
      /\ c.site[k][2] \in DOMAIN c.node[c.site[k][1]].fanin
  BY DEF GateMade, SitesMade
<1>7. /\ Len(node) + 1 \in Nat \ {0} /\ Len(node) + 1 <= c.site[k][1] /\ c.site[k][1] <= Top(c)
  <2> DEFINE x == Len(node)
             y == Top(c)
             s == c.site[k][1]
  <2>1. x \in Nat /\ y \in Nat /\ DOMAIN node = 1 .. x /\ DOMAIN c.node = 1 .. y
    <3>1. c.node \in Seq(NodeRecs)
      BY DEF GateMade, GateDone, Sound, Builds
    <3> QED BY <3>1 DEF GateMade, Top
  <2>2. s \in 1 .. y /\ s \notin 1 .. x
    BY <1>6, <2>1
  <2> HIDE DEF x, y, s
  <2>3. x + 1 \in Nat \ {0} /\ x + 1 <= s /\ s <= y
    BY <2>1, <2>2
  <2> QED BY <2>3 DEF x, y, s
<1>8. ASSUME NEW b, b.node = Top(c), b.val = w PROVE Covers(c.node, to, a, b)
  <2> DEFINE lo == Len(node) + 1
  <2>1. /\ lo \in Nat \ {0} /\ lo <= a.node /\ a.node <= b.node /\ a.pos \in DOMAIN c.node[a.node].fanin
        /\ Region(c.node, to, lo, b.node)
        /\ Forces(c.node, lo, b.node, a.node, a.pos, a.val, b.val)
    BY Zenon, <1>1, <1>4, <1>5, <1>6, <1>7, <1>8
  <2> HIDE DEF lo
  <2> QED BY <2>1 DEF Covers
<1> QED BY Zenon, <1>2, <1>8 DEF ForcedTo

\* The faults of a gate: two of its output, then those of its inputs.
LEMMA GateFresh ==
  ASSUME NEW g, NEW c, NEW to, GateMade(g, c, to), Faulted(node, fault), NEW new, new = GateFaults(g, c)
  PROVE  Fresh(node, c.node, to, fault, new) /\ new \in Seq(AnyFault)
<1> DEFINE n == Top(c)
           old == Len(fault)
           ni == Len(g.fanin)
           outs == OutputFaults(n)
           ins == InputFaultsOf(g, c, old + 1)
           flat == FlattenSeq(ins)
<1>1. GateDone(node, c) /\ SitesMade(node, c, ni) /\ ni \in Nat /\ n \in DOMAIN c.node /\ n \notin DOMAIN node
  BY DEF GateMade
<1>2. old \in Nat /\ old + 1 \in Nat
  BY DEF Faulted
<1>3. new = outs \o flat
  BY Zenon DEF GateFaults, InputFaultsOf
<1>4. /\ flat \in Seq(AnyFault) /\ SitesOnce(flat)
      /\ \A t \in DOMAIN flat : \E k \in 1 .. ni, v \in {"0", "1"} : flat[t] = InputFault(g, c, k, v, old + 1)
  BY <1>1, <1>2, InputFaultsOnce
<1>5. n \in Nat
  BY <1>1 DEF GateDone, Sound, Builds, Top
<1> HIDE DEF ins, flat
<1>6. /\ outs \in Seq(AnyFault) /\ Len(outs) = 2 /\ DOMAIN outs = {1, 2}
      /\ outs[1].node = n /\ outs[1].pos = 0 /\ outs[1].val = "0" /\ outs[1].rep = 0
      /\ outs[2].node = n /\ outs[2].pos = 0 /\ outs[2].val = "1" /\ outs[2].rep = 0
  BY <1>5 DEF OutputFaults, AnyFault
<1> HIDE DEF outs, n, old, ni
<1>7. /\ new \in Seq(AnyFault)
      /\ \A t \in DOMAIN new : t \in {1, 2} \/ \E s \in DOMAIN flat : t = s + 2
      /\ \A t \in {1, 2} : t \in DOMAIN new /\ new[t] = outs[t]
      /\ \A s \in DOMAIN flat : s + 2 \in DOMAIN new /\ new[s + 2] = flat[s]
  <2> HIDE DEF AnyFault
  <2> DEFINE l == Len(flat)
  <2>1. /\ new \in Seq(AnyFault) /\ l \in Nat /\ DOMAIN new = 1 .. 2 + l /\ DOMAIN flat = 1 .. l
        /\ \A t \in DOMAIN outs : new[t] = outs[t]
        /\ \A s \in DOMAIN flat : new[2 + s] = flat[s]
    <3>0. outs \in Seq(AnyFault) /\ flat \in Seq(AnyFault)
      BY <1>4, <1>6
    <3>1. \A k \in DOMAIN outs : (outs \o flat)[k] = outs[k]
      BY <3>0, ConcatFacts
    <3>2. \A k \in DOMAIN flat : (outs \o flat)[Len(outs) + k] = flat[k]
      BY <3>0, ConcatFacts
    <3>3. /\ outs \o flat \in Seq(AnyFault) /\ l \in Nat
          /\ DOMAIN (outs \o flat) = 1 .. Len(outs) + l /\ DOMAIN flat = 1 .. l
      BY <3>0, ConcatFacts
    <3> QED BY <1>3, <1>6, <3>1, <3>2, <3>3
  <2> HIDE DEF l
  <2>2. \A t \in 1 .. 2 + l : t \in {1, 2} \/ \E s \in 1 .. l : t = s + 2
    <3> TAKE t \in 1 .. 2 + l
    <3>1. CASE t <= 2
      BY <2>1, <3>1
    <3>2. CASE t > 2
      <4>1. t - 2 \in 1 .. l /\ t = (t - 2) + 2
        BY <2>1, <3>2
      <4> QED BY <4>1
    <3> QED BY <2>1, <3>1, <3>2
  <2>3. \A s \in 1 .. l : s + 2 \in 1 .. 2 + l /\ s + 2 = 2 + s
    BY <2>1
  <2>4. 1 \in 1 .. 2 + l /\ 2 \in 1 .. 2 + l
    BY <2>1
  <2>5. \A t \in DOMAIN new : t \in {1, 2} \/ \E s \in DOMAIN flat : t = s + 2
    BY <2>1, <2>2
  <2>6. \A t \in {1, 2} : t \in DOMAIN new /\ new[t] = outs[t]
    BY <1>6, <2>1, <2>4
  <2>7. \A s \in DOMAIN flat : s + 2 \in DOMAIN new /\ new[s + 2] = flat[s]
    BY <2>1, <2>3
  <2> QED BY <2>1, <2>5, <2>6, <2>7
<1>8. \A s \in DOMAIN flat : flat[s].node \in DOMAIN c.node /\ flat[s].node \notin DOMAIN node
                             /\ flat[s].pos \in DOMAIN c.node[flat[s].node].fanin /\ flat[s].pos # 0
  <2> TAKE s \in DOMAIN flat
  <2>1. PICK k \in 1 .. ni, v \in {"0", "1"} : flat[s] = InputFault(g, c, k, v, old + 1)
    BY <1>4
  <2>2. flat[s].node = c.site[k][1] /\ flat[s].pos = c.site[k][2]
    BY <2>1 DEF InputFault
  <2>3. /\ c.site[k][1] \in DOMAIN c.node /\ c.site[k][1] \notin DOMAIN node
        /\ c.site[k][2] \in DOMAIN c.node[c.site[k][1]].fanin
    BY <1>1 DEF SitesMade
  <2>4. \A m \in DOMAIN c.node : 0 \notin DOMAIN c.node[m].fanin
    <3>1. c.node \in Seq(NodeRecs)
      BY <1>1 DEF GateDone, Sound, Builds
    <3>2. \A m \in DOMAIN c.node : c.node[m] \in NodeRecs
      BY <3>1
    <3>3. \A m \in DOMAIN c.node : c.node[m].fanin \in Seq(Nat)
      BY <3>2 DEF NodeRecs
    <3> QED BY <3>3
  <2> QED BY <2>2, <2>3, <2>4
<1>9. SitesOnce(new)
  <2> SUFFICES ASSUME NEW s \in DOMAIN new, NEW t \in DOMAIN new, new[s].node = new[t].node,
                      new[s].pos = new[t].pos, new[s].val = new[t].val
               PROVE  s = t
    BY DEF SitesOnce
  <2>1. \A x \in DOMAIN new : x \in {1, 2} <=> new[x].pos = 0
    BY <1>6, <1>7, <1>8
  <2>2. CASE s \in {1, 2}
    BY <1>6, <1>7, <2>1, <2>2
  <2>3. CASE s \notin {1, 2}
    <3>1. t \notin {1, 2}
      BY <2>1, <2>3
    <3>2. PICK x \in DOMAIN flat : s = x + 2
      BY <1>7, <2>3
    <3>3. PICK y \in DOMAIN flat : t = y + 2
      BY <1>7, <3>1
    <3>4. new[s] = flat[x] /\ new[t] = flat[y]
      BY <1>7, <3>2, <3>3
    <3>5. x = y
      BY <1>4, <3>4 DEF SitesOnce
    <3> QED BY <3>2, <3>3, <3>5
  <2> QED BY <2>2, <2>3
<1>10. ASSUME NEW t \in DOMAIN new PROVE FreshAt(node, c.node, to, fault, new, t)
  <2>1. CASE t \in {1, 2}
    <3>1. new[t].node = n /\ new[t].pos = 0 /\ new[t].rep = 0
      BY <1>6, <1>7, <2>1
    <3> QED BY <1>1, <3>1 DEF FreshAt, PinExists, n
  <2>2. CASE t \notin {1, 2}
    <3>1. PICK s \in DOMAIN flat : t = s + 2
      BY <1>7, <2>2
    <3>2. new[t] = flat[s]
      BY <1>7, <3>1
    <3>3. PICK k \in 1 .. ni, v \in {"0", "1"} : flat[s] = InputFault(g, c, k, v, old + 1)
      BY <1>4
    <3>4. ASSUME new[t].rep # 0
          PROVE  \E u \in DOMAIN new : new[t].rep = old + u /\ new[u].pos = 0 /\ Covers(c.node, to, new[t], new[u])
      <4> DEFINE a == flat[s]
      <4>1. a = InputFault(g, c, k, v, old + 1) /\ a.rep # 0
        BY <3>2, <3>3, <3>4
      <4> HIDE DEF a
      <4>2. PICK w \in {"0", "1"} : /\ a.rep = IF w = "0" THEN old + 1 ELSE old + 2
                                    /\ \A b : b.node = Top(c) /\ b.val = w => Covers(c.node, to, a, b)
        <5>1. k \in 1 .. Len(g.fanin)
          BY DEF ni
        <5>2. PICK x : x = old
          OBVIOUS
        <5>3. x \in Nat /\ a = InputFault(g, c, k, v, x + 1)
          BY Zenon, <1>2, <4>1, <5>2
        <5>4. ForcedTo(c, to, x, a)
          BY <4>1, <5>1, <5>3, InputFresh
        <5> QED BY Zenon, <5>2, <5>4 DEF ForcedTo
      <4>3. CASE w = "0"
        <5>1. new[1].node = Top(c) /\ new[1].val = w /\ new[1].pos = 0 /\ 1 \in DOMAIN new
          BY <1>6, <1>7, <4>3 DEF n
        <5>2. Covers(c.node, to, a, new[1]) /\ a.rep = old + 1
          BY <4>2, <4>3, <5>1
        <5> QED BY <3>2, <5>1, <5>2 DEF a
      <4>4. CASE w = "1"
        <5>1. new[2].node = Top(c) /\ new[2].val = w /\ new[2].pos = 0 /\ 2 \in DOMAIN new
          BY <1>6, <1>7, <4>4 DEF n
        <5>2. Covers(c.node, to, a, new[2]) /\ a.rep = old + 2
          BY <4>2, <4>4, <5>1
        <5> QED BY <3>2, <5>1, <5>2 DEF a
      <4> QED BY <4>3, <4>4
    <3>5. /\ new[t].node \in DOMAIN c.node /\ new[t].node \notin DOMAIN node
          /\ new[t].pos \in DOMAIN c.node[new[t].node].fanin /\ new[t].pos # 0
      BY <1>8, <3>2
    <3> QED BY <3>4, <3>5 DEF FreshAt, PinExists, old
  <2> QED BY <2>1, <2>2
<1> QED BY <1>7, <1>9, <1>10 DEF Fresh

-----------------------------------------------------------------------------
(* The steps that make nodes keep the faults traced.                       *)

LEMMA FaultsTyped ==
  ASSUME Building
  PROVE  fault \in Seq(AnyFault) /\ Faulted(node, fault) /\ node \in Seq(NodeRecs) /\ nodeMap \in Seq(Nat)
<1>1. Faulted(node, fault) /\ node \in Seq(NodeRecs) /\ nodeMap \in Seq(Nat)
  BY DEF Building, Wired, Maps
<1>2. Len(node) \in Nat /\ Len(fault) \in Nat
  BY <1>1 DEF Faulted
<1>3. fault \in Seq(FaultRecs(Len(node), Len(fault)))
  BY <1>1 DEF Faulted
<1> QED BY <1>1, <1>2, <1>3, AnyFaults

LEMMA MapWithTop ==
  ASSUME NEW old, NEW map \in Seq(Nat), \A s \in DOMAIN map : map[s] \in DOMAIN old,
         NEW x \in Nat, x \notin DOMAIN old, NEW to, to = Append(map, x)
  PROVE  MapsOn(old, map, to) /\ \A s \in DOMAIN to : to[s] \in DOMAIN old \/ to[s] = x
<1>1. \A s \in DOMAIN to : to[s] = x \/ (s \in DOMAIN map /\ to[s] = map[s])
  OBVIOUS
<1> QED BY <1>1 DEF MapsOn

\* The same map.
LEMMA MapAsIs ==
  ASSUME NEW old, NEW map
  PROVE  MapsOn(old, map, map)
BY DEF MapsOn

LEMMA PpiFills ==
  ASSUME Building, NEW type \in {"Input", "DffOutput"}, MakePpi(type)
  PROVE  \E c, num : /\ Filling(node, c, nodeMap, << >>, num) /\ c.node = node'
                     /\ Top(c) = Len(node) + 1 /\ nodeMap' = Append(nodeMap, Len(node) + 1)
<1> DEFINE num == FanoutNum(source, Len(nodeMap) + 1)
           c == Prim(Start, type, << >>, num)
<1>1. ProperSource(source) /\ num \in Nat
  BY AnyMade, FanoutNumType
<1>2. Maps(nodeMap, Made, node) /\ nodeMap \in Seq(Nat) /\ Wired(node, conn)
  BY DEF Building, Maps
<1>3. Fits(node, type, << >>, num)
  <2>1. << >> \in Seq(Nat) /\ DOMAIN << >> = {}
    OBVIOUS
  <2>2. type \in C!NodeTypes /\ type \in C!NoFanin /\ type \notin C!OneFanin
    BY DEF C!NodeTypes, C!GateTypes, C!NoFanin, C!PpiTypes, C!OneFanin, C!PpoTypes, C!ControlTypes
  <2> QED BY <1>1, <2>1, <2>2 DEF Fits, Fed, Arity
<1>4. c = Prim(Start, type, << >>, num)
  OBVIOUS
<1>5. node' = Append(node, NewNode(type, << >>, num)) /\ nodeMap' = Append(nodeMap, Len(node) + 1)
  BY DEF MakePpi, NewNode
<1> HIDE DEF c, num
<1>6. /\ Sound(c) /\ Grown(node, c.node) /\ c.node = Append(node, NewNode(type, << >>, num))
      /\ GateFed(node, c, << >>, num, 0) /\ Top(c) = Len(node) + 1
  BY <1>3, <1>4, OneMade
<1>7. DOMAIN << >> = {} /\ Carried(<< >>, nodeMap) = << >>
  BY DEF Carried
<1>8. Filling(node, c, nodeMap, << >>, num)
  <2>1. \A k \in DOMAIN << >> : << >>[k] \in DOMAIN nodeMap
    OBVIOUS
  <2> QED BY <1>2, <1>6, <1>7, <2>1 DEF Filling
<1> QED BY Zenon, <1>5, <1>6, <1>8

LEMMA PpiTraced ==
  ASSUME Building, NEW type \in {"Input", "DffOutput"}, MakePpi(type), Traced(node, nodeMap, fault)
  PROVE  Traced(node', nodeMap', fault')
<1>1. PICK c, num : /\ Filling(node, c, nodeMap, << >>, num) /\ c.node = node'
                    /\ Top(c) = Len(node) + 1 /\ nodeMap' = Append(nodeMap, Len(node) + 1)
  BY PpiFills
<1>2. /\ fault \in Seq(AnyFault) /\ Faulted(node, fault) /\ node \in Seq(NodeRecs) /\ nodeMap \in Seq(Nat)
      /\ \A s \in DOMAIN nodeMap : nodeMap[s] \in DOMAIN node
  BY FaultsTyped DEF Building, Maps, Drives
<1> DEFINE n == Len(node) + 1
           new == OutputFaults(n)
           to == Append(nodeMap, n)
<1>3. n \in Nat /\ n \notin DOMAIN node
  BY <1>2
<1>4. n \in DOMAIN c.node
  BY <1>1, Zenon DEF Filling, GateFed
<1>5. fault' = fault \o new
  BY DEF MakePpi
<1>6. new = << [node |-> n, pos |-> 0, val |-> "0", rep |-> 0], [node |-> n, pos |-> 0, val |-> "1", rep |-> 0] >>
  BY DEF OutputFaults
<1> HIDE DEF n
<1>7. new \in Seq(AnyFault)
  BY <1>3, <1>6 DEF AnyFault
<1>8. to = Append(nodeMap, n)
  OBVIOUS
<1>9. PICK u : u = new
  OBVIOUS
<1>10. PICK t : t = to
  OBVIOUS
<1> HIDE DEF new, to
<1>11. Fresh(node, c.node, t, fault, u)
  BY <1>3, <1>4, <1>6, <1>9, PairFresh
<1>12. MapsOn(node, nodeMap, t)
  BY <1>2, <1>3, <1>8, <1>10, MapWithTop
<1>13. Traced(c.node, t, fault \o u)
  BY <1>1, <1>2, <1>7, <1>9, <1>11, <1>12, TracedMore
<1>14. fault' = fault \o u /\ nodeMap' = t /\ node' = c.node
  BY Zenon, <1>1, <1>5, <1>8, <1>9, <1>10 DEF n
<1> QED BY Zenon, <1>13, <1>14

LEMMA TerminalFills ==
  ASSUME Building, MakeTerminalNode
  PROVE  \E c, s : /\ Filling(node, c, nodeMap, <<s>>, 0) /\ c.node = node' /\ Top(c) = Len(node) + 1
                   /\ DOMAIN c.node[Top(c)].fanin = {1}
<1> DEFINE t == Terminals(source)[i]
           s == t[2]
           fanin == <<nodeMap[s]>>
           c == Prim(Start, t[1], fanin, 0)
<1>1. ProperSource(source) /\ All(source) \in Nat
  BY AnyMade, SourceFacts
<1>2. Wired(node, conn) /\ node \in Seq(NodeRecs) /\ Maps(nodeMap, Made, node) /\ Made = All(source)
  BY DEF Building, Wired, Made, MakeTerminalNode
<1>3. /\ node' = Append(node, NewNode(t[1], fanin, 0)) /\ nodeMap' = nodeMap
      /\ i \in DOMAIN Terminals(source)
  BY Zenon DEF MakeTerminalNode, NewNode
<1>5. t[1] \in TerminalTypes /\ t[2] \in 1 .. All(source)
  <2>1. Terminals(source) \in Seq(TerminalTypes \X (1 .. All(source)))
    BY <1>1, TerminalsType
  <2>2. t \in TerminalTypes \X (1 .. All(source))
    BY <1>3, <2>1
  <2> HIDE DEF t
  <2> QED BY <2>2
<1>8. c = Prim(Start, t[1], fanin, 0)
  OBVIOUS
<1> HIDE DEF c, t
<1>9. nodeMap[s] \in Nat /\ Drives(node, nodeMap[s]) /\ s \in DOMAIN nodeMap
  <2>1. DOMAIN nodeMap = 1 .. All(source) /\ \A r \in DOMAIN nodeMap : nodeMap[r] \in Nat
    BY <1>1, <1>2 DEF Maps
  <2> QED BY <1>2, <1>5, <2>1 DEF Maps
<1>10. fanin = Carried(<<s>>, nodeMap) /\ DOMAIN <<s>> = {1} /\ <<s>>[1] = s /\ DOMAIN fanin = {1}
  <2>1. DOMAIN <<s>> = {1} /\ <<s>>[1] = s
    OBVIOUS
  <2> QED BY <2>1 DEF Carried
<1>11. Fits(node, t[1], fanin, 0)
  <2>1. fanin \in Seq(Nat) /\ DOMAIN fanin = {1} /\ fanin[1] = nodeMap[s] /\ fanin # << >> /\ Len(fanin) = 1
    BY <1>9
  <2>2. t[1] \in C!NodeTypes /\ t[1] \notin C!NoFanin
    BY <1>5 DEF TerminalTypes, C!NodeTypes, C!GateTypes, C!PpoTypes, C!ControlTypes, C!NoFanin, C!PpiTypes
  <2> HIDE DEF fanin
  <2> QED BY <1>9, <2>1, <2>2 DEF Fits, Fed, Arity
<1> HIDE DEF fanin
<1>12. /\ Sound(c) /\ Grown(node, c.node) /\ c.node = Append(node, NewNode(t[1], fanin, 0))
       /\ GateFed(node, c, fanin, 0, 0) /\ Top(c) = Len(node) + 1
  BY SMTT(40), <1>8, <1>11, OneMade
<1> HIDE DEF s
<1>13. Filling(node, c, nodeMap, <<s>>, 0)
  <2>1. \A k \in DOMAIN <<s>> : <<s>>[k] \in DOMAIN nodeMap
    BY <1>9, <1>10
  <2> DEFINE f == <<s>>
  <2>2. GateFed(node, c, Carried(f, nodeMap), 0, 0)
    BY <1>10, <1>12
  <2> HIDE DEF f
  <2>3. \A k \in DOMAIN f : f[k] \in DOMAIN nodeMap
    BY <2>1 DEF f
  <2>4. Filling(node, c, nodeMap, f, 0)
    BY <1>2, <1>12, <2>2, <2>3 DEF Filling
  <2> QED BY <2>4 DEF f
<1>14. c.node[Top(c)] = NewNode(t[1], fanin, 0)
  BY <1>2, <1>12
<1>15. DOMAIN c.node[Top(c)].fanin = {1}
  <2>1. c.node[Top(c)].fanin = fanin
    BY <1>14 DEF NewNode
  <2> QED BY <1>10, <2>1
<1> QED BY Zenon, <1>3, <1>12, <1>13, <1>15

LEMMA TerminalTraced ==
  ASSUME Building, MakeTerminalNode, Traced(node, nodeMap, fault)
  PROVE  Traced(node', nodeMap', fault')
<1>1. PICK c, s : /\ Filling(node, c, nodeMap, <<s>>, 0) /\ c.node = node' /\ Top(c) = Len(node) + 1
                  /\ DOMAIN c.node[Top(c)].fanin = {1}
  BY TerminalFills
<1>2. /\ fault \in Seq(AnyFault) /\ Faulted(node, fault) /\ node \in Seq(NodeRecs)
  BY FaultsTyped
<1> DEFINE n == Len(node) + 1
           new == << [node |-> n, pos |-> 1, val |-> "0", rep |-> 0],
                     [node |-> n, pos |-> 1, val |-> "1", rep |-> 0] >>
<1>3. n \in Nat /\ n \notin DOMAIN node
  BY <1>2
<1>4. n \in DOMAIN c.node /\ 1 \in DOMAIN c.node[n].fanin
  <2>1. Top(c) \in DOMAIN c.node
    BY <1>1, Zenon DEF Filling, GateFed
  <2> QED BY <1>1, <2>1
<1>5. fault' = fault \o new /\ nodeMap' = nodeMap
  BY Zenon DEF MakeTerminalNode
<1> HIDE DEF n
<1>6. new \in Seq(AnyFault)
  BY <1>3 DEF AnyFault
<1>7. PICK u : u = << [node |-> n, pos |-> 1, val |-> "0", rep |-> 0],
                      [node |-> n, pos |-> 1, val |-> "1", rep |-> 0] >>
  OBVIOUS
<1>8. u = new
  BY <1>7
<1>9. Fresh(node, c.node, nodeMap, fault, u)
  BY <1>3, <1>4, <1>7, PairFresh
<1> HIDE DEF new
<1>10. Traced(c.node, nodeMap, fault \o u)
  BY <1>1, <1>2, <1>6, <1>8, <1>9, MapAsIs, TracedMore
<1> QED BY Zenon, <1>1, <1>5, <1>8, <1>10

\* No wide XNOR: make_logic_node() gives the inputs of one positions that its nodes do not
\* have, from the third on.
NarrowXnor(src) == \A k \in DOMAIN src.logic : src.logic[k].type = "Xnor" => Len(src.logic[k].fanin) <= 2

LEMMA LogicFills ==
  ASSUME Building, MakeLogicNode, NarrowXnor(source)
  PROVE  \E g, c, num : /\ Filling(node, c, nodeMap, g.fanin, num) /\ c.node = node'
                        /\ nodeMap' = Append(nodeMap, Top(c)) /\ fault' = fault \o GateFaults(g, c)
                        /\ Top(c) \in Nat /\ GateMade(g, c, nodeMap')
<1> DEFINE g == source.logic[i]
           num == FanoutNum(source, Len(nodeMap) + 1)
           c == GateBuild(g, FaninNodes(g, nodeMap), num)
           first == source.inputs + Len(source.dff) + i
           l == Len(nodeMap)
<1>1. ProperSource(source) /\ num \in Nat /\ i \in Nat /\ i # 0
  BY AnyMade, FanoutNumType
<1>2. Maps(nodeMap, Made, node) /\ nodeMap \in Seq(Nat) /\ Wired(node, conn) /\ node \in Seq(NodeRecs) /\ l = Made
  BY SMTT(40) DEF Building, Maps, Wired
<1>3. pc = "logic" /\ i \in 1 .. Len(source.logic) /\ i \in DOMAIN source.logic
  BY <1>1, SourceFacts DEF MakeLogicNode
<1>4. ProperGate(g, first) /\ first \in Nat \ {0} /\ Made = first - 1
  <2>1. Made = source.inputs + Len(source.dff) + (i - 1)
    BY <1>3 DEF Made
  <2>2. source.inputs \in Nat /\ Len(source.dff) \in Nat /\ ProperGate(g, first)
    BY <1>1, <1>3, SourceFacts
  <2> QED BY SMTT(40), <1>1, <2>1, <2>2
<1>5. node' = c.node /\ nodeMap' = Append(nodeMap, Top(c)) /\ fault' = fault \o GateFaults(g, c)
  BY Zenon DEF MakeLogicNode, FaninNodes
<1>6. g.type = "Xnor" => Len(g.fanin) <= 2
  BY <1>3 DEF NarrowXnor
<1> HIDE DEF g, num, first, c, l
<1>7. GateDone(node, c) /\ GateFed(node, c, Carried(g.fanin, nodeMap), num, ExtraNodes(g))
  <2>1. GateDone(node, GateBuild(g, FaninNodes(g, nodeMap), num))
    BY <1>1, <1>2, <1>4, GateBuildFacts
  <2>2. GateFed(node, GateBuild(g, FaninNodes(g, nodeMap), num), FaninNodes(g, nodeMap), num, ExtraNodes(g))
    BY <1>1, <1>2, <1>4, GateBuildFed
  <2>3. FaninNodes(g, nodeMap) = Carried(g.fanin, nodeMap)
    BY DEF FaninNodes, Carried
  <2> QED BY <2>1, <2>2, <2>3 DEF c
<1>8. l = first - 1 /\ DOMAIN nodeMap = 1 .. first - 1
  <2>1. l = first - 1 /\ DOMAIN nodeMap = 1 .. l
    BY <1>2, <1>4 DEF l
  <2> QED BY <1>4, <2>1
<1>9. g.fanin \in Seq(1 .. first - 1) /\ Len(g.fanin) \in Nat /\ DOMAIN g.fanin = 1 .. Len(g.fanin)
  <2>1. g.fanin \in Seq(1 .. first - 1)
    BY <1>4 DEF ProperGate
  <2> QED BY <2>1
<1>10. Filling(node, c, nodeMap, g.fanin, num)
  <2>1. \A k \in DOMAIN g.fanin : g.fanin[k] \in DOMAIN nodeMap
    BY <1>8, <1>9
  <2> QED BY <1>2, <1>7, <2>1 DEF Filling, GateDone
<1>11. SitesMade(node, c, Len(g.fanin)) /\ ForcedMade(node, c, g)
  <2>1. PICK d : d = c
    OBVIOUS
  <2>2. d = GateBuild(g, FaninNodes(g, nodeMap), num)
    BY <2>1 DEF c
  <2>3. SitesMade(node, d, Len(g.fanin)) /\ ForcedMade(node, d, g)
    BY <1>1, <1>2, <1>4, <1>6, <2>2, GateBuildSites
  <2> QED BY <2>1, <2>3
<1>12. Top(c) \in DOMAIN c.node /\ Top(c) \notin DOMAIN node /\ Top(c) \in Nat
  <2>1. Top(c) \in DOMAIN c.node /\ Top(c) \notin DOMAIN node
    BY <1>7 DEF GateFed
  <2>2. c.node \in Seq(NodeRecs)
    BY <1>7 DEF GateDone, Sound, Builds
  <2> QED BY <2>1, <2>2
<1>13. \A s \in DOMAIN nodeMap' : nodeMap'[s] \in DOMAIN node \/ nodeMap'[s] = Top(c)
  <2>1. \A s \in DOMAIN nodeMap : nodeMap[s] \in DOMAIN node
    BY <1>2 DEF Maps, Drives
  <2>2. PICK x : x = Top(c)
    OBVIOUS
  <2>3. PICK to : to = nodeMap'
    OBVIOUS
  <2>4. \A s \in DOMAIN to : to[s] \in DOMAIN node \/ to[s] = x
    BY <1>2, <1>5, <1>12, <2>1, <2>2, <2>3, MapWithTop
  <2> QED BY <2>2, <2>3, <2>4
<1>14. GateMade(g, c, nodeMap')
  BY <1>2, <1>7, <1>9, <1>11, <1>12, <1>13 DEF GateMade
<1> QED BY Zenon, <1>5, <1>10, <1>12, <1>14

LEMMA LogicTraced ==
  ASSUME Building, MakeLogicNode, NarrowXnor(source), Traced(node, nodeMap, fault)
  PROVE  Traced(node', nodeMap', fault')
<1>1. PICK g, c, num : /\ Filling(node, c, nodeMap, g.fanin, num) /\ c.node = node'
                       /\ nodeMap' = Append(nodeMap, Top(c)) /\ fault' = fault \o GateFaults(g, c)
                       /\ Top(c) \in Nat /\ GateMade(g, c, nodeMap')
  BY LogicFills
<1>2. /\ fault \in Seq(AnyFault) /\ Faulted(node, fault) /\ nodeMap \in Seq(Nat)
      /\ \A s \in DOMAIN nodeMap : nodeMap[s] \in DOMAIN node
  BY FaultsTyped DEF Building, Maps, Drives
<1>3. PICK u : u = GateFaults(g, c)
  OBVIOUS
<1>4. PICK t : t = nodeMap'
  OBVIOUS
<1>5. GateMade(g, c, t)
  BY <1>1, <1>4
<1>6. Fresh(node, c.node, t, fault, u) /\ u \in Seq(AnyFault)
  BY <1>2, <1>3, <1>5, GateFresh
<1>7. MapsOn(node, nodeMap, t)
  <2>1. PICK x : x = Top(c)
    OBVIOUS
  <2>2. x \in Nat /\ x \notin DOMAIN node
    BY <1>5, <2>1, <1>1 DEF GateMade
  <2>3. t = Append(nodeMap, x)
    BY Zenon, <1>1, <1>4, <2>1
  <2> QED BY <1>2, <2>2, <2>3, MapWithTop
<1>8. Traced(c.node, t, fault \o u)
  BY <1>1, <1>2, <1>6, <1>7, TracedMore
<1> QED BY Zenon, <1>1, <1>3, <1>4, <1>8

LEMMA MakingTraces ==
  ASSUME Building, Making, NarrowXnor(source), Traced(node, nodeMap, fault)
  PROVE  Traced(node', nodeMap', fault')
<1>1. CASE MakeInputNode
  BY <1>1, PpiTraced DEF MakeInputNode
<1>2. CASE MakeDffOutputNode
  BY <1>2, PpiTraced DEF MakeDffOutputNode
<1>3. CASE MakeLogicNode
  BY <1>3, LogicTraced
<1>4. CASE MakeTerminalNode
  BY <1>4, TerminalTraced
<1> QED BY <1>1, <1>2, <1>3, <1>4, Zenon DEF Making

-----------------------------------------------------------------------------
(* The representatives, step by step.                                      *)

Represented == NarrowXnor(source) => Ready
LEMMA RepsAtFirst ==
  ASSUME Init
  PROVE  Ready
<1>1. DOMAIN fault = {}
  BY DEF Init
<1> QED BY <1>1 DEF Ready, SitesOnce

LEMMA RepsOfMade ==
  ASSUME Building, Building', Making, NarrowXnor(source), Ready
  PROVE  Ready'
<1>1. pc \in Open /\ pc' = pc
  BY Zenon DEF Making, MakeInputNode, MakeDffOutputNode, MakeLogicNode, MakeTerminalNode, MakePpi, Open
<1>2. Faulted(node, fault) /\ Faulted(node', fault')
  BY DEF Building
<1>3. Todo = Len(node) /\ Todo' = Len(node')
  BY <1>1 DEF Todo
<1>4. \A f \in DOMAIN fault : fault[f].node <= Todo
  BY <1>2, <1>3, NodesOfFaults
<1>5. Traced(node, nodeMap, fault)
  BY <1>4 DEF Ready, Traced
<1>6. Traced(node', nodeMap', fault')
  BY <1>5, MakingTraces
<1>7. \A f \in DOMAIN fault' : ~ (fault'[f].node > Todo')
  <2>1. fault' \in Seq(FaultRecs(Len(node'), Len(fault')))
    BY <1>2 DEF Faulted
  <2>2. \A f \in DOMAIN fault' : fault'[f] \in FaultRecs(Len(node'), Len(fault'))
    <3> DEFINE A == FaultRecs(Len(node'), Len(fault'))
               s == fault'
    <3>1. s \in Seq(A)
      BY <2>1
    <3> HIDE DEF A, s
    <3>2. \A f \in DOMAIN s : s[f] \in A
      BY <3>1
    <3> QED BY <3>2 DEF A, s
  <2>3. \A f \in DOMAIN fault' : fault'[f].node \in 1 .. Len(node')
    BY <2>2 DEF FaultRecs
  <2> QED BY <1>3, <2>3
<1>8. \A f \in DOMAIN fault' : Original(node', nodeMap', fault', f) /\ PinExists(node', fault'[f])
  BY <1>6 DEF Traced, Original
<1>9. SitesOnce(fault')
  BY <1>6 DEF Traced
<1> QED BY <1>7, <1>8, <1>9 DEF Ready

\* A step that leaves the faults, and moves none across the line of what is done.
LEMMA RepsStay ==
  ASSUME Ready, node' = node, nodeMap' = nodeMap, fault' = fault,
         \A f \in DOMAIN fault : fault[f].node <= Todo' => fault[f].node <= Todo,
         \A f \in DOMAIN fault : fault[f].node > Todo' => fault[f].node > Todo /\ fanout' = fanout /\ repList' = repList
  PROVE  Ready'
<1>1. SitesOnce(fault') /\ \A f \in DOMAIN fault' : PinExists(node', fault'[f])
  BY DEF Ready
<1>2. \A f \in DOMAIN fault' : fault'[f].node <= Todo' => Original(node', nodeMap', fault', f)
  BY DEF Ready
<1>3. ASSUME NEW f \in DOMAIN fault', fault'[f].node \in C!DataNodes', fault'[f].node > Todo'
      PROVE  RepresentedIn(fault, repList, f)'
  <2>1. fanout' = fanout /\ repList' = repList /\ fault[f].node > Todo
    BY <1>3
  <2>2. C!DataNodes' = C!DataNodes
    BY DEF C!DataNodes, C!Tfi, C!PPOs, C!FaninSet
  <2>3. RepresentedIn(fault, repList, f)
    BY <1>3, <2>1, <2>2 DEF Ready
  <2> QED BY <2>1, <2>3, SameReps
<1> QED BY <1>1, <1>2, <1>3 DEF Ready

LEMMA RepsOfLoop ==
  ASSUME Building, NextLoop, Ready
  PROVE  Ready'
<1>1. /\ pc # "done" /\ i > Length /\ pc' = Following[pc] /\ i' = 1 /\ node' = node /\ nodeMap' = nodeMap /\ fault' = fault
      /\ fanout' = fanout /\ repList' = repList
  BY DEF NextLoop, built, analysed
<1>2. pc \in DOMAIN Following /\ Faulted(node, fault) /\ i \in Nat
  BY <1>1 DEF Building
<1>3. /\ Len(node) \in Nat
      /\ \A f \in DOMAIN fault : fault[f].node \in 1 .. Len(node)
  BY <1>2, NodesOfFaults
<1>4. CASE pc \in Open
  <2>1. Todo = Len(node)
    BY <1>4 DEF Todo
  <2>2. Todo' = Len(node)
    <3>1. pc' \in Open \/ pc' = "faults"
      BY <1>1, <1>4 DEF Open, Following
    <3>2. pc' = "faults" => FromLast' = Len(node)
      BY <1>1, <1>3 DEF FromLast
    <3> QED BY <1>1, <3>1, <3>2 DEF Todo, Open
  <2> QED BY <1>1, <1>3, <2>1, <2>2, RepsStay
<1>5. CASE pc = "faults"
  <2>1. Todo = Len(node) + 1 - i /\ i > Len(node)
    BY <1>1, <1>5 DEF Todo, Open, FromLast, Length
  <2>2. Todo' = 0
    <3>1. pc' = "sort"
      BY <1>1, <1>5 DEF Following
    <3> QED BY <3>1 DEF Todo, Open
  <2>3. \A f \in DOMAIN fault : fault[f].node > Todo /\ ~ (fault[f].node <= Todo')
    BY <1>2, <1>3, <2>1, <2>2
  <2> QED BY <1>1, <2>3, RepsStay
<1>6. CASE pc \notin Open /\ pc # "faults"
  <2>1. pc' \notin Open /\ pc' # "faults"
    BY <1>1, <1>2, <1>6 DEF Following, Open
  <2>2. Todo = 0 /\ Todo' = 0
    BY <1>6, <2>1 DEF Todo
  <2> QED BY <1>1, <2>2, RepsStay
<1> QED BY <1>4, <1>5, <1>6

LEMMA RepsOfAnalysis ==
  ASSUME Building, Analysing \/ UNCHANGED networkVars, Ready
  PROVE  Ready'
<1>1. node' = node /\ nodeMap' = nodeMap /\ fault' = fault /\ pc' = pc
  BY DEF Analysing, SetFanouts, SortOutputs, SetImmDom, BeginFfr, VisitFfr, BeginMffc, VisitMffc, networkVars, built
<1>2. CASE SetFanouts
  <2>1. pc \in Open
    BY <1>2 DEF SetFanouts, Open
  <2>2. Todo = Len(node) /\ Todo' = Len(node)
    BY <1>1, <2>1 DEF Todo
  <2>3. Faulted(node, fault)
    BY DEF Building
  <2>4. \A f \in DOMAIN fault : ~ (fault[f].node > Todo')
    BY <2>2, <2>3, NodesOfFaults
  <2> QED BY <1>1, <2>2, <2>4, RepsStay
<1>3. CASE SortOutputs \/ SetImmDom \/ BeginFfr \/ VisitFfr \/ BeginMffc \/ VisitMffc
  <2>1. fanout' = fanout /\ repList' = repList /\ pc \in {"sort", "doms", "ffrs", "mffcs"}
    BY <1>3, Zenon DEF SortOutputs, SetImmDom, BeginFfr, VisitFfr, BeginMffc, VisitMffc
  <2>2. Todo = 0 /\ Todo' = 0
    BY <1>1, <2>1 DEF Todo, Open
  <2> QED BY <1>1, <2>1, <2>2, RepsStay
<1>4. CASE UNCHANGED networkVars
  <2>1. fanout' = fanout /\ repList' = repList /\ i' = i
    BY <1>4 DEF networkVars
  <2>2. Todo' = Todo
    BY <1>1, <2>1 DEF Todo, FromLast
  <2> QED BY <1>1, <2>1, <2>2, RepsStay
<1> QED BY <1>2, <1>3, <1>4, Zenon DEF Analysing

LEMMA RepsOfStep ==
  ASSUME Building, Analysed, SetRepFaults, Ready
  PROVE  Ready'
<1> DEFINE n == FromLast
<1>1. pc = "faults" /\ n \in DOMAIN node /\ ~ Early
  BY DEF SetRepFaults, Early
<1>2. node' = node /\ nodeMap' = nodeMap /\ fanout' = fanout /\ pc' = pc /\ i' = i + 1
  BY DEF SetRepFaults
<1>3. Proper /\ ListsAre /\ Faulted(node, fault) /\ node \in Seq(NodeRecs)
  BY <1>1, NetworkBuilt DEF Analysed, Building, Wired
<1>4. /\ Len(node) \in Nat /\ DOMAIN node = 1 .. Len(node) /\ i \in Nat /\ Len(fault) \in Nat
      /\ DOMAIN fault = 1 .. Len(fault)
      /\ \A f \in DOMAIN fault : fault[f].node \in Nat /\ fault[f].node # 0 /\ fault[f].rep \in 0 .. Len(fault)
  BY <1>3, NetworkFacts, NodesOfFaults DEF Building
<1>5. Todo = n /\ Todo' = n - 1 /\ n \in Nat
  <2>1. Todo = FromLast /\ Todo' = FromLast'
    BY <1>1, <1>2 DEF Todo, Open
  <2>2. FromLast' = FromLast - 1
    BY <1>2, <1>4 DEF FromLast
  <2> QED BY <1>1, <1>4, <2>1, <2>2
<1>6. C!DataNodes' = C!DataNodes
  BY <1>2 DEF C!DataNodes, C!Tfi, C!PPOs, C!FaninSet
<1>7. /\ SitesOnce(fault) /\ \A f \in DOMAIN fault : PinExists(node, fault[f])
      /\ \A f \in DOMAIN fault : fault[f].node <= n => Original(node, nodeMap, fault, f)
      /\ \A f \in DOMAIN fault :
           fault[f].node \in C!DataNodes /\ fault[f].node > n => RepresentedIn(fault, repList, f)
  BY <1>5 DEF Ready
<1>8. CASE n \notin C!DataNodes
  <2>1. fault' = fault /\ repList' = repList
    BY <1>8 DEF SetRepFaults
  <2>2. ASSUME NEW f \in DOMAIN fault, fault[f].node <= Todo' PROVE Original(node, nodeMap, fault, f)
    <3>1. fault[f].node <= n
      BY <1>4, <1>5, <2>2
    <3> QED BY <1>7, <3>1
  <2>3. ASSUME NEW f \in DOMAIN fault, fault[f].node \in C!DataNodes, fault[f].node > Todo'
        PROVE  RepresentedIn(fault, repList, f)'
    <3>1. fault[f].node > n
      BY <1>4, <1>5, <1>8, <2>3
    <3>2. RepresentedIn(fault', repList', f)
      BY <1>7, <2>1, <2>3, <3>1
    <3> QED BY <1>2, <3>2, SameReps
  <2>4. DOMAIN fault' = DOMAIN fault /\ \A f : fault'[f] = fault[f]
    BY <2>1
  <2>5. SitesOnce(fault') /\ \A f \in DOMAIN fault' : PinExists(node', fault'[f])
    BY <1>2, <1>7, <2>1
  <2>6. \A f \in DOMAIN fault' : fault'[f].node <= Todo' => Original(node', nodeMap', fault', f)
    BY <1>2, <2>1, <2>2
  <2>7. \A f \in DOMAIN fault' : fault'[f].node \in C!DataNodes' /\ fault'[f].node > Todo' => RepresentedIn(fault, repList, f)'
    BY <1>6, <2>1, <2>3, <2>4
  <2> QED BY <2>5, <2>6, <2>7 DEF Ready
<1>9. CASE n \in C!DataNodes
  <2>1. Awaiting(n)
    <3>1. \A f \in DOMAIN fault : fault[f].node = n => Original(node, nodeMap, fault, f)
      BY <1>5, <1>7
    <3> QED BY <1>3, <1>7, <3>1 DEF Awaiting
  <2>2. Representing(n, fault, fault', repList') /\ \A m \in DOMAIN node : m # n => repList'[m] = repList[m]
    BY <1>3, <1>9, RepFaultsAre
  <2>3. \A f \in DOMAIN fault : fault[f].node \in C!DataNodes /\ fault[f].node >= n => RepresentedIn(fault', repList', f)
    <3>1. PICK F : F = fault'
      OBVIOUS
    <3>2. PICK L : L = repList'
      OBVIOUS
    <3>3. Representing(n, fault, F, L) /\ \A m \in DOMAIN node : m # n => L[m] = repList[m]
      BY <2>2, <3>1, <3>2
    <3>4. PICK k : k = n
      OBVIOUS
    <3>5. \A f \in DOMAIN fault : fault[f].node \in C!DataNodes /\ fault[f].node >= k => RepresentedIn(F, L, f)
      <4> HIDE DEF n
      <4> QED BY <1>9, <2>1, <3>3, <3>4, RepsGiven
    <3> QED BY <3>1, <3>2, <3>4, <3>5
  <2>4. /\ DOMAIN fault' = DOMAIN fault
        /\ \A f \in DOMAIN fault : /\ fault'[f].node = fault[f].node /\ fault'[f].pos = fault[f].pos
                                   /\ fault'[f].val = fault[f].val
        /\ \A f \in DOMAIN fault : fault[f].node # n => fault'[f] = fault[f]
    BY <2>2, Zenon DEF Representing
  <2> HIDE DEF n
  <2>5. SitesOnce(fault')
    BY <1>7, <2>4 DEF SitesOnce
  <2>6. \A f \in DOMAIN fault' : PinExists(node', fault'[f])
    BY <1>2, <1>7, <2>4 DEF PinExists
  <2>7. ASSUME NEW f \in DOMAIN fault', fault'[f].node <= Todo'
        PROVE  Original(node', nodeMap', fault', f)
    <3>1. fault[f].node <= n /\ fault[f].node # n /\ f \in DOMAIN fault
      BY <1>4, <1>5, <2>4, <2>7
    <3>2. Original(node, nodeMap, fault, f) /\ fault'[f] = fault[f]
      BY <1>7, <2>4, <3>1
    <3>3. PICK r : r = fault[f].rep
      OBVIOUS
    <3>4. r # 0 => r \in DOMAIN fault
      BY <1>4, <3>1, <3>3
    <3>5. PICK a : a = fault[f]
      OBVIOUS
    <3>6. PICK b : b = fault[r]
      OBVIOUS
    <3>7. PICK c : c = fault'[r]
      OBVIOUS
    <3>8. /\ PinExists(node, a) /\ (a.pos = 0 => r = 0)
          /\ r # 0 => b.pos = 0 /\ Covers(node, nodeMap, a, b)
      BY <3>2, <3>3, <3>5, <3>6 DEF Original
    <3>9. r # 0 => c.node = b.node /\ c.pos = b.pos /\ c.val = b.val
      BY <2>4, <3>4, <3>6, <3>7
    <3>10. r # 0 => c.pos = 0 /\ Covers(node, nodeMap, a, c)
      BY <3>8, <3>9, Zenon DEF Covers
    <3>11. fault'[f] = a /\ a.rep = r
      BY <3>2, <3>3, <3>5
    <3> QED BY <1>2, <3>7, <3>8, <3>10, <3>11 DEF Original
  <2>8. ASSUME NEW f \in DOMAIN fault', fault'[f].node \in C!DataNodes', fault'[f].node > Todo'
        PROVE  RepresentedIn(fault, repList, f)'
    <3>1. f \in DOMAIN fault /\ fault[f].node \in C!DataNodes /\ fault[f].node >= n
      BY <1>4, <1>5, <1>6, <2>4, <2>8
    <3>2. RepresentedIn(fault', repList', f)
      BY <2>3, <3>1
    <3> QED BY <1>2, <3>2, SameReps
  <2> QED BY <2>5, <2>6, <2>7, <2>8 DEF Ready
<1> QED BY <1>8, <1>9

LEMMA RepsOfNext ==
  ASSUME IInv, IInv', Represented, [Next]_networkVars
  PROVE  Represented'
<1>1. source' = source
  BY Zenon DEF Next, MakeInputNode, MakeDffOutputNode, MakeLogicNode, MakeTerminalNode, MakePpi, SetFanouts, SetRepFaults,
     SortOutputs, SetImmDom, BeginFfr, VisitFfr, BeginMffc, VisitMffc, NextLoop, networkVars
<1> SUFFICES ASSUME NarrowXnor(source) PROVE Ready'
  BY <1>1 DEF Represented
<1>2. Ready /\ Building /\ Building' /\ Analysed
  BY DEF Represented, IInv
<1>3. CASE Making
  BY <1>2, <1>3, RepsOfMade
<1>4. CASE Analysing \/ UNCHANGED networkVars
  BY <1>2, <1>4, RepsOfAnalysis
<1>5. CASE SetRepFaults
  BY <1>2, <1>5, RepsOfStep
<1>6. CASE NextLoop
  BY <1>2, <1>6, RepsOfLoop
<1> QED BY <1>3, <1>4, <1>5, <1>6, Zenon DEF Next, Making, Analysing

LEMMA ReadyIs ==
  ASSUME IInv, Ready
  PROVE  RepresentativesEquivalent /\ SitesExist
<1>1. Faulted(node, fault) /\ node \in Seq(NodeRecs)
  BY DEF IInv, Building, Wired
<1>2. /\ Len(node) \in Nat /\ DOMAIN fault = 1 .. Len(fault)
      /\ \A f \in DOMAIN fault : fault[f].node \in 1 .. Len(node) /\ fault[f].node \in Nat /\ fault[f].node # 0
  BY <1>1, NodesOfFaults
<1>3. RepresentativesEquivalent
  <2> SUFFICES ASSUME pc = "sort", NEW f \in DOMAIN fault, fault[f].node \in C!DataNodes
               PROVE  RepresentedIn(fault, repList, f)
    BY Zenon DEF RepresentativesEquivalent, RepresentedIn
  <2>1. Todo = 0
    BY DEF Todo, Open
  <2>2. fault[f].node > Todo
    BY <1>2, <2>1
  <2> QED BY <2>2 DEF Ready
<1>4. ASSUME NEW f \in DOMAIN fault PROVE fault[f].pos <= Len(node[fault[f].node].fanin)
  <2>1. PinExists(node, fault[f])
    BY DEF Ready
  <2>2. node[fault[f].node] \in NodeRecs
    BY <1>1, <1>2
  <2>3. node[fault[f].node].fanin \in Seq(Nat)
    BY <2>2 DEF NodeRecs
  <2> QED BY <2>1, <2>3 DEF PinExists
<1> QED BY <1>3, <1>4 DEF SitesExist

\* From the network's invariant: every fault above the node that set_rep_faults() takes
\* next has a representative that is on a list and has its tests.
THEOREM FaultsRepresented == Spec => []Represented
<1>1. Init => Represented
  BY RepsAtFirst DEF Represented
<1>2. IInv /\ IInv' /\ Represented /\ [Next]_networkVars => Represented'
  BY RepsOfNext
<1> QED BY <1>1, <1>2, InductiveInvariant, PTL DEF Spec

\* Unless an XNOR has three inputs or more, every stuck-at fault ends up with a representative
\* that is on the list of its node and that is detected by exactly the same inputs.
THEOREM RepresentativesAreEquivalent == Spec => [](NarrowXnor(source) => RepresentativesEquivalent)
<1>1. IInv /\ Represented => (NarrowXnor(source) => RepresentativesEquivalent)
  BY ReadyIs DEF Represented
<1> QED BY <1>1, FaultsRepresented, InductiveInvariant, PTL

\* Without such a gate every branch fault sits at a fanin that its node has: only the
\* positions that XNOR chains record may not exist.
THEOREM OnlyWideXnorsMissSites == Spec => [](NarrowXnor(source) => SitesExist)
<1>1. IInv /\ Represented => (NarrowXnor(source) => SitesExist)
  BY ReadyIs DEF Represented
<1> QED BY <1>1, FaultsRepresented, InductiveInvariant, PTL
=============================================================================
