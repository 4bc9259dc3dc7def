----------------------------- MODULE DtpgProofs -----------------------------
(***************************************************************************)
(* What holds of test generation.  Of the engines (Dtpg), for every        *)
(* network: their conditions and vectors detect their faults however the   *)
(* rest is filled in, a fault they call untestable is, and no vector       *)
(* repeats another.  Of the dtpg command that asks them (Atpg), for any    *)
(* number of faults, vectors, orders and commands: the status of the       *)
(* faults and the vectors kept agree, whatever the options.                *)
(***************************************************************************)
EXTENDS Dtpg, Atpg, TLAPS

\* The lemmas about the network of the engine.
C == INSTANCE CircuitProofs WITH Gate <- engine.gate, Fanout <- engine.fanout

Nodes == DOMAIN engine.gate
Bin == {"0", "1"}

-----------------------------------------------------------------------------
(* The engine and its network.                                             *)

LEMMA EngineIs ==
  ASSUME engine \in Engines
  PROVE  /\ C!Proper
         /\ engine.class \in {"DtpgFFR", "DtpgMFFC"} /\ engine.type \in {"SA", "TD"}
         /\ engine.maxCalls \in Nat
         /\ \A n \in Nodes :
              /\ engine.gate[n].type = "DffOutput" => engine.dff[n] \in Nodes
              /\ engine.immDom[n] # 0 => /\ engine.immDom[n] \in n + 1 .. Len(engine.gate)
                                         /\ OnAllWays(engine, engine.immDom[n], n)
              /\ Len(engine.fanout[n]) = 1 => engine.immDom[n] = engine.fanout[n][1]
<1>1. ProperEngine(engine)
  BY EnginesAssumption
<1>2. ProperNetwork(engine.gate, engine.fanout) <=> C!Proper
  BY Zenon DEF C!Proper, C!ProperNetwork, ProperNetwork, C!NodeTypes, NodeTypes, C!NoFanin, NoFanin,
     C!OneFanin, OneFanin, C!GateTypes, GateTypes, C!PpoTypes, PpoTypes, C!PpiTypes, PpiTypes,
     C!ControlTypes, ControlTypes
<1> QED BY <1>1, <1>2 DEF ProperEngine, Nodes

\* The definitions of the instance are those of the lemmas.
LEMMA SameOperators ==
  /\ C!Nodes = Nodes /\ C!Bin = Bin
  /\ C!PPOs = PPOs /\ C!PPIs = PPIs /\ C!Inputs = Inputs /\ C!DataNodes = DataNodes
  /\ \A n : C!FaninSet(n) = FaninSet(n) /\ C!FanoutSet(n) = FanoutSet(n)
  /\ \A n : C!FfrRoot(n) = FfrRoot(n)
  /\ \A S : C!Tfo(S) = Tfo(S)
  /\ \A in : C!Values(in) = Values(in)
  /\ \A in, f : C!ValuesUnder(in, f) = ValuesUnder(in, f)
  /\ \A f : C!FaultyLine(f) = FaultyLine(f)
  /\ \A f, type : C!FfrCondition(f, type) = FfrCondition(f, type)
  /\ \A n, t, v : C!Assign(n, t, v) = Assign(n, t, v)
  /\ \A v : C!Complement(v) = Complement(v)
  /\ \A t : C!ControlValue(t) = ControlValue(t) /\ C!ControlledOutput(t) = ControlledOutput(t)
<1>1. C!Nodes = Nodes /\ C!Bin = Bin
  BY DEF C!Nodes, C!Bin, Nodes, Bin
<1>2. C!PPOs = PPOs /\ C!PPIs = PPIs
  BY Zenon DEF C!PPOs, C!PPIs, PPOs, PPIs, C!PpoTypes, C!PpiTypes, PpoTypes, PpiTypes
<1>3. C!Inputs = Inputs
  BY <1>2, Zenon DEF C!Inputs, Inputs
<1>4. \A n : C!FaninSet(n) = FaninSet(n) /\ C!FanoutSet(n) = FanoutSet(n)
  BY Zenon DEF C!FaninSet, C!FanoutSet, FaninSet, FanoutSet
<1>5. \A n : C!FfrRoot(n) = FfrRoot(n)
  BY Zenon DEF C!FfrRoot, FfrRoot
<1>6. \A S : C!Tfo(S) = Tfo(S)
  BY Zenon DEF C!Tfo, Tfo, C!FanoutSet, FanoutSet
<1>7. \A S : C!Tfi(S) = Tfi(S)
  BY Zenon DEF C!Tfi, Tfi, C!FaninSet, FaninSet
<1>8. C!DataNodes = DataNodes
  BY <1>2, <1>7, Zenon DEF C!DataNodes, DataNodes
<1>9. \A v : C!Complement(v) = Complement(v)
  BY DEF C!Complement, Complement
<1>10. \A t : C!ControlValue(t) = ControlValue(t) /\ C!ControlledOutput(t) = ControlledOutput(t)
  BY DEF C!ControlValue, ControlValue, C!ControlledOutput, ControlledOutput
<1>11. \A in, f : C!ValuesUnder(in, f) = ValuesUnder(in, f)
  BY Zenon DEF C!ValuesUnder, ValuesUnder, C!Output, Output, C!PpiTypes, PpiTypes, C!GateTypes, GateTypes,
     C!GateFunction, GateFunction, C!AndOf, AndOf, C!OrOf, OrOf, C!XorOf, XorOf, C!Some, Some,
     C!Complement, Complement, C!Cardinality, Cardinality
<1>12. \A in : C!Values(in) = Values(in)
  BY <1>11, Zenon DEF C!Values, Values, C!NoFault, NoFault
<1>13. \A f : C!FaultyLine(f) = FaultyLine(f)
  BY Zenon DEF C!FaultyLine, FaultyLine
<1>14. \A n, t, v : C!Assign(n, t, v) = Assign(n, t, v)
  BY Zenon DEF C!Assign, Assign
<1>15. \A f, type : C!FfrCondition(f, type) = FfrCondition(f, type)
  BY Zenon DEF C!FfrCondition, FfrCondition, C!Activation, Activation, C!BranchCondition, BranchCondition,
     C!PathCondition, PathCondition, C!SideAt, SideAt, C!Nval, Nval, C!SideValue, SideValue,
     C!ControlValue, ControlValue, C!Complement, Complement, C!Assign, Assign, C!FaultyLine, FaultyLine
<1> QED BY <1>1, <1>2, <1>3, <1>4, <1>5, <1>6, <1>8, <1>9, <1>10, <1>11, <1>12, <1>13, <1>14, <1>15

\* Two cycles of a network: the values of each follow from its inputs.
InputsOf(m) == [n \in PPIs |-> m[2][n]]

LEMMA ModelIs ==
  ASSUME engine \in Engines, NEW m \in GoodModels
  PROVE  /\ C!Sound(m[1]) /\ C!Sound(m[2])
         /\ m[1] \in [Nodes -> Bin] /\ m[2] \in [Nodes -> Bin]
         /\ InputsOf(m) \in Inputs /\ m[2] = Values(InputsOf(m))
         /\ TwoCycles => \A n \in PPIs \ PrimaryInputs :
                           engine.dff[n] \in Nodes /\ m[2][n] = m[1][engine.dff[n]]
         /\ ~ TwoCycles => m[1] = m[2]
<1>1. C!Proper
  BY EngineIs
<1>2. \A in \in Inputs : /\ C!Sound(Values(in)) /\ Values(in) \in [Nodes -> Bin]
                         /\ \A n \in PPIs : Values(in)[n] = in[n]
                         /\ [n \in PPIs |-> Values(in)[n]] = in
  BY <1>1, C!GoodIsSound, SameOperators DEF C!Sound
<1>3. \A n \in PPIs \ PrimaryInputs : engine.dff[n] \in Nodes
  BY EngineIs DEF PPIs, PrimaryInputs, PpiTypes, Nodes
<1>4. CASE TwoCycles
  <2>1. PICK in \in Inputs, pi \in [PrimaryInputs -> {"0", "1"}] :
          m = <<Values(in), Values(NextInputs(Values(in), pi))>>
    BY <1>4 DEF GoodModels
  <2> DEFINE next == NextInputs(Values(in), pi)
  <2>2. next \in Inputs
    BY <1>2, <1>3 DEF NextInputs, Inputs, Bin, PrimaryInputs
  <2>3. \A n \in PPIs \ PrimaryInputs : next[n] = Values(in)[engine.dff[n]]
    BY DEF NextInputs
  <2> HIDE DEF next
  <2>4. m[1] = Values(in) /\ m[2] = Values(next)
    BY <2>1 DEF next
  <2> QED BY <1>2, <1>3, <1>4, <2>2, <2>3, <2>4 DEF InputsOf
<1>5. CASE ~ TwoCycles
  <2>1. PICK in \in Inputs : m = <<Values(in), Values(in)>>
    BY <1>5 DEF GoodModels
  <2> QED BY <1>2, <1>5, <2>1 DEF InputsOf
<1> QED BY <1>4, <1>5

LEMMA FaultyValuesIs ==
  ASSUME engine \in Engines, NEW m \in GoodModels, NEW o \in Nodes
  PROVE  /\ FaultyValues(m, o) = C!FlipOf(InputsOf(m), o)
         /\ C!Flipped(FaultyValues(m, o), m[2], o)
<1>1. ValAt(m, o, 1) = m[2][o] /\ [n \in PPIs |-> ValAt(m, n, 1)] = InputsOf(m)
  BY DEF ValAt, InputsOf
<1>2. m[2] = Values(InputsOf(m)) /\ InputsOf(m) \in Inputs
  BY ModelIs
<1>3. FaultyValues(m, o) = C!FlipOf(InputsOf(m), o)
  BY <1>1, <1>2, SameOperators DEF FaultyValues, C!FlipOf
<1>4. C!Flipped(C!FlipOf(InputsOf(m), o), Values(InputsOf(m)), o)
  BY <1>2, EngineIs, SameOperators, C!FlipOfIs
<1> QED BY <1>2, <1>3, <1>4

\* The faults of the engine.
LEMMA FaultIs ==
  ASSUME engine \in Engines, NEW f \in Faults
  PROVE  /\ C!IsFault(f) /\ f.node \in Nodes /\ f.val \in Bin
         /\ FaultyLine(f) \in Nodes
         /\ Origin(f) \in Nodes /\ Len(engine.fanout[Origin(f)]) # 1
         /\ Origin(f) = C!FfrRoot(f.node)
         /\ engine.root = IF engine.class = "DtpgFFR" THEN Origin(f) ELSE MffcRoot(f.node)
<1>1. C!Proper
  BY EngineIs
<1>2. PPOs \subseteq Nodes
  BY DEF PPOs, Nodes
<1>3. DataNodes \subseteq Nodes
  <2>1. C!Tfi(C!PPOs) \subseteq Nodes
    BY <1>1, <1>2, C!TfiFacts, SameOperators
  <2> QED BY <2>1, SameOperators DEF C!DataNodes
<1>4. /\ f \in [node : DataNodes, pos : 0 .. 3, val : {"0", "1"}]
      /\ f.pos \in 0 .. Len(engine.gate[f.node].fanin)
      /\ engine.root = IF engine.class = "DtpgFFR" THEN FfrRoot(f.node) ELSE MffcRoot(f.node)
  BY DEF Faults
<1>5. f = [node |-> f.node, pos |-> f.pos, val |-> f.val] /\ f.node \in Nodes /\ f.val \in Bin
  BY <1>3, <1>4 DEF Bin
<1>6. f.pos = 0 \/ f.pos \in DOMAIN engine.gate[f.node].fanin
  <2>1. /\ Len(engine.gate[f.node].fanin) \in Nat
        /\ DOMAIN engine.gate[f.node].fanin = 1 .. Len(engine.gate[f.node].fanin)
    BY <1>1, <1>5, SameOperators, C!FaninFacts
  <2> QED BY <1>4, <2>1
<1>7. C!IsFault(f)
  BY <1>5, <1>6, SameOperators DEF C!IsFault
<1>8. FaultyLine(f) \in Nodes
  BY <1>1, <1>7, C!FaultyLineIs, SameOperators
<1>9. C!FfrRoot(f.node) \in Nodes /\ Len(engine.fanout[C!FfrRoot(f.node)]) # 1
  BY <1>1, <1>5, C!FfrRootFacts, SameOperators DEF C!SingleFanout
<1>10. Origin(f) = C!FfrRoot(f.node)
  BY SameOperators DEF Origin
<1> QED BY <1>4, <1>5, <1>7, <1>8, <1>9, <1>10 DEF Origin

(* A model detects a fault exactly if it has the condition of its region and *)
(* complementing the root of the region shows at an output.                  *)
LEMMA DetectsIs ==
  ASSUME engine \in Engines, NEW f \in Faults, NEW m \in GoodModels
  PROVE  Detects(m, f) <=> /\ Holds(m, FfrCondition(f, engine.type))
                           /\ \E p \in PPOs : m[2][p] # FaultyValues(m, Origin(f))[p]
<1> DEFINE cond == FfrCondition(f, engine.type)
           u == FaultyValues(m, Origin(f))
           bad == ValuesUnder(InputsOf(m), f)
<1>1. C!Proper /\ C!IsFault(f) /\ InputsOf(m) \in Inputs /\ m[2] = Values(InputsOf(m))
  BY EngineIs, FaultIs, ModelIs
<1>2. [n \in PPIs |-> ValAt(m, n, 1)] = InputsOf(m) /\ \A n : ValAt(m, n, 1) = m[2][n] /\ ValAt(m, n, 0) = m[1][n]
  BY DEF ValAt, InputsOf
<1>3. /\ \A a \in cond : a.time = 1 \/ (TwoCycles /\ a = Assign(FaultyLine(f), 0, f.val))
      /\ TwoCycles => Assign(FaultyLine(f), 0, f.val) \in cond
  BY <1>1, SameOperators, C!ConditionType DEF TwoCycles
<1>4. Holds(m, cond) <=> C!HoldsNow(cond, m[2]) /\ (TwoCycles => m[1][FaultyLine(f)] = f.val)
  <2> DEFINE before == Assign(FaultyLine(f), 0, f.val)
  <2>1. before.time = 0 /\ before.node = FaultyLine(f) /\ before.val = f.val
    BY DEF Assign
  <2>2. \A a \in cond : a.time = 1 \/ (TwoCycles /\ a = before)
    BY <1>3
  <2>3. TwoCycles => before \in cond
    BY <1>3
  <2> HIDE DEF cond, before
  <2>4. Holds(m, cond) <=> \A a \in cond : ValAt(m, a.node, a.time) = a.val
    BY Zenon DEF Holds
  <2>5. C!HoldsNow(cond, m[2]) <=> \A a \in cond : a.time = 1 => m[2][a.node] = a.val
    BY Zenon DEF C!HoldsNow
  <2> QED BY <1>2, <2>1, <2>2, <2>3, <2>4, <2>5
<1>5. PPOs \subseteq C!Beyond(Origin(f))
  <2> SUFFICES ASSUME NEW p \in PPOs PROVE p \in Nodes /\ C!FfrRoot(p) = p
    BY SameOperators DEF C!Beyond
  <2>1. p \in Nodes
    BY DEF PPOs, Nodes
  <2>2. ~ C!SingleFanout(p)
    <3>1. p \in C!Nodes /\ p \in C!PPOs
      BY <2>1, SameOperators
    <3>2. Len(engine.fanout[p]) = 0
      BY <1>1, <3>1, C!FanoutFacts
    <3> QED BY <3>2 DEF C!SingleFanout
  <2> QED BY <1>1, <2>1, <2>2, SameOperators, C!FfrRootStep
<1>6. IF C!HoldsNow(cond, m[2]) THEN \A p \in PPOs : bad[p] = u[p] ELSE \A p \in PPOs : bad[p] = m[2][p]
  <2>1. IF C!HoldsNow(C!FfrCondition(f, engine.type), C!Values(InputsOf(m)))
        THEN \A n \in C!Beyond(C!FfrRoot(f.node)) :
               C!ValuesUnder(InputsOf(m), f)[n] = C!FlipOf(InputsOf(m), C!FfrRoot(f.node))[n]
        ELSE \A n \in C!Beyond(C!FfrRoot(f.node)) :
               C!ValuesUnder(InputsOf(m), f)[n] = C!Values(InputsOf(m))[n]
    BY <1>1, SameOperators, C!RegionExact
  <2>2. C!FlipOf(InputsOf(m), Origin(f)) = u /\ Origin(f) = C!FfrRoot(f.node)
    BY FaultIs, FaultyValuesIs
  <2>3. /\ C!ValuesUnder(InputsOf(m), f) = bad /\ C!Values(InputsOf(m)) = m[2]
        /\ C!FfrCondition(f, engine.type) = cond
    BY <1>1, SameOperators
  <2> HIDE DEF cond, u, bad
  <2> QED BY <1>5, <2>1, <2>2, <2>3
<1>7. Detects(m, f) <=> /\ TwoCycles => m[1][FaultyLine(f)] = f.val
                        /\ \E p \in PPOs : m[2][p] # bad[p]
  BY <1>2 DEF Detects
<1> HIDE DEF cond, u, bad
<1>8. QED
  BY <1>4, <1>6, <1>7 DEF cond, u

-----------------------------------------------------------------------------
(* Sufficient conditions.                                                  *)

LEMMA LeastIs ==
  ASSUME NEW T, T \subseteq Nat, T # {}
  PROVE  Min(T) \in T /\ \A y \in T : Min(T) <= y
  BY C!NatLeast DEF Min

LEMMA GreatestIs ==
  ASSUME NEW N \in Nat, NEW T, T \subseteq 1 .. N, T # {}
  PROVE  Max(T) \in T
<1> DEFINE S == {N - t : t \in T}
<1>1. S \subseteq Nat /\ S # {}
  <2>1. \A t \in T : N - t \in Nat
    OBVIOUS
  <2>2. PICK t \in T : TRUE
    OBVIOUS
  <2>3. N - t \in S
    OBVIOUS
  <2> QED BY <2>1, <2>3
<1>2. PICK s \in S : \A r \in S : s <= r
  <2> HIDE DEF S
  <2> QED BY <1>1, C!NatLeast
<1>3. PICK t \in T : s = N - t
  BY <1>2
<1>4. ASSUME NEW y \in T PROVE y <= t
  <2>1. s <= N - y
    BY <1>2
  <2> QED BY <2>1, <1>3
<1> QED BY <1>4 DEF Max

\* The cone of a fault: outside of it nothing differs.
LEMMA FconeIs ==
  ASSUME engine \in Engines, NEW f \in Faults
  PROVE  /\ Fcone(f) = C!Tfo({Origin(f)}) /\ Origin(f) \in Fcone(f) /\ Fcone(f) \subseteq Nodes
         /\ \A n \in Fcone(f) : FanoutSet(n) \subseteq Fcone(f)
         /\ \A m \in GoodModels : \A n \in Nodes :
              m[2][n] # FaultyValues(m, Origin(f))[n] => n \in Fcone(f)
<1>1. C!Proper /\ Origin(f) \in Nodes /\ Origin(f) \in C!Nodes
  BY EngineIs, FaultIs, SameOperators
<1>2. Fcone(f) = C!Tfo({Origin(f)})
  BY SameOperators DEF Fcone
<1>3. /\ Origin(f) \in Fcone(f) /\ Fcone(f) \subseteq Nodes
      /\ \A n \in Fcone(f) : C!FanoutSet(n) \subseteq Fcone(f)
  <2>1. \A o \in C!Nodes : /\ o \in C!Tfo({o}) /\ C!Tfo({o}) \subseteq C!Nodes
                           /\ \A n \in C!Tfo({o}) : C!FanoutSet(n) \subseteq C!Tfo({o})
    BY <1>1, C!ConeFacts
  <2> QED BY <1>1, <1>2, <2>1, SameOperators
<1>4. ASSUME NEW m \in GoodModels, NEW n \in Nodes \ Fcone(f)
      PROVE  FaultyValues(m, Origin(f))[n] = m[2][n]
  <2>1. C!Sound(m[2]) /\ C!Flipped(FaultyValues(m, Origin(f)), m[2], Origin(f))
    BY <1>1, ModelIs, FaultyValuesIs
  <2>2. n \in C!Nodes \ Fcone(f)
    BY SameOperators
  <2> QED BY <1>1, <1>3, <2>1, <2>2, C!FlippedOutside
<1> QED BY <1>2, <1>3, <1>4, SameOperators

\* The search of Spo().
FirstBy(m, bad, first) ==
  [n \in DOMAIN engine.gate |->
     LET found == {k \in DOMAIN engine.fanout[n] : first[engine.fanout[n][k]] # 0}
     IN  IF n \in PPOs /\ ValAt(m, n, 1) # bad[n] THEN n
         ELSE IF found = {} THEN 0 ELSE first[engine.fanout[n][Min(found)]]]

(* The output is one that differs, if one within reach does.                *)
LEMMA SpoIs ==
  ASSUME engine \in Engines, NEW m, NEW bad, NEW o \in Nodes,
         NEW p \in PPOs \cap C!Tfo({o}), m[2][p] # bad[p]
  PROVE  /\ Spo(m, bad, o) \in PPOs \cap C!Tfo({o})
         /\ m[2][Spo(m, bad, o)] # bad[Spo(m, bad, o)]
<1> DEFINE N == Len(engine.gate)
           V == Nodes \cup {0}
           G == [g \in [Nodes -> V] |-> FirstBy(m, bad, g)]
           first == CHOOSE g : g = FirstBy(m, bad, g)
           T == C!Tfo({o})
           AtOutput(g, n) == {k \in DOMAIN engine.fanout[n] : g[engine.fanout[n][k]] # 0}
<1>1. /\ C!Proper /\ N \in Nat /\ Nodes = 1 .. N
      /\ \A n \in Nodes : n \in Nat /\ n # 0
  BY EngineIs, C!NodesAre, SameOperators
<1>2. \A n \in Nodes : /\ DOMAIN engine.fanout[n] \subseteq Nat
                       /\ \A k \in DOMAIN engine.fanout[n] :
                            engine.fanout[n][k] \in Nodes /\ n < engine.fanout[n][k]
  <2> SUFFICES ASSUME NEW n \in Nodes
               PROVE  /\ DOMAIN engine.fanout[n] \subseteq Nat
                      /\ \A k \in DOMAIN engine.fanout[n] :
                           engine.fanout[n][k] \in Nodes /\ n < engine.fanout[n][k]
    OBVIOUS
  <2>1. n \in C!Nodes
    BY SameOperators
  <2>2. /\ DOMAIN engine.fanout[n] \subseteq Nat
        /\ \A x \in C!FanoutSet(n) : x \in Nodes /\ n < x
    BY <1>1, <2>1, SameOperators, C!FanoutFacts
  <2> QED BY <2>2 DEF C!FanoutSet
<1>3. \A n \in Nodes : n \in PPOs \/ n \notin PPOs
  OBVIOUS
<1>4. \A g : \A n \in Nodes :
        FirstBy(m, bad, g)[n] =
          IF n \in PPOs /\ m[2][n] # bad[n] THEN n
          ELSE IF AtOutput(g, n) = {} THEN 0 ELSE g[engine.fanout[n][Min(AtOutput(g, n))]]
  BY DEF FirstBy, ValAt, Nodes
<1>5. \A g : \A n \in Nodes : AtOutput(g, n) # {} => Min(AtOutput(g, n)) \in AtOutput(g, n)
  <2> SUFFICES ASSUME NEW g, NEW n \in Nodes, AtOutput(g, n) # {} PROVE Min(AtOutput(g, n)) \in AtOutput(g, n)
    OBVIOUS
  <2>1. AtOutput(g, n) \subseteq Nat
    BY <1>2
  <2> HIDE DEF AtOutput
  <2> QED BY <2>1, LeastIs
<1>6. \E g \in [Nodes -> V] : g = G[g]
  <2>1. ASSUME NEW g \in [Nodes -> V] PROVE FirstBy(m, bad, g) \in [Nodes -> V]
    <3>1. ASSUME NEW n \in Nodes PROVE FirstBy(m, bad, g)[n] \in V
      <4>1. AtOutput(g, n) # {} => g[engine.fanout[n][Min(AtOutput(g, n))]] \in V
        BY <1>2, <1>5
      <4> HIDE DEF AtOutput
      <4> QED BY <1>4, <4>1
    <3>2. FirstBy(m, bad, g) = [n \in Nodes |-> FirstBy(m, bad, g)[n]]
      BY DEF FirstBy, Nodes
    <3> QED BY <3>1, <3>2
  <2>2. ASSUME NEW g \in [Nodes -> V], NEW h \in [Nodes -> V], NEW n \in Nodes,
               \A j \in Nodes : n < j => g[j] = h[j]
        PROVE  FirstBy(m, bad, g)[n] = FirstBy(m, bad, h)[n]
    <3>1. AtOutput(g, n) = AtOutput(h, n)
      BY <1>2, <2>2
    <3>2. AtOutput(g, n) # {} => g[engine.fanout[n][Min(AtOutput(g, n))]] = h[engine.fanout[n][Min(AtOutput(g, n))]]
      BY <1>2, <1>5, <2>2
    <3> HIDE DEF AtOutput
    <3> QED BY <1>4, <3>1, <3>2
  <2>3. [Nodes -> V] # {}
    <3>1. [n \in Nodes |-> 0] \in [Nodes -> V]
      OBVIOUS
    <3> QED BY <3>1
  <2> HIDE DEF V
  <2>4. G \in [[Nodes -> V] -> [Nodes -> V]]
    BY <2>1
  <2>5. \A g, h \in [Nodes -> V] : \A n \in Nodes :
          (\A j \in Nodes : n < j => g[j] = h[j]) => G[g][n] = G[h][n]
    BY <2>2
  <2> HIDE DEF G
  <2>6. C!DownDependent(N, Nodes, V, G)
    BY <1>1, <2>3, <2>4, <2>5 DEF C!DownDependent
  <2> HIDE DEF N
  <2> QED BY <2>6, C!DownRecursion
<1>7. first = FirstBy(m, bad, first)
  BY <1>6
<1>8. Spo(m, bad, o) = first[o]
  BY Zenon DEF Spo, FirstBy
<1> HIDE DEF first
<1>9. \A n \in Nodes :
        first[n] = IF n \in PPOs /\ m[2][n] # bad[n] THEN n
                   ELSE IF AtOutput(first, n) = {} THEN 0
                   ELSE first[engine.fanout[n][Min(AtOutput(first, n))]]
  <2> HIDE DEF AtOutput
  <2> QED BY <1>4, <1>7
<1>10. \A n \in T : n \in Nodes /\ \A k \in DOMAIN engine.fanout[n] : engine.fanout[n][k] \in T
  <2>1. T \subseteq Nodes /\ \A n \in T : C!FanoutSet(n) \subseteq T
    BY <1>1, SameOperators, C!ConeFacts
  <2> HIDE DEF T
  <2> QED BY <2>1 DEF C!FanoutSet
<1> HIDE DEF T
\* What is found is in the cone and differs.
<1> DEFINE Good(n) == first[n] # 0 => first[n] \in PPOs \cap T /\ m[2][first[n]] # bad[first[n]]
           S == {n \in Nodes : n \in T => Good(n)}
<1>11. ASSUME NEW n \in Nodes, \A j \in Nodes : n < j => j \in S PROVE n \in S
  <2> SUFFICES ASSUME n \in T, first[n] # 0 PROVE first[n] \in PPOs \cap T /\ m[2][first[n]] # bad[first[n]]
    OBVIOUS
  <2>1. CASE n \in PPOs /\ m[2][n] # bad[n]
    BY <1>9, <2>1
  <2>2. CASE ~ (n \in PPOs /\ m[2][n] # bad[n])
    <3>1. AtOutput(first, n) # {} /\ first[n] = first[engine.fanout[n][Min(AtOutput(first, n))]]
      BY <1>9, <2>2
    <3>2. PICK x \in T : x \in Nodes /\ n < x /\ first[n] = first[x]
      BY <1>2, <1>5, <1>10, <3>1
    <3> QED BY <1>11, <3>2
  <2> QED BY <2>1, <2>2
<1>12. Nodes \subseteq S
  <2> HIDE DEF S
  <2> QED BY <1>1, <1>11, C!DownInduction
\* Where nothing is found nothing can be.
<1> DEFINE Z == {n \in Nodes : first[n] = 0}
<1>13. \A n \in Z : /\ ~ (n \in PPOs /\ m[2][n] # bad[n])
                    /\ \A k \in DOMAIN engine.fanout[n] : engine.fanout[n][k] \in Z
  <2> SUFFICES ASSUME NEW n \in Z
               PROVE  /\ ~ (n \in PPOs /\ m[2][n] # bad[n])
                      /\ \A k \in DOMAIN engine.fanout[n] : engine.fanout[n][k] \in Z
    OBVIOUS
  <2>1. ~ (n \in PPOs /\ m[2][n] # bad[n])
    BY <1>1, <1>9
  <2>2. AtOutput(first, n) = {}
    <3> SUFFICES ASSUME AtOutput(first, n) # {} PROVE FALSE
      OBVIOUS
    <3>1. first[engine.fanout[n][Min(AtOutput(first, n))]] # 0
      BY <1>5
    <3> QED BY <1>9, <2>1, <3>1
  <2> QED BY <1>2, <2>1, <2>2
<1>14. first[o] # 0
  <2> SUFFICES ASSUME first[o] = 0 PROVE FALSE
    OBVIOUS
  <2>1. o \in Z /\ \A n \in Z \cap C!Nodes : C!FanoutSet(n) \subseteq Z
    BY <1>13 DEF C!FanoutSet
  <2>2. T \subseteq Z
    <3> HIDE DEF Z
    <3>1. {o} \subseteq C!Nodes /\ {o} \subseteq Z
      BY <2>1, SameOperators
    <3> QED BY <1>1, <2>1, <3>1, C!TfoFacts DEF T
  <2> QED BY <1>13, <2>2 DEF T
<1>15. o \in T
  BY <1>1, SameOperators, C!ConeFacts DEF T
<1> QED BY <1>8, <1>12, <1>14, <1>15 DEF T

\* A fanin that blocks the difference lies outside of the cone.
LEMMA BlockerIs ==
  ASSUME engine \in Engines, NEW m, NEW bad, NEW cone, NEW n \in Nodes, Blocker(m, bad, cone, n) # 0
  PROVE  /\ Blocker(m, bad, cone, n) \in FaninSet(n) \ cone
         /\ m[2][Blocker(m, bad, cone, n)] = ControlValue(engine.gate[n].type)
<1> DEFINE fanin == engine.gate[n].fanin
           N == Len(fanin)
           Differs(k) == fanin[k] \in cone /\ ValAt(m, fanin[k], 1) # bad[fanin[k]]
           Controls(k) == fanin[k] \notin cone
                          /\ ValAt(m, fanin[k], 1) = ControlValue(engine.gate[n].type)
           seen == {k \in DOMAIN fanin : (\E i \in 1 .. k : Differs(i)) /\ (\E i \in 1 .. k : Controls(i))}
           last == Max({k \in 1 .. Min(seen) : Controls(k)})
<1>1. N \in Nat /\ DOMAIN fanin = 1 .. N
  <2>1. n \in C!Nodes
    BY SameOperators
  <2> QED BY <2>1, EngineIs, C!FaninFacts
<1>2. seen # {} /\ Blocker(m, bad, cone, n) = fanin[last]
  BY Zenon DEF Blocker
<1>3. Min(seen) \in seen
  <2>1. seen \subseteq Nat
    BY <1>1
  <2> HIDE DEF seen
  <2> QED BY <1>2, <2>1, LeastIs
<1>4. Min(seen) \in 1 .. N /\ \E i \in 1 .. Min(seen) : Controls(i)
  BY <1>1, <1>3
<1> DEFINE least == Min(seen)
<1>5. last \in {k \in 1 .. least : Controls(k)}
  <2>1. least \in Nat /\ {k \in 1 .. least : Controls(k)} \subseteq 1 .. least /\ {k \in 1 .. least : Controls(k)} # {}
    <3> HIDE DEF Controls, seen
    <3> QED BY <1>1, <1>4
  <2>2. last = Max({k \in 1 .. least : Controls(k)})
    OBVIOUS
  <2> HIDE DEF least, Controls, last
  <2> QED BY <2>1, <2>2, GreatestIs
<1>6. last \in 1 .. N /\ Controls(last)
  <2> HIDE DEF last, seen, Controls
  <2> QED BY <1>1, <1>4, <1>5
<1> HIDE DEF last
<1> QED BY <1>1, <1>2, <1>6 DEF FaninSet, ValAt

\* The nodes that Extract() records.
RecordedBy(m, f, bad, cone, g) ==
  [k \in 0 .. Len(engine.gate) |->
     IF k = 0 THEN {Spo(m, bad, Origin(f))}
     ELSE LET rest == g[k - 1]
              n == Len(engine.gate) + 1 - k
          IN  rest \cup IF n \in rest THEN Followed(m, bad, cone, n) ELSE {}]

(* What a condition records keeps the difference on its way to an output.   *)
LEMMA ExtractIs ==
  ASSUME engine \in Engines, NEW f \in Faults, NEW m \in GoodModels,
         NEW p \in PPOs, m[2][p] # FaultyValues(m, Origin(f))[p]
  PROVE  \E R, side : /\ C!Sensitised(R, side, Origin(f), m[2]) /\ side \subseteq Nodes
                      /\ \E q \in R \cap PPOs : m[2][q] # FaultyValues(m, Origin(f))[q]
                      /\ Extract(m, f) = {Assign(i, 1, m[2][i]) : i \in side}
<1> DEFINE o == Origin(f)
           bad == FaultyValues(m, o)
           cone == Fcone(f)
           q == Spo(m, bad, o)
           N == Len(engine.gate)
           at == [k \in 1 .. N |-> N + 1 - k]
           next == [n \in Nodes |-> Followed(m, bad, cone, n)]
           s == CHOOSE g : g = RecordedBy(m, f, bad, cone, g)
           R == s[N]
           side == UNION {SideInputs(m, bad, cone, n) : n \in R}
<1>1. /\ C!Proper /\ N \in Nat /\ Nodes = 1 .. N /\ o \in Nodes /\ C!Nodes = Nodes
      /\ cone = C!Tfo({o}) /\ cone \subseteq Nodes
  BY EngineIs, C!NodesAre, SameOperators, FaultIs, FconeIs
<1>2. q \in PPOs \cap cone /\ m[2][q] # bad[q]
  <2>1. p \in PPOs \cap C!Tfo({o})
    <3>1. p \in Nodes
      BY DEF PPOs, Nodes
    <3> QED BY <1>1, <3>1, FconeIs
  <2> HIDE DEF bad, o
  <2>2. m[2][p] # bad[p]
    BY DEF bad, o
  <2> QED BY <1>1, <2>1, <2>2, SpoIs
<1> HIDE DEF q
<1>3. \A n \in Nodes : Followed(m, bad, cone, n) \subseteq FaninSet(n) \cap cone
  BY DEF Followed
<1>4. C!IsSweep(N, Nodes, {q}, at, next)
  <2>1. next \in [Nodes -> SUBSET Nodes] /\ \A n \in Nodes : next[n] \subseteq C!FaninSet(n)
    BY <1>1, <1>3, SameOperators
  <2> HIDE DEF next
  <2>2. {q} \subseteq Nodes
    BY <1>1, <1>2
  <2>3. \A S : S \subseteq Nodes => C!IsSweep(N, Nodes, S, at, next)
    BY <1>1, <2>1, C!DownSweep
  <2> QED BY <2>2, <2>3
<1>5. \A g : RecordedBy(m, f, bad, cone, g) = C!Sweeps(N, {q}, at, next, g)
  <2> SUFFICES ASSUME NEW g PROVE RecordedBy(m, f, bad, cone, g) = C!Sweeps(N, {q}, at, next, g)
    OBVIOUS
  <2>1. \A k \in 0 .. N : k # 0 => /\ at[k] = N + 1 - k
                                   /\ next[at[k]] = Followed(m, bad, cone, N + 1 - k)
    BY <1>1
  <2> HIDE DEF at, next
  <2> QED BY <2>1 DEF RecordedBy, C!Sweeps, q
<1>6. \E g : g = RecordedBy(m, f, bad, cone, g)
  <2> HIDE DEF at, next, o, bad, cone, N
  <2>1. \E g : g = C!Sweeps(N, {q}, at, next, g)
    BY <1>4, C!SweepExists
  <2> QED BY <1>5, <2>1
<1>7. s = C!Sweeps(N, {q}, at, next, s)
  <2>1. s = RecordedBy(m, f, bad, cone, s)
    BY <1>6
  <2> HIDE DEF s, at, next
  <2> QED BY <1>5, <2>1
<1>8. Extract(m, f) = UNION {{Assign(i, 1, ValAt(m, i, 1)) : i \in SideInputs(m, bad, cone, n)} : n \in R}
  BY Zenon DEF Extract, RecordedBy
<1> HIDE DEF s
<1>9. /\ {q} \subseteq R /\ R \subseteq Nodes /\ C!Closed(R, next)
      /\ \A T : {q} \subseteq T /\ C!Closed(T, next) => R \subseteq T
  <2> HIDE DEF at, next, N, o, bad, cone
  <2>1. \A n, S, t, h, g : C!IsSweep(n, Nodes, S, t, h) /\ g = C!Sweeps(n, S, t, h, g) =>
          /\ S \subseteq g[n] /\ g[n] \subseteq Nodes /\ C!Closed(g[n], h)
          /\ \A T : S \subseteq T /\ C!Closed(T, h) => g[n] \subseteq T
    BY C!SweepCollects
  <2> QED BY <1>4, <1>7, <2>1
<1>10. R \subseteq cone
  <2>1. C!Closed(cone, next)
    BY <1>1, <1>3 DEF C!Closed
  <2>2. {q} \subseteq cone
    BY <1>2
  <2> HIDE DEF R, next, cone
  <2> QED BY <1>9, <2>1, <2>2
<1>11. \A n \in R : Followed(m, bad, cone, n) \subseteq R
  BY <1>9 DEF C!Closed
<1> HIDE DEF R, next, at
<1>12. side \subseteq Nodes /\ \A n \in R : SideInputs(m, bad, cone, n) \subseteq side
  <2>1. \A n \in Nodes : SideInputs(m, bad, cone, n) \subseteq FaninSet(n)
    BY BlockerIs DEF SideInputs
  <2>2. \A n \in Nodes : FaninSet(n) \subseteq Nodes
    BY <1>1, C!FaninFacts, SameOperators DEF FaninSet
  <2> QED BY <1>9, <2>1, <2>2
<1>13. C!Sensitised(R, side, o, m[2])
  <2> HIDE DEF side, cone, bad, o
  <2> SUFFICES ASSUME NEW n \in R
               PROVE  \/ \A i \in FaninSet(n) : IF i \in cone THEN i \in R ELSE i \in side
                      \/ \E i \in FaninSet(n) : /\ i \notin cone /\ i \in side
                                                /\ m[2][i] = ControlValue(engine.gate[n].type)
    BY <1>1, <1>10, SameOperators DEF C!Sensitised
  <2>1. CASE Blocker(m, bad, cone, n) = 0
    <3>1. Followed(m, bad, cone, n) = FaninSet(n) \cap cone /\ SideInputs(m, bad, cone, n) = FaninSet(n) \ cone
      BY <2>1 DEF Followed, SideInputs
    <3> QED BY <1>11, <1>12, <3>1
  <2>2. CASE Blocker(m, bad, cone, n) # 0
    <3>1. SideInputs(m, bad, cone, n) = {Blocker(m, bad, cone, n)}
      BY <2>2 DEF SideInputs
    <3>2. n \in Nodes
      BY <1>9
    <3> QED BY <2>2, <1>12, <3>1, <3>2, BlockerIs
  <2> QED BY <2>1, <2>2
<1>14. Extract(m, f) = {Assign(i, 1, m[2][i]) : i \in side}
  BY <1>8 DEF ValAt
<1>15. q \in R \cap PPOs /\ m[2][q] # bad[q]
  BY <1>2, <1>9
<1> HIDE DEF side
<1> QED BY <1>12, <1>13, <1>14, <1>15

LEMMA HoldsUnion ==
  ASSUME NEW m, NEW c, NEW d
  PROVE  Holds(m, c \cup d) <=> Holds(m, c) /\ Holds(m, d)
  BY DEF Holds

\* A list of values of the second cycle.
LEMMA HoldsValues ==
  ASSUME NEW m, NEW w, NEW side
  PROVE  Holds(w, {Assign(i, 1, m[2][i]) : i \in side}) <=> \A i \in side : w[2][i] = m[2][i]
<1> DEFINE a(i) == Assign(i, 1, m[2][i])
<1>1. \A i : a(i).node = i /\ a(i).time = 1 /\ a(i).val = m[2][i]
  BY DEF Assign
<1>2. \A n : ValAt(w, n, 1) = w[2][n]
  BY DEF ValAt
<1> HIDE DEF a
<1>3. Holds(w, {a(i) : i \in side}) <=> \A i \in side : ValAt(w, a(i).node, a(i).time) = a(i).val
  BY Zenon DEF Holds
<1>4. Holds(w, {a(i) : i \in side}) <=> \A i \in side : w[2][i] = m[2][i]
  BY <1>1, <1>2, <1>3
<1> QED BY <1>4 DEF a

(* A difference at an output in m that is swapped in w is seen in w.        *)
LEMMA SwappedDetects ==
  ASSUME engine \in Engines, NEW f \in Faults, NEW m \in GoodModels, NEW w \in GoodModels,
         Holds(w, FfrCondition(f, engine.type)),
         NEW q \in PPOs, m[2][q] # FaultyValues(m, Origin(f))[q],
         C!Swapped(q, Origin(f), m[2], FaultyValues(m, Origin(f)), w[2], FaultyValues(w, Origin(f)))
  PROVE  Detects(w, f)
<1>1. w[2][q] # FaultyValues(w, Origin(f))[q]
  BY C!SwappedDiffers
<1> QED BY <1>1, DetectsIs

(* What Extractor finds in a model suffices for the fault.                   *)
LEMMA ExtractSuffices ==
  ASSUME engine \in Engines, NEW f \in Faults, NEW m \in GoodModels, Detects(m, f)
  PROVE  /\ Holds(m, Extract(m, f) \cup FfrCondition(f, engine.type))
         /\ Suffices(Extract(m, f) \cup FfrCondition(f, engine.type), f)
<1> DEFINE o == Origin(f)
           v == m[2]
           u == FaultyValues(m, o)
<1>1. PICK p \in PPOs : v[p] # u[p]
  BY DetectsIs
<1>2. PICK R, side : /\ C!Sensitised(R, side, o, v) /\ side \subseteq Nodes
                     /\ \E q \in R \cap PPOs : v[q] # u[q]
                     /\ Extract(m, f) = {Assign(i, 1, v[i]) : i \in side}
  BY <1>1, ExtractIs
<1>3. Holds(m, Extract(m, f) \cup FfrCondition(f, engine.type))
  BY <1>2, DetectsIs, HoldsUnion, HoldsValues
<1>4. ASSUME NEW w \in GoodModels, Holds(w, Extract(m, f) \cup FfrCondition(f, engine.type))
      PROVE  Detects(w, f)
  <2>1. Holds(w, FfrCondition(f, engine.type)) /\ \A i \in side : w[2][i] = v[i]
    <3>1. Holds(w, FfrCondition(f, engine.type)) /\ Holds(w, Extract(m, f))
      BY <1>4, HoldsUnion
    <3>2. Extract(m, f) = {Assign(i, 1, m[2][i]) : i \in side}
      BY <1>2
    <3>3. Holds(w, {Assign(i, 1, m[2][i]) : i \in side})
      BY <3>1, <3>2
    <3>4. \A i \in side : w[2][i] = m[2][i]
      BY <3>3, HoldsValues
    <3> QED BY <3>1, <3>4
  <2>2. /\ C!Proper /\ o \in C!Nodes /\ C!Sound(v) /\ C!Flipped(u, v, o)
        /\ C!Sound(w[2]) /\ C!Flipped(FaultyValues(w, o), w[2], o)
    BY EngineIs, FaultIs, ModelIs, FaultyValuesIs, SameOperators
  <2>3. \A n \in R : C!Swapped(n, o, v, u, w[2], FaultyValues(w, o))
    <3> HIDE DEF o, u, v
    <3> QED BY <1>2, <2>1, <2>2, C!SensitisedSwaps
  <2>4. PICK q \in R \cap PPOs : v[q] # u[q]
    BY <1>2
  <2>5. C!Swapped(q, o, v, u, w[2], FaultyValues(w, o))
    BY <2>3
  <2> QED BY <2>1, <2>4, <2>5, SwappedDetects
<1> QED BY <1>3, <1>4 DEF Suffices

-----------------------------------------------------------------------------
(* Propagation.                                                            *)

DChainBy(m, bad, d) ==
  [n \in DOMAIN engine.gate |->
     /\ ValAt(m, n, 1) # bad[n]
     /\ n \notin PPOs =>
          /\ \E o \in FanoutSet(n) : d[o]
          /\ Len(engine.fanout[n]) > 1 /\ engine.immDom[n] # 0 => d[engine.immDom[n]]]

LEMMA DChainIs ==
  ASSUME engine \in Engines, NEW m, NEW bad
  PROVE  \A n \in Nodes : DChain(m, bad)[n] <=>
           /\ m[2][n] # bad[n]
           /\ n \notin PPOs =>
                /\ \E o \in FanoutSet(n) : DChain(m, bad)[o]
                /\ Len(engine.fanout[n]) > 1 /\ engine.immDom[n] # 0 => DChain(m, bad)[engine.immDom[n]]
<1> DEFINE N == Len(engine.gate)
           V == BOOLEAN
           G == [g \in [Nodes -> V] |-> DChainBy(m, bad, g)]
           d == CHOOSE g : g = DChainBy(m, bad, g)
           Is(g, n) == /\ ValAt(m, n, 1) # bad[n]
                       /\ n \notin PPOs =>
                            /\ \E o \in FanoutSet(n) : g[o]
                            /\ Len(engine.fanout[n]) > 1 /\ engine.immDom[n] # 0 => g[engine.immDom[n]]
<1>1. C!Proper /\ N \in Nat /\ Nodes = 1 .. N
  BY EngineIs, C!NodesAre, SameOperators
<1>2. \A n \in Nodes : /\ \A o \in FanoutSet(n) : o \in Nodes /\ n < o
                       /\ engine.immDom[n] # 0 => engine.immDom[n] \in Nodes /\ n < engine.immDom[n]
  <2>1. \A n \in Nodes : \A o \in FanoutSet(n) : o \in Nodes /\ n < o
    BY <1>1, C!FanoutFacts, SameOperators
  <2>2. \A n \in Nodes : engine.immDom[n] # 0 => engine.immDom[n] \in Nodes /\ n < engine.immDom[n]
    BY <1>1, EngineIs
  <2> QED BY <2>1, <2>2
<1>3. \A g : \A n \in Nodes : DChainBy(m, bad, g)[n] = Is(g, n)
  BY Zenon DEF DChainBy, Nodes
<1>4. \E g \in [Nodes -> V] : g = G[g]
  <2>1. ASSUME NEW g \in [Nodes -> V] PROVE DChainBy(m, bad, g) \in [Nodes -> V]
    <3>1. DChainBy(m, bad, g) = [n \in Nodes |-> Is(g, n)]
      BY Zenon DEF DChainBy, Nodes
    <3>2. \A n \in Nodes : Is(g, n) \in BOOLEAN
      OBVIOUS
    <3> HIDE DEF Is
    <3> QED BY <3>1, <3>2
  <2>2. ASSUME NEW g \in [Nodes -> V], NEW h \in [Nodes -> V], NEW n \in Nodes,
               \A j \in Nodes : n < j => g[j] = h[j]
        PROVE  DChainBy(m, bad, g)[n] = DChainBy(m, bad, h)[n]
    <3>1. \A o \in FanoutSet(n) : g[o] = h[o]
      BY <1>2, <2>2
    <3>2. engine.immDom[n] # 0 => g[engine.immDom[n]] = h[engine.immDom[n]]
      BY <1>2, <2>2
    <3>3. Is(g, n) = Is(h, n)
      BY <3>1, <3>2, Zenon
    <3> HIDE DEF Is
    <3> QED BY <1>3, <3>3
  <2>3. [Nodes -> V] # {}
    <3>1. [n \in Nodes |-> TRUE] \in [Nodes -> V]
      OBVIOUS
    <3> QED BY <3>1
  <2> HIDE DEF V
  <2>4. G \in [[Nodes -> V] -> [Nodes -> V]]
    BY <2>1
  <2>5. \A g, h \in [Nodes -> V] : \A n \in Nodes :
          (\A j \in Nodes : n < j => g[j] = h[j]) => G[g][n] = G[h][n]
    BY <2>2
  <2> HIDE DEF G
  <2>6. C!DownDependent(N, Nodes, V, G)
    BY <1>1, <2>3, <2>4, <2>5 DEF C!DownDependent
  <2> HIDE DEF N
  <2> QED BY <2>6, C!DownRecursion
<1>5. d = DChainBy(m, bad, d)
  BY <1>4
<1>6. DChain(m, bad) = d
  BY Zenon DEF DChain, DChainBy
<1> HIDE DEF d
<1>7. \A n \in Nodes : d[n] = Is(d, n)
  <2> HIDE DEF Is
  <2> QED BY <1>3, <1>5
<1>8. \A n : ValAt(m, n, 1) = m[2][n]
  BY DEF ValAt
<1> QED BY <1>6, <1>7, <1>8, Zenon

MffcRootBy(g) ==
  [k \in DOMAIN engine.gate |-> IF engine.immDom[k] = 0 THEN k ELSE g[engine.immDom[k]]]

LEMMA ImmDomIs ==
  ASSUME engine \in Engines, NEW n \in Nodes, engine.immDom[n] # 0
  PROVE  engine.immDom[n] \in Nodes /\ n < engine.immDom[n] /\ OnAllWays(engine, engine.immDom[n], n)
<1>1. Len(engine.gate) \in Nat /\ Nodes = 1 .. Len(engine.gate)
  BY EngineIs, C!NodesAre, SameOperators
<1>2. engine.immDom[n] \in n + 1 .. Len(engine.gate) /\ OnAllWays(engine, engine.immDom[n], n)
  BY EngineIs
<1> QED BY <1>1, <1>2

LEMMA MffcRootStep ==
  ASSUME engine \in Engines, NEW n \in Nodes
  PROVE  MffcRoot(n) = IF engine.immDom[n] = 0 THEN n ELSE MffcRoot(engine.immDom[n])
<1> DEFINE N == Len(engine.gate)
           G == [g \in [Nodes -> Nodes] |-> MffcRootBy(g)]
           root == CHOOSE g : g = MffcRootBy(g)
<1>1. N \in Nat /\ Nodes = 1 .. N
  BY EngineIs, C!NodesAre, SameOperators
<1>2. \A g : \A k \in Nodes :
        MffcRootBy(g)[k] = IF engine.immDom[k] = 0 THEN k ELSE g[engine.immDom[k]]
  BY DEF MffcRootBy, Nodes
<1>3. \A k \in Nodes : engine.immDom[k] # 0 => engine.immDom[k] \in Nodes /\ k < engine.immDom[k]
  BY ImmDomIs
<1>4. \E g \in [Nodes -> Nodes] : g = G[g]
  <2>1. ASSUME NEW g \in [Nodes -> Nodes] PROVE MffcRootBy(g) \in [Nodes -> Nodes]
    BY <1>3 DEF MffcRootBy, Nodes
  <2>2. [Nodes -> Nodes] # {}
    <3>1. [k \in Nodes |-> k] \in [Nodes -> Nodes]
      OBVIOUS
    <3> QED BY <3>1
  <2>3. G \in [[Nodes -> Nodes] -> [Nodes -> Nodes]]
    BY <2>1
  <2>4. \A g, h \in [Nodes -> Nodes] : \A k \in Nodes :
          (\A j \in Nodes : k < j => g[j] = h[j]) => G[g][k] = G[h][k]
    BY <1>2, <1>3
  <2> HIDE DEF G
  <2>5. C!DownDependent(N, Nodes, Nodes, G)
    BY <1>1, <2>2, <2>3, <2>4 DEF C!DownDependent
  <2> HIDE DEF N
  <2> QED BY <2>5, C!DownRecursion
<1>5. root = MffcRootBy(root)
  BY <1>4
<1>6. \A k : MffcRoot(k) = root[k]
  BY Zenon DEF MffcRoot, MffcRootBy
<1> HIDE DEF root
<1> QED BY <1>2, <1>5, <1>6

\* A node and the root of its region lie in the same cone.
LEMMA MffcOfRegion ==
  ASSUME engine \in Engines, NEW n \in Nodes
  PROVE  MffcRoot(C!FfrRoot(n)) = MffcRoot(n)
<1> DEFINE N == Len(engine.gate)
           S == {k \in Nodes : MffcRoot(C!FfrRoot(k)) = MffcRoot(k)}
<1>1. C!Proper /\ N \in Nat /\ Nodes = 1 .. N
  BY EngineIs, C!NodesAre, SameOperators
<1>2. ASSUME NEW k \in Nodes, \A j \in Nodes : k < j => j \in S PROVE k \in S
  <2>1. k \in C!Nodes
    BY SameOperators
  <2>2. C!FfrRoot(k) = IF C!SingleFanout(k) THEN C!FfrRoot(engine.fanout[k][1]) ELSE k
    BY <1>1, <2>1, C!FfrRootStep
  <2>3. CASE C!SingleFanout(k)
    <3>1. engine.fanout[k][1] \in Nodes /\ k < engine.fanout[k][1]
      BY <1>1, <2>1, <2>3, C!SingleFanoutIs, SameOperators
    <3>2. engine.immDom[k] = engine.fanout[k][1]
      BY <2>3, EngineIs DEF C!SingleFanout
    <3>3. engine.immDom[k] # 0
      BY <1>1, <3>1, <3>2
    <3>4. MffcRoot(k) = MffcRoot(engine.fanout[k][1])
      BY <3>2, <3>3, MffcRootStep
    <3> QED BY <1>2, <2>2, <2>3, <3>1, <3>4
  <2>4. CASE ~ C!SingleFanout(k)
    BY <2>2, <2>4
  <2> QED BY <2>3, <2>4
<1>3. Nodes \subseteq S
  <2> HIDE DEF S, N
  <2> QED BY <1>1, <1>2, C!DownInduction
<1> QED BY <1>3

(* The solver's clauses on propagation admit the values of a model exactly    *)
(* if an output shows the difference: neither do they let one pass that does  *)
(* not reach an output nor do they refuse one that reaches an output past     *)
(* nodes where it is gone, or past immediate dominators.                      *)
LEMMA PropagatesIs ==
  ASSUME engine \in Engines, NEW f \in Faults, NEW m \in GoodModels
  PROVE  Propagates(m, FaultyValues(m, Origin(f)))
           <=> \E p \in PPOs : m[2][p] # FaultyValues(m, Origin(f))[p]
<1> DEFINE N == Len(engine.gate)
           o == Origin(f)
           v == m[2]
           u == FaultyValues(m, o)
           P == C!Carriers(v, u)
           d == DChain(m, u)
<1>1. /\ C!Proper /\ N \in Nat /\ Nodes = 1 .. N /\ C!Nodes = Nodes
      /\ o \in Nodes /\ PPOs \subseteq Nodes
  BY EngineIs, C!NodesAre, SameOperators, FaultIs DEF PPOs, Nodes
<1>2. ASSUME Propagates(m, u) PROVE \E p \in PPOs : v[p] # u[p]
  BY <1>1, <1>2, DChainIs DEF Propagates
<1>3. ASSUME NEW p \in PPOs, v[p] # u[p] PROVE Propagates(m, u)
  <2>1. C!Sound(v) /\ C!Flipped(u, v, o)
    BY <1>1, ModelIs, FaultyValuesIs
  <2>2. o \in P
    <3> HIDE DEF P, o, u, v
    <3>1. p \in C!PPOs /\ o \in C!Nodes
      BY <1>1, SameOperators
    <3>2. o \in C!Carriers(v, u)
      BY <1>1, <1>3, <2>1, <3>1, C!OriginCarries
    <3> QED BY <3>2 DEF P
  <2>3. C!Carrier(P, v, u)
    <3> HIDE DEF o, u, v
    <3> QED BY C!CarriersCarry
  <2> HIDE DEF P, u
  <2>4. \A n \in P : /\ n \in Nodes /\ v[n] # u[n]
                     /\ n \in PPOs \/ \E x \in FanoutSet(n) : x \in P
    BY <2>3, SameOperators DEF C!Carrier
  \* The dominators of nodes that carry the difference carry it.
  <2>5. ASSUME NEW n \in P, engine.immDom[n] # 0 PROVE engine.immDom[n] \in P
    <3>1. engine.immDom[n] \in Nodes /\ OnAllWays(engine, engine.immDom[n], n)
      BY <2>4, <2>5, ImmDomIs
    <3>2. PICK S \in SUBSET (Nodes \ {engine.immDom[n]}) :
            /\ n \in S
            /\ \A k \in S : /\ engine.gate[k].type \notin PpoTypes
                            /\ \A i \in DOMAIN engine.fanout[k] :
                                 engine.fanout[k][i] \in S \cup {engine.immDom[n]}
      BY <3>1 DEF OnAllWays, Nodes
    <3>3. \A k \in S : k \notin PPOs /\ \A x \in FanoutSet(k) : x \in S \cup {engine.immDom[n]}
      BY <3>2 DEF PPOs, FanoutSet
    <3> DEFINE dom == engine.immDom[n]
    <3>4. n \in S /\ S \subseteq C!Nodes /\ dom \notin S
          /\ \A k \in S : k \notin C!PPOs /\ \A x \in C!FanoutSet(k) : x \in S \cup {dom}
      BY <1>1, <3>2, <3>3, SameOperators
    <3>5. dom \in P
      <4> HIDE DEF dom, v
      <4> QED BY <1>1, <2>3, <3>4, C!CarrierPasses
    <3> QED BY <3>5
  <2>6. \A n \in P : d[n]
    <3> DEFINE S == {n \in Nodes : n \in P => d[n]}
    <3>1. ASSUME NEW n \in Nodes, \A j \in Nodes : n < j => j \in S PROVE n \in S
      <4> SUFFICES ASSUME n \in P PROVE d[n]
        OBVIOUS
      <4>1. n \notin PPOs => \E x \in FanoutSet(n) : d[x]
        <5> SUFFICES ASSUME n \notin PPOs PROVE \E x \in FanoutSet(n) : d[x]
          OBVIOUS
        <5>1. PICK x \in FanoutSet(n) : x \in P
          BY <2>4
        <5>2. x \in Nodes /\ n < x
          <6>1. \A y \in C!FanoutSet(n) : n < y
            BY <1>1, C!FanoutFacts
          <6> QED BY <2>4, <5>1, <6>1, SameOperators
        <5> QED BY <3>1, <5>1, <5>2
      <4>2. engine.immDom[n] # 0 => d[engine.immDom[n]]
        BY <2>5, <3>1, ImmDomIs
      <4> QED BY <2>4, <4>1, <4>2, DChainIs
    <3>2. Nodes \subseteq S
      <4> HIDE DEF S, N
      <4> QED BY <1>1, <3>1, C!DownInduction
    <3> QED BY <2>4, <3>2
  \* So does the root, and it leads to an output.
  <2>7. \A n \in P : MffcRoot(n) \in P
    <3> DEFINE S == {n \in Nodes : n \in P => MffcRoot(n) \in P}
    <3>1. ASSUME NEW n \in Nodes, \A j \in Nodes : n < j => j \in S PROVE n \in S
      <4> SUFFICES ASSUME n \in P PROVE MffcRoot(n) \in P
        OBVIOUS
      <4>1. CASE engine.immDom[n] = 0
        BY <4>1, MffcRootStep
      <4>2. CASE engine.immDom[n] # 0
        BY <2>5, <3>1, <4>2, ImmDomIs, MffcRootStep
      <4> QED BY <4>1, <4>2
    <3>2. Nodes \subseteq S
      <4> HIDE DEF S, N
      <4> QED BY <1>1, <3>1, C!DownInduction
    <3> QED BY <2>4, <3>2
  <2>8. engine.root \in P
    <3>1. CASE engine.class = "DtpgFFR"
      BY <2>2, <3>1, FaultIs
    <3>2. CASE engine.class # "DtpgFFR"
      <4>1. f.node \in Nodes /\ o = C!FfrRoot(f.node) /\ engine.root = MffcRoot(f.node)
        BY <3>2, FaultIs
      <4>2. engine.root = MffcRoot(o)
        BY <4>1, MffcOfRegion
      <4> QED BY <2>2, <2>7, <4>2
    <3> QED BY <3>1, <3>2
  <2>9. PICK y \in P : y \in PPOs /\ y \in Tfo({engine.root})
    <3> DEFINE r == engine.root
    <3>1. \E y \in P : y \in C!PPOs /\ y \in C!Tfo({r})
      <4> HIDE DEF r, v
      <4>1. r \in P
        BY <2>8 DEF r
      <4> QED BY <1>1, <2>3, <4>1, C!CarrierEnds
    <3> QED BY <3>1, SameOperators
  <2> HIDE DEF d
  <2>10. /\ \E x \in PPOs \cap Tfo({engine.root}) : d[x]
         /\ engine.root \in PPOs \/ d[engine.root]
    BY <2>6, <2>8, <2>9
  <2> QED BY <2>10 DEF Propagates, d
<1> HIDE DEF u, v, o
<1> QED BY <1>2, <1>3 DEF u, v, o

(* The solver is asked what it should be: its models detect the fault, and   *)
(* one that does is refused only because of clauses added for other calls.    *)
LEMMA SolutionDetects ==
  ASSUME engine \in Engines, NEW f \in Faults, NEW control, NEW m \in Solutions(f, control)
  PROVE  m \in GoodModels /\ Detects(m, f)
<1>1. m \in GoodModels /\ Holds(m, FfrCondition(f, engine.type)) /\ Propagates(m, FaultyValues(m, Origin(f)))
  BY DEF Solutions
<1> QED BY <1>1, PropagatesIs, DetectsIs

LEMMA DetectedIsSolution ==
  ASSUME engine \in Engines, NEW f \in Faults, \A c \in clauses : c.control # 0,
         NEW m \in GoodModels, Detects(m, f)
  PROVE  m \in Solutions(f, 0)
<1>1. Holds(m, FfrCondition(f, engine.type)) /\ Propagates(m, FaultyValues(m, Origin(f)))
  BY PropagatesIs, DetectsIs
<1> QED BY <1>1 DEF Solutions

-----------------------------------------------------------------------------
(* Justification.                                                          *)

MarksBy(m, S, t, g) ==
  [k \in 0 .. Len(engine.gate) |->
     IF k = 0 THEN {S}
     ELSE LET n == Len(engine.gate) + 1 - k
          IN  UNION {IF n \in rest THEN {rest \cup o : o \in Options(m, n, t)} ELSE {rest} :
                     rest \in g[k - 1]}]

LEMMA OptionsAre ==
  ASSUME NEW m, NEW n, NEW t, NEW o \in Options(m, n, t)
  PROVE  o \subseteq FaninSet(n)
  BY DEF Options

(* The marked nodes: those asked for, and with each an option of its fanins. *)
LEMMA MarkedIs ==
  ASSUME engine \in Engines, NEW m, NEW S, S \subseteq Nodes, NEW t, NEW X \in Marked(m, S, t)
  PROVE  /\ S \subseteq X /\ X \subseteq Nodes
         /\ \A n \in X : \E o \in Options(m, n, t) : o \subseteq X
<1> DEFINE N == Len(engine.gate)
           A == SUBSET (SUBSET Nodes)
           Step(i, a) == UNION {IF N + 1 - i \in rest
                                THEN {rest \cup o : o \in Options(m, N + 1 - i, t)} ELSE {rest} : rest \in a}
           step == [i \in 1 .. N |-> [a \in A |-> Step(i, a)]]
           s == CHOOSE g : g = MarksBy(m, S, t, g)
<1>1. C!Proper /\ N \in Nat /\ Nodes = 1 .. N
  BY EngineIs, C!NodesAre, SameOperators
<1>2. \A n \in Nodes : \A i \in FaninSet(n) : i \in Nodes /\ i < n
  BY <1>1, C!FaninFacts, SameOperators DEF FaninSet
<1>3. \A i \in 1 .. N : N + 1 - i \in Nodes
  BY <1>1
<1>4. \A i \in 1 .. N : \A a : \A Y \in Step(i, a) :
        \E rest \in a : IF N + 1 - i \in rest
                        THEN \E o \in Options(m, N + 1 - i, t) : Y = rest \cup o
                        ELSE Y = rest
  OBVIOUS
<1> HIDE DEF Step
<1>5. ASSUME NEW i \in 1 .. N, NEW a \in A PROVE Step(i, a) \in A
  <2> SUFFICES ASSUME NEW Y \in Step(i, a) PROVE Y \subseteq Nodes
    OBVIOUS
  <2>1. PICK rest \in a : IF N + 1 - i \in rest
                          THEN \E o \in Options(m, N + 1 - i, t) : Y = rest \cup o
                          ELSE Y = rest
    BY <1>4
  <2>2. rest \subseteq Nodes
    OBVIOUS
  <2> QED BY <1>2, <1>3, <2>1, <2>2, OptionsAre
<1>6. C!StepsIn(N, A, {S}, step)
  <2>1. {S} \in A
    OBVIOUS
  <2>2. \A i \in 1 .. N : \A a \in A : step[i][a] \in A
    BY <1>5
  <2> HIDE DEF A, step
  <2> QED BY <1>1, <2>1, <2>2 DEF C!StepsIn
<1>7. PICK g \in [0 .. N -> A] : g = C!Steps(N, {S}, step, g)
  <2> HIDE DEF A, step, N
  <2>1. \A n, B, h, k : C!StepsIn(n, B, h, k) => \E g \in [0 .. n -> B] : g = C!Steps(n, h, k, g)
    BY C!RecursionTo
  <2> QED BY <1>6, <2>1
<1>8. g = MarksBy(m, S, t, g)
  <2>1. \A i \in 1 .. N : i - 1 \in 0 .. N /\ g[i - 1] \in A
    BY <1>1
  <2>2. \A i \in 1 .. N : step[i][g[i - 1]] = Step(i, g[i - 1])
    BY <2>1
  <2>3. \A i \in 0 .. N : i # 0 => i \in 1 .. N
    BY <1>1
  <2> HIDE DEF step, A
  <2>4. C!Steps(N, {S}, step, g) = [i \in 0 .. N |-> IF i = 0 THEN {S} ELSE Step(i, g[i - 1])]
    BY <2>2, <2>3 DEF C!Steps
  <2>5. MarksBy(m, S, t, g) = [i \in 0 .. N |-> IF i = 0 THEN {S} ELSE Step(i, g[i - 1])]
    BY Zenon DEF MarksBy, Step
  <2> QED BY <1>7, <2>4, <2>5
<1>9. s = MarksBy(m, S, t, s)
  BY <1>8
<1>10. Marked(m, S, t) = s[N]
  BY Zenon DEF Marked, MarksBy
<1> HIDE DEF s
<1>11. s[0] = {S} /\ \A i \in 1 .. N : s[i] = Step(i, s[i - 1])
  <2>1. \A i \in 0 .. N : MarksBy(m, S, t, s)[i] = IF i = 0 THEN {S} ELSE Step(i, s[i - 1])
    BY Zenon DEF MarksBy, Step
  <2>2. 0 \in 0 .. N /\ \A i \in 1 .. N : i \in 0 .. N /\ i # 0
    BY <1>1
  <2> QED BY <1>9, <2>1, <2>2
<1> DEFINE Fine(i, Y) == /\ S \subseteq Y /\ Y \subseteq Nodes
                         /\ \A j \in 1 .. i : N + 1 - j \in Y =>
                              \E o \in Options(m, N + 1 - j, t) : o \subseteq Y
           F == {i \in 0 .. N : \A Y \in s[i] : Fine(i, Y)}
<1>12. 0 \in F
  <2>1. Fine(0, S)
    BY <1>1
  <2> HIDE DEF Fine
  <2> QED BY <1>1, <1>11, <2>1
<1>13. ASSUME NEW i \in 1 .. N, i - 1 \in F PROVE i \in F
  <2> SUFFICES ASSUME NEW Y \in s[i] PROVE Fine(i, Y)
    BY <1>1
  <2> DEFINE n == N + 1 - i
  <2>1. PICK rest \in s[i - 1] : IF n \in rest THEN \E o \in Options(m, n, t) : Y = rest \cup o
                                 ELSE Y = rest
    BY <1>4, <1>11
  <2>2. Fine(i - 1, rest)
    BY <1>13
  <2>3. n \in Nodes
    BY <1>3
  <2>4. \A o \in Options(m, n, t) : \A x \in o : x \in Nodes /\ x < n
    BY <1>2, <2>3, OptionsAre
  <2>5. S \subseteq Y /\ Y \subseteq Nodes /\ rest \subseteq Y
    BY <2>1, <2>2, <2>4
  <2>6. ASSUME NEW j \in 1 .. i, N + 1 - j \in Y
        PROVE  \E o \in Options(m, N + 1 - j, t) : o \subseteq Y
    <3>1. N + 1 - j \in rest
      <4>1. \A x : x < n => x # N + 1 - j
        BY <1>1, <2>3
      <4> QED BY <2>1, <2>4, <2>6, <4>1
    <3>2. CASE j = i
      BY <2>1, <2>5, <3>1, <3>2
    <3>3. CASE j # i
      <4>1. j \in 1 .. i - 1
        BY <3>3
      <4> QED BY <2>2, <2>5, <3>1, <4>1
    <3> QED BY <3>2, <3>3
  <2> QED BY <2>5, <2>6
<1>14. 0 .. N \subseteq F
  <2> HIDE DEF F, N
  <2> QED BY <1>1, <1>12, <1>13, C!InductionTo
<1>15. Fine(N, X)
  <2>1. N \in F
    BY <1>1, <1>14
  <2> QED BY <1>10, <2>1
<1>16. \A n \in X : N + 1 - n \in 1 .. N /\ N + 1 - (N + 1 - n) = n
  BY <1>1, <1>15
<1> QED BY <1>15, <1>16

\* In cycle t the marked inputs decide what was asked for.
LEMMA MarkedDecide ==
  ASSUME engine \in Engines, NEW t \in {0, 1}, NEW m, C!Sound(m[t + 1]), NEW w, C!Sound(w[t + 1]),
         NEW S, S \subseteq Nodes, NEW X \in Marked(m, S, t),
         \A n \in X \cap PPIs : ValAt(w, n, t) = ValAt(m, n, t)
  PROVE  \A n \in S : ValAt(w, n, t) = ValAt(m, n, t)
<1> DEFINE v == m[t + 1]
           u == w[t + 1]
<1>1. S \subseteq X /\ X \subseteq Nodes /\ \A n \in X : \E o \in Options(m, n, t) : o \subseteq X
  BY MarkedIs
<1>2. \A n : ValAt(m, n, t) = v[n] /\ ValAt(w, n, t) = u[n]
  BY DEF ValAt
<1>3. C!Justified(X, v)
  <2> SUFFICES ASSUME NEW n \in X
               PROVE  \/ n \in PPIs
                      \/ \E i \in FaninSet(n) \cap X : v[i] = ControlValue(engine.gate[n].type)
                      \/ FaninSet(n) \subseteq X
    <3> HIDE DEF v
    <3> QED BY <1>1, SameOperators DEF C!Justified
  <2>1. PICK o \in Options(m, n, t) : o \subseteq X
    BY <1>1
  <2>2. CASE n \in PPIs
    BY <2>2
  <2>3. CASE n \notin PPIs /\ v[n] = ControlledOutput(engine.gate[n].type)
    <3>1. Options(m, n, t) = {{i} : i \in {j \in FaninSet(n) : v[j] = ControlValue(engine.gate[n].type)}}
      BY <1>2, <2>3 DEF Options
    <3> HIDE DEF v
    <3>2. PICK i \in FaninSet(n) : v[i] = ControlValue(engine.gate[n].type) /\ o = {i}
      BY <2>1, <3>1
    <3> QED BY <2>1, <3>2
  <2>4. CASE n \notin PPIs /\ v[n] # ControlledOutput(engine.gate[n].type)
    <3>1. Options(m, n, t) = {FaninSet(n)}
      BY <1>2, <2>4 DEF Options
    <3> QED BY <2>1, <3>1
  <2> QED BY <2>2, <2>3, <2>4
<1>4. C!Proper /\ C!Sound(v) /\ C!Sound(u) /\ \A n \in X \cap C!PPIs : u[n] = v[n]
  BY <1>2, EngineIs, SameOperators
<1>5. \A n \in X : u[n] = v[n]
  <2> HIDE DEF u, v
  <2> QED BY <1>3, <1>4, C!JustifiedAgree
<1> QED BY <1>1, <1>2, <1>5

LEMMA RecordedHolds ==
  ASSUME NEW m, NEW w, NEW S, NEW t
  PROVE  Holds(w, Recorded(m, S, t)) <=> \A n \in S : ValAt(w, n, t) = ValAt(m, n, t)
<1> DEFINE a(n) == Assign(n, t, ValAt(m, n, t))
<1>1. \A n : a(n).node = n /\ a(n).time = t /\ a(n).val = ValAt(m, n, t)
  BY DEF Assign
<1> HIDE DEF a
<1>2. Holds(w, {a(n) : n \in S}) <=> \A n \in S : ValAt(w, a(n).node, a(n).time) = a(n).val
  BY Zenon DEF Holds
<1>3. Holds(w, {a(n) : n \in S}) <=> \A n \in S : ValAt(w, n, t) = ValAt(m, n, t)
  BY <1>1, <1>2
<1> QED BY <1>3 DEF a, Recorded

\* What a vector is made of.
Vectors == {vec \in Cubes : \A a \in vec : a.node \in PPIs}

LEMMA RecordedIs ==
  ASSUME NEW t \in {0, 1}, NEW m, m[t + 1] \in [Nodes -> Bin], NEW S, S \subseteq PPIs
  PROVE  Recorded(m, S, t) \in Vectors
<1>1. S \subseteq Nodes
  BY DEF PPIs, Nodes
<1>2. \A n \in S : ValAt(m, n, t) \in {"0", "1"}
  BY <1>1 DEF ValAt, Bin
<1> QED BY <1>1, <1>2 DEF Recorded, Vectors, Cubes, Assign, Nodes

(* A justified vector lies in the model and implies the cube it justifies.   *)
LEMMA JustificationIs ==
  ASSUME engine \in Engines, NEW m \in GoodModels, NEW cube \in Cubes, Holds(m, cube),
         ~ TwoCycles => \A a \in cube : a.time = 1,
         NEW vec \in Justifications(m, cube)
  PROVE  /\ vec \in Vectors /\ Holds(m, vec)
         /\ \A w \in GoodModels : Holds(w, vec) => Holds(w, cube)
<1> DEFINE At(t) == {a.node : a \in {b \in cube : b.time = t}}
<1>1. \A a \in cube : a.node \in Nodes /\ a.time \in {0, 1} /\ ValAt(m, a.node, a.time) = a.val
  BY DEF Cubes, Holds, Nodes
<1>2. \A t : At(t) \subseteq Nodes
  BY <1>1
<1>3. \A w : (\A t \in {0, 1} : \A n \in At(t) : ValAt(w, n, t) = ValAt(m, n, t)) => Holds(w, cube)
  <2> SUFFICES ASSUME NEW w, \A t \in {0, 1} : \A n \in At(t) : ValAt(w, n, t) = ValAt(m, n, t),
                      NEW a \in cube
               PROVE  ValAt(w, a.node, a.time) = a.val
    BY DEF Holds
  <2>1. a.node \in At(a.time) /\ a.time \in {0, 1}
    BY <1>1
  <2> HIDE DEF At
  <2> QED BY <1>1, <2>1
<1>4. m[1] \in [Nodes -> Bin] /\ m[2] \in [Nodes -> Bin]
  BY ModelIs
<1>5. \A w \in GoodModels : \A t \in {0, 1} : C!Sound(w[t + 1])
  BY ModelIs
<1>6. PrimaryInputs \subseteq PPIs
  BY DEF PrimaryInputs
<1>7. \A S : /\ S \subseteq PPIs => Recorded(m, S, 0) \in Vectors /\ Recorded(m, S, 1) \in Vectors
             /\ Holds(m, Recorded(m, S, 0)) /\ Holds(m, Recorded(m, S, 1))
  BY <1>4, RecordedIs, RecordedHolds
<1>8. CASE ~ TwoCycles
  <2>1. PICK now \in Marked(m, At(1), 1) : vec = Recorded(m, now \cap PPIs, 1)
    BY <1>8 DEF Justifications
  <2>2. At(0) = {}
    BY <1>8
  <2> HIDE DEF At
  <2>3. ASSUME NEW w \in GoodModels, Holds(w, vec) PROVE Holds(w, cube)
    <3>1. \A n \in now \cap PPIs : ValAt(w, n, 1) = ValAt(m, n, 1)
      BY <2>1, <2>3, RecordedHolds
    <3>2. \A n \in At(1) : ValAt(w, n, 1) = ValAt(m, n, 1)
      BY <1>2, <1>5, <2>1, <3>1, MarkedDecide
    <3> QED BY <1>3, <2>2, <3>2
  <2> QED BY <1>7, <2>1, <2>3
<1>9. CASE TwoCycles
  <2> DEFINE Before(now) == At(0) \cup {engine.dff[n] : n \in (now \cap PPIs) \ PrimaryInputs}
  <2>0. PICK now \in Marked(m, At(1), 1) : \E before \in Marked(m, Before(now), 0) :
          vec = Recorded(m, now \cap PrimaryInputs, 1) \cup Recorded(m, before \cap PPIs, 0)
    BY <1>9, Zenon DEF Justifications
  <2>1. PICK before \in Marked(m, Before(now), 0) :
          vec = Recorded(m, now \cap PrimaryInputs, 1) \cup Recorded(m, before \cap PPIs, 0)
    BY <2>0
  <2>2. \A w \in GoodModels : \A n \in PPIs \ PrimaryInputs :
          engine.dff[n] \in Nodes /\ ValAt(w, n, 1) = ValAt(w, engine.dff[n], 0)
    BY <1>9, ModelIs DEF ValAt
  <2>3. Before(now) \subseteq Nodes
    BY <1>2, <2>2
  <2> HIDE DEF At
  <2>4. ASSUME NEW w \in GoodModels, Holds(w, vec) PROVE Holds(w, cube)
    <3>1. /\ \A n \in now \cap PrimaryInputs : ValAt(w, n, 1) = ValAt(m, n, 1)
          /\ \A n \in before \cap PPIs : ValAt(w, n, 0) = ValAt(m, n, 0)
      <4>1. /\ Holds(w, Recorded(m, now \cap PrimaryInputs, 1))
            /\ Holds(w, Recorded(m, before \cap PPIs, 0))
        BY <2>1, <2>4, HoldsUnion
      <4> QED BY <4>1, RecordedHolds
    <3>2. \A n \in Before(now) : ValAt(w, n, 0) = ValAt(m, n, 0)
      <4> HIDE DEF Before
      <4> QED BY <1>5, <2>1, <2>3, <3>1, MarkedDecide
    <3>3. \A n \in now \cap PPIs : ValAt(w, n, 1) = ValAt(m, n, 1)
      <4>1. \A n \in (now \cap PPIs) \ PrimaryInputs : engine.dff[n] \in Before(now)
        OBVIOUS
      <4> HIDE DEF Before
      <4> QED BY <2>2, <3>1, <3>2, <4>1
    <3>4. \A n \in At(1) : ValAt(w, n, 1) = ValAt(m, n, 1)
      BY <1>2, <1>5, <2>1, <3>3, MarkedDecide
    <3>5. \A n \in At(0) : ValAt(w, n, 0) = ValAt(m, n, 0)
      BY <3>2
    <3> QED BY <1>3, <3>4, <3>5
  <2>5. vec \in Vectors
    <3>1. Recorded(m, now \cap PrimaryInputs, 1) \in Vectors /\ Recorded(m, before \cap PPIs, 0) \in Vectors
      BY <1>6, <1>7
    <3>2. \A c, d : c \in Vectors /\ d \in Vectors => c \cup d \in Vectors
      BY DEF Vectors, Cubes
    <3> QED BY <2>1, <3>1, <3>2
  <2>6. Holds(m, vec)
    BY <1>7, <2>1, HoldsUnion
  <2> QED BY <2>4, <2>5, <2>6
<1> QED BY <1>8, <1>9

(* What a call computes from a model of the solver.                         *)
LEMMA VectorSuffices ==
  ASSUME engine \in Engines, NEW f \in Faults, NEW control, NEW m \in Solutions(f, control)
  PROVE  LET cube == Extract(m, f) \cup FfrCondition(f, engine.type)
         IN  /\ cube \in Cubes /\ Suffices(cube, f)
             /\ \A vec \in Justifications(m, cube) : vec \in Vectors /\ Holds(m, vec) /\ Suffices(vec, f)
<1> DEFINE cube == Extract(m, f) \cup FfrCondition(f, engine.type)
<1>1. m \in GoodModels /\ Detects(m, f)
  BY SolutionDetects
<1>2. Holds(m, cube) /\ Suffices(cube, f)
  BY <1>1, ExtractSuffices
<1>3. /\ C!FfrCondition(f, engine.type) \subseteq C!Assigns
      /\ \A a \in C!FfrCondition(f, engine.type) : a.time = 1 \/ engine.type = "TD"
  <2>1. C!Proper /\ C!IsFault(f)
    BY EngineIs, FaultIs
  <2>2. \A type : /\ C!FfrCondition(f, type) \subseteq C!Assigns
                  /\ \A a \in C!FfrCondition(f, type) : a.time = 1 \/ type = "TD"
    BY <2>1, C!ConditionType
  <2> QED BY <2>2
<1>4. /\ Extract(m, f) \subseteq C!Assigns
      /\ \A a \in Extract(m, f) : a.time = 1
  <2>1. PICK p \in PPOs : m[2][p] # FaultyValues(m, Origin(f))[p]
    BY <1>1, DetectsIs
  <2>2. PICK side : side \subseteq Nodes /\ Extract(m, f) = {Assign(i, 1, m[2][i]) : i \in side}
    BY <1>1, <2>1, ExtractIs
  <2>3. \A i \in side : m[2][i] \in Bin
    BY <1>1, <2>2, ModelIs
  <2> QED BY <2>2, <2>3, SameOperators DEF C!Assigns, Assign
<1>5. C!Assigns = [node : DOMAIN engine.gate, time : {0, 1}, val : {"0", "1"}]
  BY SameOperators DEF C!Assigns, Nodes, Bin
<1>6. cube \in Cubes /\ (~ TwoCycles => \A a \in cube : a.time = 1)
  BY <1>3, <1>4, <1>5, SameOperators DEF Cubes, TwoCycles
<1> HIDE DEF cube
<1>7. ASSUME NEW vec \in Justifications(m, cube)
      PROVE  vec \in Vectors /\ Holds(m, vec) /\ Suffices(vec, f)
  <2>1. vec \in Vectors /\ Holds(m, vec) /\ \A w \in GoodModels : Holds(w, vec) => Holds(w, cube)
    BY <1>1, <1>2, <1>6, JustificationIs
  <2> QED BY <1>2, <2>1 DEF Suffices
<1>8. /\ cube \in Cubes /\ Suffices(cube, f)
      /\ \A vec \in Justifications(m, cube) : vec \in Vectors /\ Holds(m, vec) /\ Suffices(vec, f)
  BY <1>2, <1>6, <1>7
<1> QED BY <1>8 DEF cube

-----------------------------------------------------------------------------
(* Expressions.                                                            *)

ExprBy(m, bad, cone, e) ==
  [n \in DOMAIN engine.gate |->
     IF n \notin cone THEN Literal(m, n)
     ELSE IF ValAt(m, n, 1) = bad[n] /\ Controlling(m, bad, n) # {}
     THEN UNION {e[i] : i \in Controlling(m, bad, n)}
     ELSE Conjunction(e, engine.gate[n].fanin)]

\* A cube of a conjunction contains one of each of its operands.
LEMMA ConjunctionIs ==
  ASSUME NEW e, NEW nodes, NEW cube \in Conjunction(e, nodes)
  PROVE  /\ \A k \in DOMAIN nodes : \E c \in e[nodes[k]] : c \subseteq cube
         /\ \A a \in cube : \E k \in DOMAIN nodes : \E c \in e[nodes[k]] : a \in c
<1>1. PICK c \in [DOMAIN nodes -> UNION {e[nodes[k]] : k \in DOMAIN nodes}] :
        (\A k \in DOMAIN nodes : c[k] \in e[nodes[k]]) /\ cube = UNION {c[k] : k \in DOMAIN nodes}
  BY DEF Conjunction
<1> QED BY <1>1

\* It depends on the expressions of its operands only.
LEMMA ConjunctionDepends ==
  ASSUME NEW e, NEW e2, NEW nodes, \A k \in DOMAIN nodes : e[nodes[k]] = e2[nodes[k]]
  PROVE  Conjunction(e, nodes) = Conjunction(e2, nodes)
<1>1. {e[nodes[k]] : k \in DOMAIN nodes} = {e2[nodes[k]] : k \in DOMAIN nodes}
  OBVIOUS
<1>2. \A c : (\A k \in DOMAIN nodes : c[k] \in e[nodes[k]]) <=> (\A k \in DOMAIN nodes : c[k] \in e2[nodes[k]])
  OBVIOUS
<1> QED BY <1>1, <1>2, Zenon DEF Conjunction

LEMMA ExprIs ==
  ASSUME engine \in Engines, NEW f \in Faults, NEW m \in GoodModels
  PROVE  LET bad == FaultyValues(m, Origin(f))
         IN  \E e \in [Nodes -> SUBSET Cubes] :
               /\ \A n \in Nodes :
                    e[n] = IF n \notin Fcone(f) THEN Literal(m, n)
                           ELSE IF ValAt(m, n, 1) = bad[n] /\ Controlling(m, bad, n) # {}
                           THEN UNION {e[i] : i \in Controlling(m, bad, n)}
                           ELSE Conjunction(e, engine.gate[n].fanin)
               /\ ExtractAll(m, f) = UNION {e[o] : o \in {p \in PPOs \cap Fcone(f) : ValAt(m, p, 1) # bad[p]}}
<1> DEFINE N == Len(engine.gate)
           V == SUBSET Cubes
           bad == FaultyValues(m, Origin(f))
           cone == Fcone(f)
           G == [g \in [Nodes -> V] |-> ExprBy(m, bad, cone, g)]
           e == CHOOSE g : g = ExprBy(m, bad, cone, g)
           Is(g, n) == IF n \notin cone THEN Literal(m, n)
                       ELSE IF ValAt(m, n, 1) = bad[n] /\ Controlling(m, bad, n) # {}
                       THEN UNION {g[i] : i \in Controlling(m, bad, n)}
                       ELSE Conjunction(g, engine.gate[n].fanin)
<1>1. C!Proper /\ N \in Nat /\ Nodes = 1 .. N
  BY EngineIs, C!NodesAre, SameOperators
<1>2. \A n \in Nodes : \A k \in DOMAIN engine.gate[n].fanin :
        engine.gate[n].fanin[k] \in Nodes /\ engine.gate[n].fanin[k] < n
  BY <1>1, C!FaninFacts, SameOperators
<1>3. \A n \in Nodes : \A i \in Controlling(m, bad, n) : i \in Nodes /\ i < n
  BY <1>2 DEF Controlling, FaninSet
<1>4. \A n \in Nodes : Literal(m, n) \in V
  <2>1. \A n \in Nodes : ValAt(m, n, 1) \in {"0", "1"}
    BY ModelIs DEF ValAt, Bin
  <2> QED BY <2>1 DEF Literal, Assign, Cubes, Nodes
<1>5. \A g : \A n \in Nodes : ExprBy(m, bad, cone, g)[n] = Is(g, n)
  <2> HIDE DEF bad, cone
  <2> QED BY Zenon DEF ExprBy, Nodes
<1> HIDE DEF bad, cone
<1>6. ASSUME NEW g \in [Nodes -> V], NEW n \in Nodes PROVE Is(g, n) \in V
  <2>1. \A i \in Controlling(m, bad, n) : g[i] \in V
    BY <1>3
  <2>2. UNION {g[i] : i \in Controlling(m, bad, n)} \in V
    BY <2>1
  <2>3. Conjunction(g, engine.gate[n].fanin) \in V
    <3>1. \A k \in DOMAIN engine.gate[n].fanin : g[engine.gate[n].fanin[k]] \subseteq Cubes
      BY <1>2
    <3>2. ASSUME NEW c \in Conjunction(g, engine.gate[n].fanin) PROVE c \in Cubes
      <4>1. \A a \in c : \E d \in Cubes : a \in d
        BY <3>1, ConjunctionIs
      <4> QED BY <4>1 DEF Cubes
    <3> QED BY <3>2
  <2> QED BY <1>4, <2>2, <2>3
<1>7. \E g \in [Nodes -> V] : g = G[g]
  <2>1. ASSUME NEW g \in [Nodes -> V] PROVE ExprBy(m, bad, cone, g) \in [Nodes -> V]
    <3>1. \A n \in Nodes : ExprBy(m, bad, cone, g)[n] \in V
      <4> HIDE DEF V, Is
      <4> QED BY <1>5, <1>6
    <3>2. ExprBy(m, bad, cone, g) = [n \in Nodes |-> ExprBy(m, bad, cone, g)[n]]
      BY DEF ExprBy, Nodes
    <3> HIDE DEF V
    <3> QED BY <3>1, <3>2
  <2>2. ASSUME NEW g \in [Nodes -> V], NEW h \in [Nodes -> V], NEW n \in Nodes,
               \A j \in Nodes : j < n => g[j] = h[j]
        PROVE  ExprBy(m, bad, cone, g)[n] = ExprBy(m, bad, cone, h)[n]
    <3>1. \A i \in Controlling(m, bad, n) : g[i] = h[i]
      BY <1>3, <2>2
    <3>2. UNION {g[i] : i \in Controlling(m, bad, n)} = UNION {h[i] : i \in Controlling(m, bad, n)}
      BY <3>1
    <3>3. Conjunction(g, engine.gate[n].fanin) = Conjunction(h, engine.gate[n].fanin)
      <4>1. \A k \in DOMAIN engine.gate[n].fanin : g[engine.gate[n].fanin[k]] = h[engine.gate[n].fanin[k]]
        BY <1>2, <2>2
      <4> QED BY <4>1, ConjunctionDepends
    <3>4. Is(g, n) = Is(h, n)
      BY <3>2, <3>3, Zenon
    <3> HIDE DEF Is
    <3> QED BY <1>5, <3>4
  <2>3. [Nodes -> V] # {}
    <3>1. [n \in Nodes |-> {}] \in [Nodes -> V]
      OBVIOUS
    <3> QED BY <3>1
  <2> HIDE DEF V
  <2>4. G \in [[Nodes -> V] -> [Nodes -> V]]
    BY <2>1
  <2>5. \A g, h \in [Nodes -> V] : \A n \in Nodes :
          (\A j \in Nodes : j < n => g[j] = h[j]) => G[g][n] = G[h][n]
    BY <2>2
  <2> HIDE DEF G
  <2>6. C!UpDependent(N, Nodes, V, G)
    BY <1>1, <2>3, <2>4, <2>5 DEF C!UpDependent
  <2> HIDE DEF N
  <2> QED BY <2>6, C!UpRecursion
<1>8. PICK g \in [Nodes -> V] : g = ExprBy(m, bad, cone, g)
  BY <1>7
\* The equation has one solution, the one that is chosen.
<1>9. e = ExprBy(m, bad, cone, e)
  BY <1>8
<1>10. e = g
  <2> DEFINE S == {n \in Nodes : e[n] = g[n]}
  <2> HIDE DEF e
  <2>1. ASSUME NEW n \in Nodes, \A j \in Nodes : j < n => j \in S PROVE n \in S
    <3>1. \A i \in Controlling(m, bad, n) : g[i] = e[i]
      BY <1>3, <2>1
    <3>2. UNION {g[i] : i \in Controlling(m, bad, n)} = UNION {e[i] : i \in Controlling(m, bad, n)}
      BY <3>1
    <3>3. Conjunction(g, engine.gate[n].fanin) = Conjunction(e, engine.gate[n].fanin)
      <4>1. \A k \in DOMAIN engine.gate[n].fanin : g[engine.gate[n].fanin[k]] = e[engine.gate[n].fanin[k]]
        BY <1>2, <2>1
      <4> QED BY <4>1, ConjunctionDepends
    <3>4. Is(g, n) = Is(e, n)
      BY <3>2, <3>3, Zenon
    <3> HIDE DEF Is
    <3> QED BY <1>5, <1>8, <1>9, <3>4
  <2>2. Nodes \subseteq S
    <3> HIDE DEF S, N
    <3> QED BY <1>1, <2>1, C!UpInduction
  <2>3. e = [n \in Nodes |-> e[n]]
    BY <1>9 DEF ExprBy, Nodes
  <2> QED BY <2>2, <2>3
<1>11. ExtractAll(m, f) = UNION {e[o] : o \in {p \in PPOs \cap cone : ValAt(m, p, 1) # bad[p]}}
  BY Zenon DEF ExtractAll, ExprBy, bad, cone
<1> HIDE DEF e
<1>12. \A n \in Nodes : e[n] = Is(e, n)
  <2> HIDE DEF Is
  <2> QED BY <1>5, <1>9
<1>13. e \in [Nodes -> SUBSET Cubes]
  BY <1>8, <1>10
<1> QED BY <1>11, <1>12, <1>13, Zenon DEF bad, cone

LEMMA LiteralHolds ==
  ASSUME NEW m, NEW w, NEW n, NEW cube \in Literal(m, n), Holds(w, cube)
  PROVE  w[2][n] = m[2][n]
<1>1. cube = {Assign(n, 1, ValAt(m, n, 1))}
  BY DEF Literal
<1> QED BY <1>1 DEF Holds, Assign, ValAt

(* Each cube of the expression of a model suffices, with the condition of    *)
(* the region, for the fault.                                                *)
LEMMA ExpressionSuffices ==
  ASSUME engine \in Engines, NEW f \in Faults, NEW m \in GoodModels, NEW cube \in ExtractAll(m, f)
  PROVE  cube \in Cubes /\ Suffices(cube \cup FfrCondition(f, engine.type), f)
<1> DEFINE o == Origin(f)
           v == m[2]
           bad == FaultyValues(m, o)
           cone == Fcone(f)
<1>1. PICK e \in [Nodes -> SUBSET Cubes] :
        /\ \A n \in Nodes :
             e[n] = IF n \notin cone THEN Literal(m, n)
                    ELSE IF ValAt(m, n, 1) = bad[n] /\ Controlling(m, bad, n) # {}
                    THEN UNION {e[i] : i \in Controlling(m, bad, n)}
                    ELSE Conjunction(e, engine.gate[n].fanin)
        /\ ExtractAll(m, f) = UNION {e[p] : p \in {q \in PPOs \cap cone : ValAt(m, q, 1) # bad[q]}}
  BY ExprIs
<1>2. PICK q \in PPOs \cap cone : v[q] # bad[q] /\ cube \in e[q]
  BY <1>1 DEF ValAt
<1>3. q \in Nodes /\ cube \in Cubes
  BY <1>1, <1>2 DEF PPOs, Nodes
<1>4. /\ C!Proper /\ C!Nodes = Nodes /\ C!PPIs = PPIs /\ o \in Nodes /\ C!Sound(v) /\ C!Flipped(bad, v, o)
      /\ cone = C!Tfo({o}) /\ cone \subseteq Nodes
      /\ Len(engine.gate) \in Nat /\ Nodes = 1 .. Len(engine.gate)
  BY EngineIs, C!NodesAre, FaultIs, ModelIs, FaultyValuesIs, FconeIs, SameOperators
<1>5. \A n \in Nodes : \A i \in FaninSet(n) : i \in Nodes /\ i < n
  BY <1>4, C!FaninFacts, SameOperators DEF FaninSet
<1>6. ASSUME NEW w \in GoodModels, Holds(w, cube \cup FfrCondition(f, engine.type)) PROVE Detects(w, f)
  <2> DEFINE x == FaultyValues(w, o)
             u == w[2]
             S == {n \in Nodes : \A c \in e[n] : Holds(w, c) => C!Swapped(n, o, v, bad, u, x)}
  <2>1. C!Sound(u) /\ C!Flipped(x, u, o)
    BY <1>4, ModelIs, FaultyValuesIs
  <2>2. ASSUME NEW n \in Nodes, \A j \in Nodes : j < n => j \in S PROVE n \in S
    <3> SUFFICES ASSUME NEW c \in e[n], Holds(w, c) PROVE C!Swapped(n, o, v, bad, u, x)
      OBVIOUS
    <3>1. ASSUME NEW i \in FaninSet(n), NEW d \in e[i], d \subseteq c PROVE C!Swapped(i, o, v, bad, u, x)
      <4>1. Holds(w, d)
        BY <3>1 DEF Holds
      <4>2. i \in S
        BY <1>5, <2>2
      <4> QED BY <4>1, <4>2
    <3>2. CASE n \notin cone
      <4>1. u[n] = v[n]
        BY <1>1, <3>2, LiteralHolds
      <4> HIDE DEF u, v, x, bad, o, cone
      <4> QED BY <1>4, <2>1, <3>2, <4>1, C!SwappedOutside
    <3>3. CASE n = o
      <4> HIDE DEF u, v, x, bad, o
      <4> QED BY <1>4, <2>1, <3>3, C!SwappedAtOrigin
    <3>4. CASE n \in cone /\ n # o
      <4>1. n \notin PPIs
        <5> HIDE DEF o, cone
        <5> QED BY <1>4, <3>4, C!ConeFacts
      <4>2. CASE v[n] = bad[n] /\ Controlling(m, bad, n) # {}
        <5>1. PICK i \in Controlling(m, bad, n) : c \in e[i]
          BY <1>1, <3>4, <4>2 DEF ValAt
        <5>2. i \in FaninSet(n) /\ v[i] = bad[i] /\ v[i] = ControlValue(engine.gate[n].type)
          BY DEF Controlling, ValAt
        <5>3. C!Swapped(i, o, v, bad, u, x)
          BY <3>1, <5>1, <5>2
        <5> HIDE DEF u, v, x, bad, o, cone
        <5>4. \E j \in C!FaninSet(n) : /\ C!Swapped(j, o, v, bad, u, x) /\ bad[j] = v[j]
                                       /\ v[j] = C!ControlValue(engine.gate[n].type)
          BY <5>2, <5>3, SameOperators
        <5> QED BY <1>4, <2>1, <3>4, <4>1, <5>4, C!SwappedGate
      <4>3. CASE ~ (v[n] = bad[n] /\ Controlling(m, bad, n) # {})
        <5>1. c \in Conjunction(e, engine.gate[n].fanin)
          BY <1>1, <3>4, <4>3 DEF ValAt
        <5>2. \A k \in DOMAIN engine.gate[n].fanin : \E d \in e[engine.gate[n].fanin[k]] : d \subseteq c
          BY <5>1, ConjunctionIs
        <5>3. \A i \in C!FaninSet(n) : C!Swapped(i, o, v, bad, u, x)
          <6> HIDE DEF u, v, x, bad, o, cone
          <6>1. \A i \in FaninSet(n) : \E d \in e[i] : d \subseteq c
            BY <5>2 DEF FaninSet
          <6> QED BY <3>1, <6>1, SameOperators
        <5> HIDE DEF u, v, x, bad, o, cone
        <5> QED BY <1>4, <2>1, <3>4, <4>1, <5>3, C!SwappedGate
      <4> QED BY <4>2, <4>3
    <3> QED BY <3>2, <3>3, <3>4
  <2>3. Nodes \subseteq S
    <3> HIDE DEF S
    <3> QED BY <1>4, <2>2, C!UpInduction
  <2>4. Holds(w, cube) /\ Holds(w, FfrCondition(f, engine.type))
    BY <1>6, HoldsUnion
  <2>5. C!Swapped(q, o, v, bad, u, x)
    BY <1>2, <1>3, <2>3, <2>4
  <2> QED BY <1>2, <2>4, <2>5, SwappedDetects
<1> QED BY <1>3, <1>6 DEF Suffices

(* A vector that lies within another one holds where that one does.          *)
LEMMA HoldsWithin ==
  ASSUME NEW m, NEW c, NEW d, c \subseteq d, Holds(m, d)
  PROVE  Holds(m, c)
  BY DEF Holds

-----------------------------------------------------------------------------
(* What is said of an engine stays true while the engine is the same.        *)

K(e) == INSTANCE Circuit WITH Gate <- e.gate, Fanout <- e.fanout
MffcRootOf(e, n) ==
  LET root[k \in DOMAIN e.gate] == IF e.immDom[k] = 0 THEN k ELSE root[e.immDom[k]]
  IN  root[n]

GoodModelsOf(e) ==
  LET primary == {n \in K(e)!PPIs : e.gate[n].type = "Input"}
  IN  IF e.type = "TD"
      THEN UNION {LET before == K(e)!Values(in)
                  IN  {<<before, K(e)!Values([n \in K(e)!PPIs |-> IF n \in primary THEN pi[n]
                                                               ELSE before[e.dff[n]]])>> :
                         pi \in [primary -> {"0", "1"}]} : in \in K(e)!Inputs}
      ELSE {<<v, v>> : v \in {K(e)!Values(in) : in \in K(e)!Inputs}}

LEMMA SameNetwork ==
  ASSUME engine' = engine
  PROVE  /\ \A in, f : ValuesUnder(in, f)' = ValuesUnder(in, f)
         /\ \A n : FfrRoot(n)' = FfrRoot(n) /\ MffcRoot(n)' = MffcRoot(n)
         /\ DataNodes' = DataNodes
         /\ \A f, type : FfrCondition(f, type)' = FfrCondition(f, type)
         /\ GoodModels' = GoodModels
<1>1. \A in, f : ValuesUnder(in, f) = K(engine)!ValuesUnder(in, f)
  BY Zenon DEF ValuesUnder, K!ValuesUnder, K!Output, Output, K!PpiTypes, PpiTypes, K!GateTypes, GateTypes,
     K!GateFunction, GateFunction, K!AndOf, AndOf, K!OrOf, OrOf, K!XorOf, XorOf, K!Some, Some,
     K!Complement, Complement, K!Cardinality, Cardinality
<1>2. \A in, f : ValuesUnder(in, f)' = K(engine')!ValuesUnder(in, f)
  BY Zenon DEF ValuesUnder, K!ValuesUnder, K!Output, Output, K!PpiTypes, PpiTypes, K!GateTypes, GateTypes,
     K!GateFunction, GateFunction, K!AndOf, AndOf, K!OrOf, OrOf, K!XorOf, XorOf, K!Some, Some,
     K!Complement, Complement, K!Cardinality, Cardinality
<1>3. \A n : FfrRoot(n) = K(engine)!FfrRoot(n) /\ FfrRoot(n)' = K(engine')!FfrRoot(n)
  BY Zenon DEF K!FfrRoot, FfrRoot
<1>4. \A n : MffcRoot(n) = MffcRootOf(engine, n) /\ MffcRoot(n)' = MffcRootOf(engine', n)
  BY Zenon DEF MffcRoot, MffcRootOf
<1>5. DataNodes = K(engine)!DataNodes /\ DataNodes' = K(engine')!DataNodes
  BY Zenon DEF DataNodes, K!DataNodes, Tfi, K!Tfi, FaninSet, K!FaninSet, PPOs, K!PPOs, PpoTypes, K!PpoTypes
<1>6. \A f, type : FfrCondition(f, type) = K(engine)!FfrCondition(f, type)
  BY Zenon DEF K!FfrCondition, FfrCondition, K!Activation, Activation, K!BranchCondition, BranchCondition,
     K!PathCondition, PathCondition, K!SideAt, SideAt, K!Nval, Nval, K!SideValue, SideValue,
     K!ControlValue, ControlValue, K!Complement, Complement, K!Assign, Assign, K!FaultyLine, FaultyLine
<1>7. \A f, type : FfrCondition(f, type)' = K(engine')!FfrCondition(f, type)
  BY Zenon DEF K!FfrCondition, FfrCondition, K!Activation, Activation, K!BranchCondition, BranchCondition,
     K!PathCondition, PathCondition, K!SideAt, SideAt, K!Nval, Nval, K!SideValue, SideValue,
     K!ControlValue, ControlValue, K!Complement, Complement, K!Assign, Assign, K!FaultyLine, FaultyLine
<1>8. GoodModels = GoodModelsOf(engine)
  BY Zenon DEF GoodModels, GoodModelsOf,
     TwoCycles, NextInputs, PrimaryInputs, Values, K!Values, NoFault, K!NoFault, Inputs, K!Inputs,
     PPIs, K!PPIs, ValuesUnder, K!ValuesUnder, K!Output, Output, K!PpiTypes, PpiTypes, K!GateTypes,
     GateTypes, K!GateFunction, GateFunction, K!AndOf, AndOf, K!OrOf, OrOf, K!XorOf, XorOf, K!Some, Some,
     K!Complement, Complement, K!Cardinality, Cardinality
<1>9. GoodModels' = GoodModelsOf(engine')
  BY Zenon DEF GoodModels, GoodModelsOf,
     TwoCycles, NextInputs, PrimaryInputs, Values, K!Values, NoFault, K!NoFault, Inputs, K!Inputs,
     PPIs, K!PPIs, ValuesUnder, K!ValuesUnder, K!Output, Output, K!PpiTypes, PpiTypes, K!GateTypes,
     GateTypes, K!GateFunction, GateFunction, K!AndOf, AndOf, K!OrOf, OrOf, K!XorOf, XorOf, K!Some, Some,
     K!Complement, Complement, K!Cardinality, Cardinality
<1> QED BY <1>1, <1>2, <1>3, <1>4, <1>5, <1>6, <1>7, <1>8, <1>9

LEMMA SameEngine ==
  ASSUME engine' = engine
  PROVE  /\ Cubes' = Cubes /\ Vectors' = Vectors /\ Faults' = Faults /\ GoodModels' = GoodModels
         /\ \A m, f : Detects(m, f)' <=> Detects(m, f)
         /\ \A c, f : Suffices(c, f)' <=> Suffices(c, f)
         /\ \A f, type : FfrCondition(f, type)' = FfrCondition(f, type)
<1>1. PPIs' = PPIs /\ PPOs' = PPOs
  BY DEF PPIs, PPOs
<1>2. Cubes' = Cubes
  BY DEF Cubes
<1>3. Vectors' = Vectors
  BY <1>1, <1>2 DEF Vectors
<1>4. Faults' = Faults
  BY SameNetwork DEF Faults
<1>5. TwoCycles' = TwoCycles
  BY DEF TwoCycles
<1>8. GoodModels' = GoodModels
  BY SameNetwork
<1>9. \A m, c : Holds(m, c)' <=> Holds(m, c)
  BY DEF Holds, ValAt
<1>10. \A m, f : Detects(m, f)' <=> Detects(m, f)
  BY <1>1, <1>5, SameNetwork DEF Detects, FaultyLine, ValAt
<1>11. \A c, f : Suffices(c, f)' <=> Suffices(c, f)
  BY <1>8, <1>9, <1>10 DEF Suffices
<1> QED BY <1>2, <1>3, <1>4, <1>8, <1>10, <1>11, SameNetwork

-----------------------------------------------------------------------------
(* The invariant: beside what the properties say, every clause added needs a *)
(* control variable that was made by a call, and the loop of                 *)
(* gen_k_patterns() has added the negation of each vector but the last.      *)

CallsInv ==
  /\ engine \in Engines
  /\ calls \in 0 .. engine.maxCalls /\ left \in 0 .. MaxK
  /\ op \in {"none", "patterns", "core"}
  /\ (op # "none" => calls > 0) /\ (calls > 0 => fault \in Faults)
  /\ status \in {"None", "Detected", "Untestable", "Undetected"}
  /\ \A c \in clauses : c.control \in 1 .. calls /\ c.cubes \subseteq Cubes
ResultsInv ==
  /\ suf \in Cubes /\ vectors \in Seq(Vectors) /\ Len(vectors) <= MaxK
  /\ op = "patterns" => Len(vectors) + left <= MaxK /\ (left > 0 => Len(vectors) > 0)
  /\ expr1 \subseteq Cubes /\ core \subseteq Cubes
  /\ op = "core" => expr1 \subseteq core
Negated ==
  op = "patterns" => \A i \in 1 .. Len(vectors) - 1 : Negation({vectors[i]}) \in clauses
DtpgInv ==
  /\ CallsInv /\ ResultsInv /\ Negated
  /\ ConditionSuffices /\ VectorsDetect /\ UntestableIsProved /\ VectorsAreNew /\ CoreSuffices

\* The invariant holds initially, before any call.
LEMMA InitInv == Init => DtpgInv
<1> SUFFICES ASSUME Init PROVE DtpgInv
  OBVIOUS
<1>1. engine.maxCalls \in Nat
  BY EnginesAssumption DEF Init, ProperEngine
<1>2. CallsInv
  BY <1>1, MaxKAssumption DEF Init, CallsInv
<1>3. ResultsInv
  BY MaxKAssumption DEF Init, ResultsInv, Cubes
<1> QED BY <1>2, <1>3 DEF DtpgInv, Init, Negated, ConditionSuffices, VectorsDetect, UntestableIsProved,
                          VectorsAreNew, CoreSuffices

\* A call: what it does to the parts that all calls share.
LEMMA CallingInv ==
  ASSUME DtpgInv, NEW f \in Faults, NEW name \in {"patterns", "core"}, Calling(name, f),
         left' \in 0 .. MaxK, status' \in {"None", "Detected", "Untestable", "Undetected"},
         UNCHANGED clauses
  PROVE  CallsInv' /\ engine' = engine /\ op' = name /\ fault' = f
<1>1. /\ engine' = engine /\ op' = name /\ fault' = f /\ calls' = calls + 1 /\ calls < engine.maxCalls
  BY DEF Calling
<1>2. /\ engine \in Engines /\ calls \in 0 .. engine.maxCalls /\ engine.maxCalls \in Nat
      /\ \A c \in clauses : c.control \in 1 .. calls /\ c.cubes \subseteq Cubes
  BY EngineIs DEF DtpgInv, CallsInv
<1>3. calls' \in 0 .. engine.maxCalls /\ calls' > 0 /\ \A i \in 1 .. calls : i \in 1 .. calls'
  BY <1>1, <1>2
<1>4. Faults' = Faults /\ Cubes' = Cubes
  BY <1>1, SameEngine
<1>5. CallsInv'
  BY <1>1, <1>2, <1>3, <1>4 DEF CallsInv
<1> QED BY <1>1, <1>5

LEMMA TypesOfVectors ==
  ASSUME NEW vec \in Vectors
  PROVE  <<vec>> \in Seq(Vectors) /\ Len(<<vec>>) = 1 /\ <<vec>>[1] = vec
  OBVIOUS

\* gen_pattern(), and the first round of gen_k_patterns().
LEMMA FirstPatternInv ==
  ASSUME DtpgInv, NEW f \in Faults, Calling("patterns", f),
         \/ (\E m \in Solutions(f, 0) : TestFound(f, m)) /\ left' \in 0 .. MaxK - 1
         \/ NoTest(f) /\ left' = 0,
         UNCHANGED <<clauses, expr1, core>>
  PROVE  DtpgInv'
<1>1. MaxK \in Nat \ {0} /\ engine \in Engines
  BY MaxKAssumption DEF DtpgInv, CallsInv
<1>2. left' \in 0 .. MaxK /\ status' \in {"None", "Detected", "Untestable", "Undetected"}
  BY <1>1 DEF TestFound, NoTest
<1>3. CallsInv' /\ engine' = engine /\ op' = "patterns" /\ fault' = f
  BY <1>2, CallingInv
<1>4. /\ Cubes' = Cubes /\ Vectors' = Vectors /\ GoodModels' = GoodModels
      /\ \A m, g : Detects(m, g)' <=> Detects(m, g)
      /\ \A c, g : Suffices(c, g)' <=> Suffices(c, g)
  BY <1>3, SameEngine
<1>5. expr1' \subseteq Cubes /\ core' \subseteq Cubes
  BY DEF DtpgInv, ResultsInv
<1>6. CASE (\E m \in Solutions(f, 0) : TestFound(f, m)) /\ left' \in 0 .. MaxK - 1
  <2>1. PICK m \in Solutions(f, 0) : TestFound(f, m)
    BY <1>6
  <2>2. PICK vec : vec \in Justifications(m, suf') /\ vectors' = <<vec>>
    BY <2>1 DEF TestFound
  <2>3. suf' = Extract(m, f) \cup FfrCondition(f, engine.type) /\ status' = "Detected"
    BY <2>1 DEF TestFound
  <2>4. suf' \in Cubes /\ Suffices(suf', f) /\ vec \in Vectors /\ Suffices(vec, f)
    <3> DEFINE cube == Extract(m, f) \cup FfrCondition(f, engine.type)
    <3>1. /\ cube \in Cubes /\ Suffices(cube, f)
          /\ \A t \in Justifications(m, cube) : t \in Vectors /\ Holds(m, t) /\ Suffices(t, f)
      BY <1>1, VectorSuffices
    <3>2. suf' = cube
      BY <2>3
    <3> HIDE DEF cube
    <3> QED BY <2>2, <3>1, <3>2
  <2>5. vectors' \in Seq(Vectors) /\ Len(vectors') = 1 /\ vectors'[1] = vec /\ DOMAIN vectors' = {1}
    <3>1. vectors' = <<vec>>
      BY <2>2
    <3>2. DOMAIN <<vec>> = {1}
      OBVIOUS
    <3> QED BY <2>4, <3>1, <3>2, TypesOfVectors
  <2>6. ResultsInv'
    <3>1. Len(vectors') <= MaxK /\ Len(vectors') + left' <= MaxK /\ Len(vectors') > 0
      <4>1. \A l \in 0 .. MaxK - 1 : 1 <= MaxK /\ 1 + l <= MaxK
        BY <1>1
      <4>2. left' \in 0 .. MaxK - 1
        BY <1>6
      <4> QED BY <2>5, <4>1, <4>2
    <3> QED BY <1>3, <1>4, <1>5, <2>4, <2>5, <3>1 DEF ResultsInv
  <2>7. Negated'
    BY <2>5 DEF Negated
  <2>8. ConditionSuffices' /\ VectorsDetect' /\ VectorsAreNew'
    BY <1>3, <1>4, <2>4, <2>5 DEF ConditionSuffices, VectorsDetect, VectorsAreNew
  <2>9. UntestableIsProved' /\ CoreSuffices'
    BY <1>3, <2>3 DEF UntestableIsProved, CoreSuffices
  <2> QED BY <1>3, <2>6, <2>7, <2>8, <2>9 DEF DtpgInv
<1>7. CASE NoTest(f) /\ left' = 0
  <2>1. suf' = {} /\ vectors' = << >> /\ status' # "Detected"
        /\ (status' = "Untestable" => Solutions(f, 0) = {})
    BY <1>7 DEF NoTest
  <2>2. ResultsInv'
    BY <1>1, <1>3, <1>4, <1>5, <1>7, <2>1 DEF ResultsInv, Cubes
  <2>3. Negated' /\ ConditionSuffices' /\ VectorsDetect' /\ VectorsAreNew' /\ CoreSuffices'
    BY <1>3, <2>1 DEF Negated, ConditionSuffices, VectorsDetect, VectorsAreNew, CoreSuffices
  <2>4. UntestableIsProved'
    <3>1. \A c \in clauses : c.control # 0
      BY DEF DtpgInv, CallsInv
    <3>2. Solutions(f, 0) = {} => \A m \in GoodModels : ~ Detects(m, f)
      BY <1>1, <3>1, DetectedIsSolution
    <3> QED BY <1>3, <1>4, <2>1, <3>2 DEF UntestableIsProved
  <2> QED BY <1>3, <2>2, <2>3, <2>4 DEF DtpgInv
<1> QED BY <1>6, <1>7

\* A round of a loop leaves the call as it is.
LEMMA RoundInv ==
  ASSUME DtpgInv, UNCHANGED <<engine, calls, op, fault, status>>, left' \in 0 .. MaxK,
         \A c \in clauses' : c \in clauses \/ (c.control = calls /\ c.cubes \subseteq Cubes),
         calls > 0
  PROVE  CallsInv'
<1>1. Cubes' = Cubes /\ Faults' = Faults
  BY SameEngine
<1>2. calls \in Nat /\ calls \in 1 .. calls
  BY EngineIs DEF DtpgInv, CallsInv
<1>3. \A c \in clauses' : c.control \in 1 .. calls /\ c.cubes \subseteq Cubes
  BY <1>2 DEF DtpgInv, CallsInv
<1> QED BY <1>1, <1>3 DEF DtpgInv, CallsInv

\* The next round of gen_k_patterns().
LEMMA NextPatternInv ==
  ASSUME DtpgInv, NextPattern
  PROVE  DtpgInv'
<1> DEFINE last == Len(vectors)
           negation == AddNegation(vectors)
<1>1. /\ MaxK \in Nat \ {0} /\ engine \in Engines /\ fault \in Faults /\ calls > 0
      /\ op = "patterns" /\ left > 0 /\ left \in 0 .. MaxK
  BY MaxKAssumption DEF DtpgInv, CallsInv, NextPattern
<1>2. /\ UNCHANGED <<engine, calls, op, fault, status, expr1, core>>
      /\ clauses' = clauses \cup {negation}
  BY DEF NextPattern
<1>3. /\ vectors \in Seq(Vectors) /\ last \in Nat /\ last > 0 /\ last + left <= MaxK
      /\ DOMAIN vectors = 1 .. last /\ \A i \in 1 .. last : vectors[i] \in Vectors
  BY <1>1 DEF DtpgInv, ResultsInv
<1>4. /\ Cubes' = Cubes /\ Vectors' = Vectors /\ GoodModels' = GoodModels
      /\ \A m, g : Detects(m, g)' <=> Detects(m, g)
      /\ \A c, g : Suffices(c, g)' <=> Suffices(c, g)
  BY <1>2, SameEngine
<1>5. negation = Negation({vectors[last]}) /\ negation.control = calls /\ negation.cubes = {vectors[last]}
      /\ negation.cubes \subseteq Cubes
  <2>1. vectors[last] \in Cubes
    BY <1>3 DEF Vectors
  <2> QED BY <2>1 DEF AddNegation, Negation
<1> HIDE DEF negation, last
<1>6. \A i \in 1 .. last : i = last \/ (i \in 1 .. last - 1 /\ Negation({vectors[i]}) \in clauses)
  <2>1. \A i \in 1 .. last - 1 : Negation({vectors[i]}) \in clauses
    BY <1>1 DEF DtpgInv, Negated, last
  <2>2. \A i \in 1 .. last : i = last \/ i \in 1 .. last - 1
    BY <1>3
  <2> QED BY <2>1, <2>2
<1>7. \A i \in 1 .. last : Negation({vectors[i]}) \in clauses'
  BY <1>2, <1>5, <1>6
<1>9. /\ \A c \in clauses' : c \in clauses \/ (c.control = calls /\ c.cubes \subseteq Cubes)
      /\ expr1' \subseteq Cubes /\ core' \subseteq Cubes
  BY <1>2, <1>5 DEF DtpgInv, ResultsInv
<1>10. UntestableIsProved' /\ CoreSuffices'
  BY <1>1, <1>2, <1>4 DEF DtpgInv, UntestableIsProved, CoreSuffices
<1>11. ASSUME NEW m \in Solutions(fault, calls), Refuted(m, negation),
              suf' = Extract(m, fault) \cup FfrCondition(fault, engine.type),
              NEW vec \in Justifications(m, suf'), vectors' = Append(vectors, vec), left' = left - 1
       PROVE  DtpgInv'
  <2>1. suf' \in Cubes /\ Suffices(suf', fault) /\ vec \in Vectors /\ Holds(m, vec) /\ Suffices(vec, fault)
    <3> DEFINE cube == Extract(m, fault) \cup FfrCondition(fault, engine.type)
    <3>1. \A f \in Faults : \A control : m \in Solutions(f, control) =>
            LET c == Extract(m, f) \cup FfrCondition(f, engine.type)
            IN  /\ c \in Cubes /\ Suffices(c, f)
                /\ \A t \in Justifications(m, c) : t \in Vectors /\ Holds(m, t) /\ Suffices(t, f)
      BY <1>1, VectorSuffices
    <3>2. /\ cube \in Cubes /\ Suffices(cube, fault)
          /\ \A t \in Justifications(m, cube) : t \in Vectors /\ Holds(m, t) /\ Suffices(t, fault)
      BY <1>1, <3>1
    <3>3. suf' = cube
      BY <1>11
    <3> HIDE DEF cube
    <3> QED BY <3>2, <3>3
  <2>2. /\ vectors' \in Seq(Vectors) /\ Len(vectors') = last + 1
        /\ \A i \in 1 .. last : vectors'[i] = vectors[i]
        /\ vectors'[last + 1] = vec
    BY <1>3, <1>11, <2>1 DEF last
  <2>3. DOMAIN vectors' = 1 .. last + 1 /\ \A i \in 1 .. last + 1 : i = last + 1 \/ i \in 1 .. last
    <3>1. DOMAIN vectors' = 1 .. Len(vectors')
      BY <2>2
    <3> QED BY <1>3, <2>2, <3>1
  <2>4. left' \in 0 .. MaxK /\ last + 1 + left' <= MaxK /\ last + 1 <= MaxK
    BY <1>1, <1>3, <1>11
  <2>5. CallsInv'
    BY <1>1, <1>2, <1>9, <2>4, RoundInv
  <2>6. ResultsInv'
    <3>1. Len(vectors') <= MaxK /\ Len(vectors') + left' <= MaxK /\ Len(vectors') > 0
      BY <1>3, <2>2, <2>4
    <3> QED BY <1>1, <1>2, <1>4, <1>9, <2>1, <2>2, <3>1 DEF ResultsInv
  <2>7. Negated'
    <3>1. \A i \in 1 .. last : [control |-> calls', cubes |-> {vectors'[i]}] \in clauses'
      BY <1>2, <1>7, <2>2 DEF Negation
    <3>2. Len(vectors') - 1 = last
      BY <1>3, <2>2
    <3> QED BY <3>1, <3>2 DEF Negated, Negation
  <2>8. ConditionSuffices'
    BY <1>2, <1>4, <2>1 DEF ConditionSuffices
  <2>9. VectorsDetect'
    <3>1. \A i \in 1 .. last : Suffices(vectors[i], fault)
      BY <1>1, <1>3 DEF DtpgInv, VectorsDetect
    <3>2. \A i \in 1 .. last + 1 : Suffices(vectors'[i], fault')
      BY <1>2, <2>1, <2>2, <2>3, <3>1
    <3> QED BY <1>4, <2>3, <3>2 DEF VectorsDetect
  <2>10. VectorsAreNew'
    <3>1. \A i \in 1 .. last : ~ (vectors[i] \subseteq vec)
      <4> SUFFICES ASSUME NEW i \in 1 .. last, vectors[i] \subseteq vec PROVE FALSE
        OBVIOUS
      <4>1. Refuted(m, Negation({vectors[i]}))
        <5>1. CASE i = last
          BY <1>5, <1>11, <5>1
        <5>2. CASE i # last
          <6>1. Negation({vectors[i]}) \in clauses /\ Negation({vectors[i]}).control = calls
            BY <1>6, <5>2 DEF Negation
          <6> QED BY <1>11, <6>1 DEF Solutions
        <5> QED BY <5>1, <5>2
      <4>2. ~ Holds(m, vectors[i])
        BY <4>1 DEF Refuted, Negation
      <4> QED BY <2>1, <4>2, HoldsWithin
    <3>2. \A j \in 1 .. last : \A i \in 1 .. j - 1 : ~ (vectors[i] \subseteq vectors[j])
      BY <1>1, <1>3 DEF DtpgInv, VectorsAreNew
    <3>3. \A j \in 1 .. last + 1 : \A i \in 1 .. j - 1 :
            /\ i \in 1 .. last
            /\ vectors'[i] = vectors[i]
            /\ j = last + 1 \/ (j \in 1 .. last /\ vectors'[j] = vectors[j])
      <4>1. \A j \in 1 .. last + 1 : \A i \in 1 .. j - 1 : i \in 1 .. last
        BY <1>3
      <4> QED BY <2>2, <2>3, <4>1
    <3>4. \A j \in 1 .. last + 1 : \A i \in 1 .. j - 1 : ~ (vectors'[i] \subseteq vectors'[j])
      BY <2>2, <3>1, <3>2, <3>3
    <3> QED BY <2>3, <3>4 DEF VectorsAreNew
  <2> QED BY <1>10, <2>5, <2>6, <2>7, <2>8, <2>9, <2>10 DEF DtpgInv
<1>12. ASSUME left' = 0, UNCHANGED <<suf, vectors>> PROVE DtpgInv'
  <2>1. CallsInv'
    BY <1>1, <1>2, <1>9, <1>12, RoundInv
  <2>2. ResultsInv'
    <3>1. suf \in Cubes /\ Len(vectors) <= MaxK /\ Len(vectors) + 0 <= MaxK
      BY <1>3 DEF DtpgInv, ResultsInv
    <3> QED BY <1>1, <1>2, <1>3, <1>4, <1>9, <1>12, <3>1 DEF ResultsInv
  <2>3. Negated'
    <3>1. \A i \in 1 .. last - 1 : i \in 1 .. last
      BY <1>3
    <3>2. \A i \in 1 .. last - 1 : [control |-> calls', cubes |-> {vectors'[i]}] \in clauses'
      BY <1>2, <1>7, <1>12, <3>1 DEF Negation
    <3> QED BY <1>12, <3>2 DEF Negated, Negation, last
  <2>4. ConditionSuffices' /\ VectorsDetect' /\ VectorsAreNew'
    BY <1>1, <1>2, <1>4, <1>12 DEF DtpgInv, ConditionSuffices, VectorsDetect, VectorsAreNew
  <2> QED BY <1>10, <2>1, <2>2, <2>3, <2>4 DEF DtpgInv
<1> QED BY <1>11, <1>12 DEF NextPattern, negation

\* The expression of a model: cubes that suffice with the region's condition.
CubesSuffice(cubes, f) ==
  cubes \subseteq Cubes /\ \A cube \in cubes : Suffices(cube \cup FfrCondition(f, engine.type), f)

\* gen_core_expr(): the first model's expression, or the constant 0.
LEMMA CoreExprInv ==
  ASSUME DtpgInv, NEW f \in Faults, NEW k \in 1 .. MaxK, GenCoreExpr(f, k)
  PROVE  DtpgInv'
<1>1. MaxK \in Nat \ {0} /\ engine \in Engines
  BY MaxKAssumption DEF DtpgInv, CallsInv
<1>2. /\ Calling("core", f) /\ UNCHANGED <<clauses, status, suf, vectors>> /\ core' = expr1'
      /\ left' \in 0 .. MaxK
      /\ (\E m \in Solutions(f, 0) : expr1' = ExtractAll(m, f)) \/ expr1' = {}
  BY <1>1 DEF GenCoreExpr
<1>3. status' \in {"None", "Detected", "Untestable", "Undetected"}
  BY <1>2 DEF DtpgInv, CallsInv
<1>4. CallsInv' /\ engine' = engine /\ op' = "core" /\ fault' = f
  BY <1>2, <1>3, CallingInv
<1>5. /\ Cubes' = Cubes /\ Vectors' = Vectors
      /\ \A c, g : Suffices(c, g)' <=> Suffices(c, g)
      /\ \A g, type : FfrCondition(g, type)' = FfrCondition(g, type)
  BY <1>4, SameEngine
<1>6. CubesSuffice(expr1', f)
  <2>1. \A m \in Solutions(f, 0) : m \in GoodModels
    BY DEF Solutions
  <2>2. \A m \in GoodModels : CubesSuffice(ExtractAll(m, f), f)
    BY <1>1, ExpressionSuffices DEF CubesSuffice
  <2> QED BY <1>2, <2>1, <2>2 DEF CubesSuffice
<1>7. ResultsInv'
  BY <1>2, <1>4, <1>5, <1>6 DEF DtpgInv, ResultsInv, CubesSuffice
<1>8. CoreSuffices'
  BY <1>2, <1>4, <1>5, <1>6 DEF CoreSuffices, CubesSuffice
<1>9. Negated' /\ ConditionSuffices' /\ VectorsDetect' /\ UntestableIsProved' /\ VectorsAreNew'
  BY <1>4 DEF Negated, ConditionSuffices, VectorsDetect, UntestableIsProved, VectorsAreNew
<1> QED BY <1>4, <1>7, <1>8, <1>9 DEF DtpgInv

\* The next round of gen_core_expr().
LEMMA NextExprInv ==
  ASSUME DtpgInv, NextExpr
  PROVE  DtpgInv'
<1> DEFINE negation == IF IsConstant(expr1) THEN {} ELSE {Negation(expr1)}
<1>1. /\ MaxK \in Nat \ {0} /\ engine \in Engines /\ fault \in Faults /\ calls > 0
      /\ op = "core" /\ left > 0 /\ left \in 0 .. MaxK
  BY MaxKAssumption DEF DtpgInv, CallsInv, NextExpr
<1>2. /\ UNCHANGED <<engine, calls, op, fault, status, suf, vectors>>
      /\ clauses' = clauses \cup negation
      /\ core' = core \cup expr1'
      /\ \/ \E m \in Solutions(fault, calls) : expr1' = ExtractAll(m, fault) /\ left' = left - 1
         \/ left' = 0 /\ UNCHANGED expr1
         \/ left' = left - 1 /\ UNCHANGED expr1
  BY DEF NextExpr
<1>3. left' \in 0 .. MaxK
  <2>1. left - 1 \in 0 .. MaxK /\ 0 \in 0 .. MaxK
    BY <1>1
  <2> QED BY <1>2, <2>1
<1>4. /\ Cubes' = Cubes /\ Vectors' = Vectors
      /\ \A c, g : Suffices(c, g)' <=> Suffices(c, g)
      /\ \A g, type : FfrCondition(g, type)' = FfrCondition(g, type)
  BY <1>2, SameEngine
<1>5. \A c \in clauses' : c \in clauses \/ (c.control = calls /\ c.cubes \subseteq Cubes)
  BY <1>2 DEF Negation, DtpgInv, ResultsInv
<1>6. CallsInv'
  BY <1>1, <1>2, <1>3, <1>5, RoundInv
<1>7. CubesSuffice(core, fault) /\ expr1 \subseteq core
  BY <1>1 DEF DtpgInv, ResultsInv, CoreSuffices, CubesSuffice
<1>8. CubesSuffice(expr1', fault)
  <2>1. \A m \in Solutions(fault, calls) : m \in GoodModels
    BY DEF Solutions
  <2>2. \A f \in Faults : \A m \in GoodModels : CubesSuffice(ExtractAll(m, f), f)
    BY <1>1, ExpressionSuffices DEF CubesSuffice
  <2> QED BY <1>1, <1>2, <1>7, <2>1, <2>2 DEF CubesSuffice
<1>9. CubesSuffice(core', fault)
  BY <1>2, <1>7, <1>8 DEF CubesSuffice
<1>10. ResultsInv'
  BY <1>1, <1>2, <1>4, <1>8, <1>9 DEF DtpgInv, ResultsInv, CubesSuffice
<1>11. CoreSuffices'
  BY <1>2, <1>4, <1>9 DEF CoreSuffices, CubesSuffice
<1>12. Negated' /\ ConditionSuffices' /\ VectorsDetect' /\ UntestableIsProved' /\ VectorsAreNew'
  BY <1>1, <1>2 DEF Negated, ConditionSuffices, VectorsDetect, UntestableIsProved, VectorsAreNew
<1> QED BY <1>6, <1>10, <1>11, <1>12 DEF DtpgInv

-----------------------------------------------------------------------------
(* Every step.                                                             *)

LEMMA NextInv == DtpgInv /\ [Next]_dtpgVars => DtpgInv'
<1> SUFFICES ASSUME DtpgInv, [Next]_dtpgVars PROVE DtpgInv'
  OBVIOUS
<1>1. MaxK \in Nat \ {0} /\ 0 \in 0 .. MaxK - 1 /\ \A k \in 1 .. MaxK : k - 1 \in 0 .. MaxK - 1
  BY MaxKAssumption
<1>2. ASSUME NEW f \in Faults, GenPattern(f) PROVE DtpgInv'
  <2>1. /\ Calling("patterns", f) /\ UNCHANGED <<clauses, expr1, core>> /\ left' = 0
        /\ (\E m \in Solutions(f, 0) : TestFound(f, m)) \/ NoTest(f)
    BY <1>2 DEF GenPattern, Calling, Idle
  <2>2. \/ (\E m \in Solutions(f, 0) : TestFound(f, m)) /\ left' \in 0 .. MaxK - 1
        \/ NoTest(f) /\ left' = 0
    BY <1>1, <2>1
  <2> QED BY <2>1, <2>2, FirstPatternInv
<1>3. ASSUME NEW f \in Faults, NEW k \in 1 .. MaxK, GenKPatterns(f, k) PROVE DtpgInv'
  <2>1. /\ Calling("patterns", f) /\ UNCHANGED <<clauses, expr1, core>>
        /\ \/ \E m \in Solutions(f, 0) : TestFound(f, m) /\ left' = k - 1
           \/ NoTest(f) /\ left' = 0
    BY <1>3 DEF GenKPatterns
  <2>2. \/ (\E m \in Solutions(f, 0) : TestFound(f, m)) /\ left' \in 0 .. MaxK - 1
        \/ NoTest(f) /\ left' = 0
    BY <1>1, <2>1
  <2> QED BY <2>1, <2>2, FirstPatternInv
<1>4. ASSUME UNCHANGED dtpgVars PROVE DtpgInv'
  <2>1. UNCHANGED <<engine, clauses, calls, op, fault, left, status, suf, vectors, expr1, core>>
    BY <1>4 DEF dtpgVars
  <2>2. /\ Cubes' = Cubes /\ Vectors' = Vectors /\ Faults' = Faults /\ GoodModels' = GoodModels
        /\ \A m, g : Detects(m, g)' <=> Detects(m, g)
        /\ \A c, g : Suffices(c, g)' <=> Suffices(c, g)
        /\ \A g, type : FfrCondition(g, type)' = FfrCondition(g, type)
    BY <2>1, SameEngine
  <2>3. CallsInv' /\ ResultsInv'
    BY <2>1, <2>2 DEF DtpgInv, CallsInv, ResultsInv
  <2>4. Negated'
    BY <2>1 DEF DtpgInv, Negated, Negation
  <2>5. ConditionSuffices' /\ VectorsDetect' /\ VectorsAreNew'
    BY <2>1, <2>2 DEF DtpgInv, ConditionSuffices, VectorsDetect, VectorsAreNew
  <2>6. UntestableIsProved' /\ CoreSuffices'
    BY <2>1, <2>2 DEF DtpgInv, UntestableIsProved, CoreSuffices
  <2> QED BY <2>3, <2>4, <2>5, <2>6 DEF DtpgInv
<1> QED BY <1>2, <1>3, <1>4, CoreExprInv, NextPatternInv, NextExprInv DEF Next

LEMMA SpecInv == Spec => []DtpgInv
  BY InitInv, NextInv, PTL DEF Spec

-----------------------------------------------------------------------------
(* What holds of every engine, for every network and every sequence of calls. *)

(* The types of TypeOK: the clauses added need control variables of calls    *)
(* that were made, so that add_negation() never touches an earlier call's,   *)
(* and a call's rounds (left) never return more vectors than were asked for. *)
THEOREM TypesAreKept == Spec => []TypeOK
<1>1. DtpgInv => TypeOK
  <2> SUFFICES ASSUME DtpgInv PROVE TypeOK
    OBVIOUS
  <2>1. \A i \in DOMAIN vectors : vectors[i] \in Vectors
    BY DEF DtpgInv, ResultsInv
  <2>2. \A i \in DOMAIN vectors : vectors[i] \in Cubes /\ \A a \in vectors[i] : a.node \in PPIs
    BY <2>1 DEF Vectors
  <2> QED BY <2>2 DEF DtpgInv, CallsInv, ResultsInv, TypeOK
<1> QED BY <1>1, SpecInv, PTL

(* Extractor: the side inputs and masking nodes it records, with the         *)
(* condition of the region, detect the fault whatever the other inputs are,  *)
(* on every network and however its paths reconverge.                        *)
THEOREM ConditionIsSufficient == Spec => []ConditionSuffices
<1>1. DtpgInv => ConditionSuffices
  BY DEF DtpgInv
<1> QED BY <1>1, SpecInv, PTL

(* Justifier: every vector of gen_pattern() and gen_k_patterns() detects its *)
(* fault however the X in it are filled in.                                  *)
THEOREM VectorsAreTests == Spec => []VectorsDetect
<1>1. DtpgInv => VectorsDetect
  BY DEF DtpgInv
<1> QED BY <1>1, SpecInv, PTL

(* A fault that a call finds untestable has no test at all, whatever clauses *)
(* earlier calls have left in the solver; for DtpgFFR and DtpgMFFC alike the  *)
(* propagation chain through immediate dominators excludes no test.          *)
THEOREM UnsatisfiableIsProof == Spec => []UntestableIsProved
<1>1. DtpgInv => UntestableIsProved
  BY DEF DtpgInv
<1> QED BY <1>1, SpecInv, PTL

(* gen_k_patterns(): the k vectors of a call are different tests, none of    *)
(* them repeats the assignments of an earlier one.                           *)
THEOREM VectorsDiffer == Spec => []VectorsAreNew
<1>1. DtpgInv => VectorsAreNew
  BY DEF DtpgInv
<1> QED BY <1>1, SpecInv, PTL

(* gen_core_expr(): MultiExtractor's expression holds only of tests, in each *)
(* round of the loop.                                                        *)
THEOREM CoreIsSufficient == Spec => []CoreSuffices
<1>1. DtpgInv => CoreSuffices
  BY DEF DtpgInv
<1> QED BY <1>1, SpecInv, PTL

-----------------------------------------------------------------------------
(* The test generation command.                                            *)

ToDo == ToSet(todo)
Generated == ToSet(tvList)

\* The place of an operation in dop_list.
Place == [DopTvList |-> 1, DopBase |-> 2, DopDrop |-> 3, DopVerify |-> 4]
InPlace(s) == \A i, j \in DOMAIN s : i < j => Place[s[i]] < Place[s[j]]

\* The engine finds only vectors that detect, and where it observes
\* everything that the simulator does, it finds all of them.
EngineIsSound ==
  /\ \A f \in Fault : testable[f] \subseteq detects[f]
  /\ OnlyPpoObserved => testable = detects

\* The operations run in the order of dop_list, which always has DopBase.
OperationsInOrder ==
  /\ InPlace(todo)
  /\ pc # "idle" => InPlace(dopList) /\ "DopBase" \in ToSet(dopList)

\* The fault for which the operations run.
TargetPhase ==
  pc = "dop" =>
    /\ tv \in testable[target]
    /\ faultStatus[target] = IF "DopBase" \in ToDo THEN "Undetected" ELSE "Detected"

BaseInv ==
  /\ AtpgTypeOK
  /\ EngineIsSound
  /\ OperationsInOrder
  /\ TargetPhase
  /\ SkipOnlyClassified
  /\ OnlyPpoObserved => UntestableHasNoTest

\* Without -nopat a vector is kept before its target is marked.
Kept ==
  /\ pc # "idle" => "DopTvList" \in ToSet(dopList)
  /\ pc = "dop" => "DopTvList" \in ToDo \/ tv \in Generated

\* With -drop, only the vector in hand may detect a fault still undetected,
\* and only until DopDrop has run.
NotYetDropped ==
  /\ pc # "idle" => "DopDrop" \in ToSet(dopList)
  /\ pc = "dop" /\ "DopTvList" \in ToDo => "DopBase" \in ToDo /\ "DopDrop" \in ToDo
  /\ \A f \in WithStatus("Undetected") : \A v \in Generated :
       v \in detects[f] =>
         /\ pc = "dop" /\ v = tv
         /\ "DopTvList" \notin ToDo
         /\ "DopDrop" \in ToDo

-----------------------------------------------------------------------------
(* dop_list.                                                               *)

LEMMA AddOperation ==
  ASSUME NEW s \in Seq(Dop), InPlace(s), NEW d \in Dop, NEW condition \in BOOLEAN,
         \A e \in ToSet(s) : Place[e] < Place[d]
  PROVE  /\ s \o If(condition, d) \in Seq(Dop)
         /\ InPlace(s \o If(condition, d))
         /\ ToSet(s \o If(condition, d)) = ToSet(s) \cup (IF condition THEN {d} ELSE {})
<1> DEFINE t == s \o <<d>>
<1>1. CASE ~condition
  <2>1. s \o If(condition, d) = s
    BY <1>1 DEF If
  <2>2. QED
    BY <1>1, <2>1
<1>2. CASE condition
  <2>1. s \o If(condition, d) = t
    BY <1>2 DEF If
  <2>2. /\ t \in Seq(Dop) /\ Len(s) \in Nat
        /\ DOMAIN s = 1 .. Len(s) /\ DOMAIN t = 1 .. Len(s) + 1
        /\ \A i \in 1 .. Len(s) : t[i] = s[i]
        /\ t[Len(s) + 1] = d
    OBVIOUS
  <2> HIDE DEF t
  <2>3. \A i \in 1 .. Len(s) : Place[s[i]] < Place[d]
    BY <2>2 DEF ToSet
  <2>4. InPlace(t)
    BY <2>2, <2>3 DEF InPlace
  <2>5. ToSet(t) = ToSet(s) \cup {d}
    <3>1. ASSUME NEW e \in ToSet(t) PROVE e \in ToSet(s) \cup {d}
      BY <2>2 DEF ToSet
    <3>2. ASSUME NEW e \in ToSet(s) PROVE e \in ToSet(t)
      <4>1. PICK i \in 1 .. Len(s) : e = s[i]
        BY <2>2 DEF ToSet
      <4>2. i \in DOMAIN t /\ t[i] = e
        BY <2>2, <4>1
      <4>3. QED
        BY <4>2 DEF ToSet
    <3>3. d \in ToSet(t)
      <4>1. Len(s) + 1 \in DOMAIN t
        BY <2>2
      <4>2. QED
        BY <2>2, <4>1 DEF ToSet
    <3>4. QED
      BY <3>1, <3>2, <3>3
  <2>6. QED
    BY <1>2, <2>1, <2>2, <2>4, <2>5
<1>3. QED
  BY <1>1, <1>2

LEMMA DopListShape ==
  ASSUME NEW options \in CommandOptions
  PROVE  /\ DopListOf(options) \in Seq(Dop)
         /\ InPlace(DopListOf(options))
         /\ "DopBase" \in ToSet(DopListOf(options))
         /\ "nopat" \notin options => "DopTvList" \in ToSet(DopListOf(options))
         /\ "drop" \in options => "DopDrop" \in ToSet(DopListOf(options))
<1> DEFINE s1 == If("nopat" \notin options, "DopTvList")
           s2 == s1 \o <<"DopBase">>
           s3 == s2 \o If("drop" \in options, "DopDrop")
           s4 == s3 \o If("verify" \in options, "DopVerify")
<1>1. /\ s1 \in Seq(Dop) /\ InPlace(s1)
      /\ ToSet(s1) = IF "nopat" \notin options THEN {"DopTvList"} ELSE {}
  <2>1. CASE "nopat" \in options
    BY <2>1 DEF If, InPlace, ToSet
  <2>2. CASE "nopat" \notin options
    <3>1. s1 = <<"DopTvList">> /\ s1 \in Seq(Dop) /\ DOMAIN s1 = {1} /\ s1[1] = "DopTvList"
      BY <2>2 DEF If, Dop
    <3>2. QED
      BY <2>2, <3>1 DEF InPlace, ToSet
  <2>3. QED
    BY <2>1, <2>2
<1> HIDE DEF s1
<1>2. s2 \in Seq(Dop) /\ InPlace(s2) /\ ToSet(s2) = ToSet(s1) \cup {"DopBase"}
  <2>1. s2 = s1 \o If(TRUE, "DopBase")
    BY DEF If
  <2>2. "DopBase" \in Dop /\ TRUE \in BOOLEAN /\ \A e \in ToSet(s1) : Place[e] < Place["DopBase"]
    BY <1>1 DEF Dop, Place
  <2>3. QED
    BY <1>1, <2>1, <2>2, AddOperation
<1> HIDE DEF s2
<1>3. /\ s3 \in Seq(Dop) /\ InPlace(s3)
      /\ ToSet(s3) = ToSet(s2) \cup (IF "drop" \in options THEN {"DopDrop"} ELSE {})
  <2>1. ("drop" \in options) \in BOOLEAN /\ "DopDrop" \in Dop
    BY DEF Dop
  <2>2. \A e \in ToSet(s2) : Place[e] < Place["DopDrop"]
    BY <1>1, <1>2 DEF Place
  <2>3. QED
    BY <1>2, <2>1, <2>2, AddOperation
<1> HIDE DEF s3
<1>4. /\ s4 \in Seq(Dop) /\ InPlace(s4)
      /\ ToSet(s4) = ToSet(s3) \cup (IF "verify" \in options THEN {"DopVerify"} ELSE {})
  <2>1. ("verify" \in options) \in BOOLEAN /\ "DopVerify" \in Dop
    BY DEF Dop
  <2>2. \A e \in ToSet(s3) : Place[e] < Place["DopVerify"]
    BY <1>1, <1>2, <1>3 DEF Place
  <2>3. QED
    BY <1>3, <2>1, <2>2, AddOperation
<1>5. DopListOf(options) = s4
  BY DEF DopListOf, s1, s2, s3
<1>6. QED
  BY <1>1, <1>2, <1>3, <1>4, <1>5

\* One operation less: d was the first in place, the others stay.
LEMMA NextDopFacts ==
  ASSUME BaseInv, NEW d \in Dop, NextDop(d)
  PROVE  /\ pc = "dop" /\ pc' = "dop"
         /\ todo' \in Seq(Dop) /\ InPlace(todo')
         /\ d \in ToDo /\ ToDo' = ToDo \ {d}
         /\ \A e \in ToDo' : Place[d] < Place[e]
         /\ UNCHANGED <<circuitVars, commandVars, pos, target, tv>>
<1>1. /\ pc = "dop" /\ todo # << >> /\ Head(todo) = d /\ todo' = Tail(todo)
      /\ UNCHANGED <<circuitVars, pc, commandVars, pos, target, tv>>
  BY DEF NextDop
<1>2. /\ todo \in Seq(Dop) /\ Len(todo) \in Nat \ {0}
      /\ DOMAIN todo = 1 .. Len(todo)
      /\ todo' \in Seq(Dop) /\ DOMAIN todo' = 1 .. Len(todo) - 1
      /\ d = todo[1]
      /\ \A i \in 1 .. Len(todo) - 1 : todo'[i] = todo[i + 1]
  BY <1>1 DEF BaseInv, AtpgTypeOK
<1>3. \A i, j \in DOMAIN todo : i < j => Place[todo[i]] < Place[todo[j]]
  BY DEF BaseInv, OperationsInOrder, InPlace
<1>4. InPlace(todo')
  <2> SUFFICES ASSUME NEW i \in DOMAIN todo', NEW j \in DOMAIN todo', i < j
               PROVE  Place[todo'[i]] < Place[todo'[j]]
    BY DEF InPlace
  <2>1. i + 1 \in DOMAIN todo /\ j + 1 \in DOMAIN todo /\ i + 1 < j + 1
    BY <1>2
  <2>2. QED
    BY <1>2, <1>3, <2>1
<1>5. \A i \in DOMAIN todo' : i + 1 \in DOMAIN todo /\ 1 \in DOMAIN todo /\ 1 < i + 1
  BY <1>2
<1>6. \A e \in ToDo' : e \in ToDo /\ Place[d] < Place[e]
  BY <1>2, <1>3, <1>5 DEF ToDo, ToSet
<1>7. \A e \in Dop : Place[e] \in Nat
  BY DEF Dop, Place
<1>8. d \in ToDo /\ d \notin ToDo'
  <2>1. 1 \in DOMAIN todo
    BY <1>2
  <2>2. ~ (Place[d] < Place[d])
    BY <1>7
  <2>3. QED
    BY <1>2, <1>6, <2>1, <2>2 DEF ToDo, ToSet
<1>9. ASSUME NEW e \in ToDo, e # d PROVE e \in ToDo'
  <2>1. PICK i \in 1 .. Len(todo) : e = todo[i]
    BY <1>2 DEF ToDo, ToSet
  <2>2. i - 1 \in 1 .. Len(todo) - 1
    BY <1>2, <1>9, <2>1
  <2>3. i - 1 \in DOMAIN todo' /\ todo'[i - 1] = e
    BY <1>2, <2>1, <2>2
  <2>4. QED
    BY <2>3 DEF ToDo, ToSet
<1>10. ToDo' = ToDo \ {d}
  BY <1>6, <1>8, <1>9
<1>11. QED
  BY <1>1, <1>2, <1>4, <1>6, <1>8, <1>10

-----------------------------------------------------------------------------
(* The invariant that the others rest on.                                  *)

LEMMA InitBaseInv == AtpgInit => BaseInv
<1> SUFFICES ASSUME AtpgInit PROVE BaseInv
  OBVIOUS
<1>1. AtpgTypeOK
  <2>1. target \in Fault /\ tv \in Vector
    BY AtpgAssumption DEF AtpgInit
  <2>2. skip \subseteq Fault /\ faultStatus \in [Fault -> FaultStatus]
    BY DEF AtpgInit, FaultStatus
  <2>3. << >> \in Seq(Vector) /\ << >> \in Seq(Fault) /\ << >> \in Seq(Dop)
    OBVIOUS
  <2>4. QED
    BY <2>1, <2>2, <2>3 DEF AtpgInit, AtpgTypeOK
<1>2. EngineIsSound /\ OperationsInOrder /\ TargetPhase /\ SkipOnlyClassified
  BY DEF AtpgInit, EngineIsSound, OperationsInOrder, InPlace, TargetPhase, SkipOnlyClassified
<1>3. UntestableHasNoTest
  BY DEF AtpgInit, UntestableHasNoTest, WithStatus
<1>4. QED
  BY <1>1, <1>2, <1>3 DEF BaseInv

\* The fault in turn is a fault.
LEMMA CurrentFault ==
  ASSUME AtpgTypeOK, AtFault
  PROVE  order[pos] \in Fault
  BY DEF AtpgTypeOK, AtFault

LEMMA CommandKeeps ==
  ASSUME BaseInv, NEW options \in CommandOptions, NEW o \in Orders, Command(options, o)
  PROVE  BaseInv'
<1>1. /\ dopList' = DopListOf(options) /\ order' = o /\ skip' = SkipAtStart
      /\ errors' = {} /\ pos' = 1 /\ pc' = "loop"
      /\ UNCHANGED <<circuitVars, faultStatus, tvList, todo, target, tv>>
  BY DEF Command
<1>2. AtpgTypeOK'
  <2>1. o \in Seq(Fault) /\ DopListOf(options) \in Seq(Dop)
    BY AtpgAssumption, DopListShape
  <2>2. skip' \subseteq Fault
    BY <1>1 DEF SkipAtStart
  <2>3. QED
    BY <1>1, <2>1, <2>2 DEF BaseInv, AtpgTypeOK, circuitVars
<1>3. OperationsInOrder'
  <2>1. InPlace(dopList') /\ "DopBase" \in ToSet(dopList')
    BY <1>1, DopListShape
  <2>2. InPlace(todo')
    BY <1>1 DEF BaseInv, OperationsInOrder
  <2>3. QED
    BY <2>1, <2>2 DEF OperationsInOrder
<1>4. SkipOnlyClassified'
  BY <1>1 DEF SkipOnlyClassified, SkipAtStart, WithStatus
<1>5. EngineIsSound' /\ TargetPhase' /\ (OnlyPpoObserved => UntestableHasNoTest)'
  BY <1>1 DEF BaseInv, EngineIsSound, TargetPhase, UntestableHasNoTest, WithStatus,
              circuitVars
<1>6. QED
  BY <1>2, <1>3, <1>4, <1>5 DEF BaseInv

\* The steps that only move on to another fault or end the loop.
LEMMA MoveOnKeeps ==
  ASSUME BaseInv, PassOver \/ Aborted \/ Finish \/ DopsDone
  PROVE  BaseInv'
<1>1. /\ pc # "idle" /\ pc' \in {"loop", "idle"} /\ pos' \in Nat \ {0}
      /\ UNCHANGED <<circuitVars, faultStatus, tvList, skip, errors, commandVars, todo,
                     target, tv>>
  BY DEF PassOver, Aborted, Finish, DopsDone, AtFault, BaseInv, AtpgTypeOK
<1>2. AtpgTypeOK'
  BY <1>1 DEF BaseInv, AtpgTypeOK, circuitVars, commandVars
<1>3. EngineIsSound' /\ OperationsInOrder' /\ TargetPhase' /\ SkipOnlyClassified'
  BY <1>1 DEF BaseInv, EngineIsSound, OperationsInOrder, InPlace, TargetPhase,
              SkipOnlyClassified, circuitVars, commandVars
<1>4. (OnlyPpoObserved => UntestableHasNoTest)'
  BY <1>1 DEF BaseInv, UntestableHasNoTest, WithStatus, circuitVars
<1>5. QED
  BY <1>2, <1>3, <1>4 DEF BaseInv

LEMMA FoundKeeps ==
  ASSUME BaseInv, NEW v \in Vector, Found(v)
  PROVE  BaseInv'
<1>1. /\ AtFault /\ Wanted(order[pos]) /\ v \in testable[order[pos]]
      /\ target' = order[pos] /\ tv' = v /\ todo' = dopList /\ pc' = "dop"
      /\ UNCHANGED <<circuitVars, faultStatus, tvList, skip, errors, commandVars, pos>>
  BY DEF Found
<1>2. order[pos] \in Fault
  BY <1>1, CurrentFault DEF BaseInv
<1>3. AtpgTypeOK'
  BY <1>1, <1>2 DEF BaseInv, AtpgTypeOK, circuitVars, commandVars
<1>4. InPlace(todo') /\ "DopBase" \in ToDo' /\ OperationsInOrder'
  BY <1>1 DEF BaseInv, OperationsInOrder, InPlace, ToDo, ToSet, AtFault, commandVars
<1>5. TargetPhase'
  BY <1>1, <1>2, <1>4 DEF TargetPhase, Wanted, circuitVars
<1>6. EngineIsSound' /\ SkipOnlyClassified'
  BY <1>1 DEF BaseInv, EngineIsSound, SkipOnlyClassified, AtFault, circuitVars
<1>7. (OnlyPpoObserved => UntestableHasNoTest)'
  BY <1>1 DEF BaseInv, UntestableHasNoTest, WithStatus, circuitVars
<1>8. QED
  BY <1>3, <1>4, <1>5, <1>6, <1>7 DEF BaseInv

LEMMA ProvedUntestableKeeps ==
  ASSUME BaseInv, ProvedUntestable
  PROVE  BaseInv'
<1> DEFINE f == order[pos]
<1>1. /\ AtFault /\ Wanted(f) /\ testable[f] = {}
      /\ faultStatus' = [faultStatus EXCEPT ![f] = "Untestable"] /\ pos' = pos + 1
      /\ UNCHANGED <<circuitVars, tvList, skip, errors, pc, commandVars, todo, target, tv>>
  BY DEF ProvedUntestable
<1>2. f \in Fault
  BY <1>1, CurrentFault DEF BaseInv
<1>3. AtpgTypeOK'
  <2>1. faultStatus' \in [Fault -> FaultStatus]
    BY <1>1 DEF BaseInv, AtpgTypeOK, FaultStatus
  <2>2. pos' \in Nat \ {0}
    BY <1>1 DEF BaseInv, AtpgTypeOK
  <2>3. QED
    BY <1>1, <2>1, <2>2 DEF BaseInv, AtpgTypeOK, circuitVars, commandVars
<1>4. EngineIsSound' /\ OperationsInOrder' /\ TargetPhase'
  BY <1>1 DEF BaseInv, EngineIsSound, OperationsInOrder, InPlace, TargetPhase, AtFault,
              circuitVars, commandVars
<1>5. SkipOnlyClassified'
  BY <1>1, <1>2 DEF BaseInv, AtpgTypeOK, SkipOnlyClassified, FaultStatus
<1>6. (OnlyPpoObserved => UntestableHasNoTest)'
  BY <1>1, <1>2 DEF BaseInv, EngineIsSound, UntestableHasNoTest, WithStatus, AtpgTypeOK,
                    circuitVars
<1>7. QED
  BY <1>3, <1>4, <1>5, <1>6 DEF BaseInv

LEMMA DopTvListKeeps ==
  ASSUME BaseInv, DopTvList
  PROVE  BaseInv'
<1>1. NextDop("DopTvList") /\ tvList' = Append(tvList, tv)
      /\ UNCHANGED <<faultStatus, skip, errors>>
  BY DEF DopTvList
<1>2. /\ pc = "dop" /\ pc' = "dop"
      /\ todo' \in Seq(Dop) /\ InPlace(todo')
      /\ ToDo' = ToDo \ {"DopTvList"}
      /\ UNCHANGED <<circuitVars, commandVars, pos, target, tv>>
  BY <1>1, NextDopFacts DEF Dop
<1>3. AtpgTypeOK'
  BY <1>1, <1>2 DEF BaseInv, AtpgTypeOK, circuitVars, commandVars
<1>4. EngineIsSound' /\ OperationsInOrder' /\ TargetPhase' /\ SkipOnlyClassified'
  BY <1>1, <1>2 DEF BaseInv, EngineIsSound, OperationsInOrder, TargetPhase,
                    SkipOnlyClassified, circuitVars, commandVars, InPlace
<1>5. (OnlyPpoObserved => UntestableHasNoTest)'
  BY <1>1, <1>2 DEF BaseInv, UntestableHasNoTest, WithStatus, circuitVars
<1>6. QED
  BY <1>3, <1>4, <1>5 DEF BaseInv

LEMMA DopBaseKeeps ==
  ASSUME BaseInv, DopBase
  PROVE  BaseInv'
<1>1. NextDop("DopBase") /\ faultStatus' = [faultStatus EXCEPT ![target] = "Detected"]
      /\ UNCHANGED <<tvList, skip, errors>>
  BY DEF DopBase
<1>2. /\ pc = "dop" /\ pc' = "dop"
      /\ todo' \in Seq(Dop) /\ InPlace(todo')
      /\ ToDo' = ToDo \ {"DopBase"}
      /\ UNCHANGED <<circuitVars, commandVars, pos, target, tv>>
  BY <1>1, NextDopFacts DEF Dop
<1>3. AtpgTypeOK'
  <2>1. faultStatus' \in [Fault -> FaultStatus]
    BY <1>1 DEF BaseInv, AtpgTypeOK, FaultStatus
  <2>2. QED
    BY <1>1, <1>2, <2>1 DEF BaseInv, AtpgTypeOK, circuitVars, commandVars
<1>4. EngineIsSound' /\ OperationsInOrder'
  BY <1>1, <1>2 DEF BaseInv, EngineIsSound, OperationsInOrder, circuitVars, commandVars,
                    InPlace
<1>5. TargetPhase' /\ SkipOnlyClassified'
  BY <1>1, <1>2 DEF BaseInv, AtpgTypeOK, TargetPhase, SkipOnlyClassified, circuitVars
<1>6. (OnlyPpoObserved => UntestableHasNoTest)'
  BY <1>1, <1>2 DEF BaseInv, AtpgTypeOK, UntestableHasNoTest, WithStatus, circuitVars
<1>7. QED
  BY <1>3, <1>4, <1>5, <1>6 DEF BaseInv

LEMMA DopDropKeeps ==
  ASSUME BaseInv, DopDrop
  PROVE  BaseInv'
<1>1. /\ NextDop("DopDrop")
      /\ faultStatus' = [f \in Fault |-> IF f \in Dropped THEN "Detected" ELSE faultStatus[f]]
      /\ skip' = skip \cup {target} \cup Dropped
      /\ UNCHANGED <<tvList, errors>>
  BY DEF DopDrop
<1>2. /\ pc = "dop" /\ pc' = "dop"
      /\ todo' \in Seq(Dop) /\ InPlace(todo')
      /\ "DopDrop" \in ToDo
      /\ ToDo' = ToDo \ {"DopDrop"} /\ (\A e \in ToDo' : Place["DopDrop"] < Place[e])
      /\ UNCHANGED <<circuitVars, commandVars, pos, target, tv>>
  BY <1>1, NextDopFacts DEF Dop
<1>3. "DopBase" \notin ToDo /\ "DopBase" \notin ToDo'
  BY <1>2 DEF Place
<1>4. faultStatus[target] = "Detected" /\ target \in Fault /\ Dropped \subseteq Fault \ {target}
  BY <1>2, <1>3 DEF BaseInv, AtpgTypeOK, TargetPhase, Dropped
<1>5. AtpgTypeOK'
  <2>1. faultStatus' \in [Fault -> FaultStatus] /\ skip' \subseteq Fault
    BY <1>1, <1>4 DEF BaseInv, AtpgTypeOK, FaultStatus
  <2>2. QED
    BY <1>1, <1>2, <2>1 DEF BaseInv, AtpgTypeOK, circuitVars, commandVars
<1>6. EngineIsSound' /\ OperationsInOrder'
  BY <1>1, <1>2 DEF BaseInv, EngineIsSound, OperationsInOrder, circuitVars, commandVars,
                    InPlace
<1>7. TargetPhase'
  BY <1>1, <1>2, <1>3, <1>4 DEF BaseInv, TargetPhase, circuitVars
<1>8. SkipOnlyClassified'
  BY <1>1, <1>2, <1>4 DEF BaseInv, AtpgTypeOK, SkipOnlyClassified
<1>9. (OnlyPpoObserved => UntestableHasNoTest)'
  BY <1>1, <1>2 DEF BaseInv, UntestableHasNoTest, WithStatus, circuitVars
<1>10. QED
  BY <1>5, <1>6, <1>7, <1>8, <1>9 DEF BaseInv

LEMMA DopVerifyKeeps ==
  ASSUME BaseInv, DopVerify
  PROVE  BaseInv'
<1>1. NextDop("DopVerify") /\ errors' \in {errors, errors \cup {target}}
      /\ UNCHANGED <<faultStatus, tvList, skip>>
  BY DEF DopVerify
<1>2. /\ pc = "dop" /\ pc' = "dop"
      /\ todo' \in Seq(Dop) /\ InPlace(todo')
      /\ ToDo' = ToDo \ {"DopVerify"}
      /\ UNCHANGED <<circuitVars, commandVars, pos, target, tv>>
  BY <1>1, NextDopFacts DEF Dop
<1>3. AtpgTypeOK'
  BY <1>1, <1>2 DEF BaseInv, AtpgTypeOK, circuitVars, commandVars
<1>4. EngineIsSound' /\ OperationsInOrder' /\ TargetPhase' /\ SkipOnlyClassified'
  BY <1>1, <1>2 DEF BaseInv, EngineIsSound, OperationsInOrder, TargetPhase,
                    SkipOnlyClassified, circuitVars, commandVars, InPlace
<1>5. (OnlyPpoObserved => UntestableHasNoTest)'
  BY <1>1, <1>2 DEF BaseInv, UntestableHasNoTest, WithStatus, circuitVars
<1>6. QED
  BY <1>3, <1>4, <1>5 DEF BaseInv

LEMMA BaseInvStable == BaseInv /\ UNCHANGED atpgVars => BaseInv'
  BY DEF BaseInv, atpgVars, circuitVars, commandVars, AtpgTypeOK, EngineIsSound,
         OperationsInOrder, InPlace, TargetPhase, ToDo, ToSet, SkipOnlyClassified,
         UntestableHasNoTest, WithStatus

LEMMA NextBaseInv == BaseInv /\ [AtpgNext]_atpgVars => BaseInv'
  BY CommandKeeps, MoveOnKeeps, FoundKeeps, ProvedUntestableKeeps, DopTvListKeeps,
     DopBaseKeeps, DopDropKeeps, DopVerifyKeeps, BaseInvStable DEF AtpgNext

LEMMA BaseInvariance == AtpgSpec => []BaseInv
<1>1. QED
  BY InitBaseInv, NextBaseInv, PTL DEF AtpgSpec

-----------------------------------------------------------------------------
(* The theorems.                                                           *)

\* Type correctness: in particular a fault is always undetected, detected or
\* untestable, whatever the engine answers (an aborted search adds no status).
THEOREM AtpgTypeCorrect == AtpgSpec => []AtpgTypeOK
<1>1. BaseInv => AtpgTypeOK
  BY DEF BaseInv
<1>2. QED
  BY <1>1, BaseInvariance, PTL

\* No fault that still needs a test is skipped by the simulation of DopDrop:
\* the marks that cmd_proc() sets and those that DopDrop adds are of faults
\* already classified (DtpgCmd.cc:314-319, DopDrop.cc:52-64).
THEOREM DroppingMissesNothing == AtpgSpec => []SkipOnlyClassified
<1>1. BaseInv => SkipOnlyClassified
  BY DEF BaseInv
<1>2. QED
  BY <1>1, BaseInvariance, PTL

\* Where simulator and engine observe the same nodes, a fault that is called
\* untestable has no test among the vectors.
THEOREM UntestableIsRight ==
  ASSUME OnlyPpoObserved
  PROVE  AtpgSpec => []UntestableHasNoTest
<1>1. BaseInv => UntestableHasNoTest
  BY DEF BaseInv
<1>2. QED
  BY <1>1, BaseInvariance, PTL

\* Where they do, no step changes the status of a fault once it is set: the
\* assertion of DopDrop.cc:59 that no dropped fault was called untestable.
THEOREM StatusIsFinal ==
  ASSUME OnlyPpoObserved
  PROVE  AtpgSpec => StatusFinal
<1> DEFINE Final == \A f \in Fault : faultStatus[f] # "Undetected" => faultStatus'[f] = faultStatus[f]
<1>1. ASSUME BaseInv, [AtpgNext]_atpgVars PROVE Final
  <2>1. CASE UNCHANGED faultStatus
    BY <2>1
  <2>2. CASE ProvedUntestable
    <3>1. faultStatus' = [faultStatus EXCEPT ![order[pos]] = "Untestable"]
          /\ faultStatus[order[pos]] = "Undetected"
      BY <2>2 DEF ProvedUntestable, Wanted
    <3>2. QED
      BY <1>1, <3>1 DEF BaseInv, AtpgTypeOK
  <2>3. CASE DopBase
    <3>1. NextDop("DopBase") /\ faultStatus' = [faultStatus EXCEPT ![target] = "Detected"]
      BY <2>3 DEF DopBase
    <3>2. pc = "dop" /\ "DopBase" \in ToDo
      BY <1>1, <3>1, NextDopFacts DEF Dop
    <3>3. faultStatus[target] = "Undetected"
      BY <1>1, <3>2 DEF BaseInv, TargetPhase
    <3>4. QED
      BY <1>1, <3>1, <3>3 DEF BaseInv, AtpgTypeOK
  <2>4. CASE DopDrop
    <3>1. faultStatus' = [f \in Fault |-> IF f \in Dropped THEN "Detected" ELSE faultStatus[f]]
      BY <2>4 DEF DopDrop
    <3>2. \A f \in Dropped : f \in Fault /\ detects[f] # {}
      BY DEF Dropped
    <3>3. \A f \in Dropped : faultStatus[f] # "Untestable"
      BY <1>1, <3>2 DEF BaseInv, UntestableHasNoTest, WithStatus
    <3>4. \A f \in Fault : faultStatus[f] \in FaultStatus
      BY <1>1 DEF BaseInv, AtpgTypeOK
    <3>5. QED
      BY <3>1, <3>3, <3>4 DEF FaultStatus
  <2>5. QED
    BY <1>1, <2>1, <2>2, <2>3, <2>4
       DEF AtpgNext, Command, PassOver, Found, Aborted, Finish, DopTvList, DopVerify, DopsDone,
           atpgVars
<1>2. BaseInv /\ [AtpgNext]_atpgVars => [Final]_atpgVars
  BY <1>1
<1>3. QED
  BY <1>2, BaseInvariance, PTL DEF AtpgSpec, StatusFinal

LEMMA AppendElements ==
  ASSUME NEW S, NEW s \in Seq(S), NEW e \in S
  PROVE  ToSet(Append(s, e)) = ToSet(s) \cup {e}
<1> DEFINE t == Append(s, e)
<1>1. /\ Len(s) \in Nat /\ DOMAIN s = 1 .. Len(s) /\ DOMAIN t = 1 .. Len(s) + 1
      /\ \A i \in 1 .. Len(s) : t[i] = s[i]
      /\ t[Len(s) + 1] = e
  OBVIOUS
<1> HIDE DEF t
<1>2. ASSUME NEW x \in ToSet(t) PROVE x \in ToSet(s) \cup {e}
  BY <1>1 DEF ToSet
<1>3. ASSUME NEW x \in ToSet(s) PROVE x \in ToSet(t)
  <2>1. PICK i \in 1 .. Len(s) : x = s[i]
    BY <1>1 DEF ToSet
  <2>2. i \in DOMAIN t /\ t[i] = x
    BY <1>1, <2>1
  <2>3. QED
    BY <2>2 DEF ToSet
<1>4. e \in ToSet(t)
  <2>1. Len(s) + 1 \in DOMAIN t
    BY <1>1
  <2>2. QED
    BY <1>1, <2>1 DEF ToSet
<1>5. ToSet(t) = ToSet(s) \cup {e}
  BY <1>2, <1>3, <1>4
<1>6. QED
  BY <1>5 DEF t

\* As long as no command is given -nopat, the vectors kept cover all faults
\* counted as detected, at every moment: DopTvList comes before DopBase in
\* dop_list (DtpgCmd.cc:279-284), and DopDrop marks only what the vector in
\* hand, already kept, detects.
THEOREM CoverageIsReal ==
  ASSUME \A options \in CommandOptions : "nopat" \notin options
  PROVE  AtpgSpec => []DetectedIsCovered
<1> DEFINE Covered == \A f \in WithStatus("Detected") : \E v \in Generated : v \in detects[f]
<1>1. AtpgInit => Kept /\ Covered
  BY DEF AtpgInit, Kept, WithStatus
<1>2. ASSUME BaseInv, Kept, Covered, [AtpgNext]_atpgVars PROVE Kept' /\ Covered'
  <2>1. ASSUME NEW options \in CommandOptions, NEW o \in Orders, Command(options, o)
        PROVE  Kept' /\ Covered'
    <3>1. "DopTvList" \in ToSet(dopList') /\ pc' = "loop"
      BY <2>1, DopListShape DEF Command
    <3>2. UNCHANGED <<faultStatus, tvList, detects>>
      BY <2>1 DEF Command, circuitVars
    <3>3. QED
      BY <1>2, <3>1, <3>2 DEF Kept, WithStatus, Generated
  <2>2. CASE PassOver \/ Aborted \/ Finish \/ DopsDone
    <3>1. pc # "idle" /\ pc' # "dop" /\ UNCHANGED <<faultStatus, tvList, detects, dopList>>
      BY <2>2 DEF PassOver, Aborted, Finish, DopsDone, AtFault, circuitVars, commandVars
    <3>2. QED
      BY <1>2, <3>1 DEF Kept, WithStatus, Generated
  <2>3. ASSUME NEW v \in Vector, Found(v) PROVE Kept' /\ Covered'
    <3>1. /\ pc # "idle" /\ todo' = dopList
          /\ UNCHANGED <<faultStatus, tvList, detects, dopList>>
      BY <2>3 DEF Found, AtFault, circuitVars, commandVars
    <3>2. QED
      BY <1>2, <3>1 DEF Kept, WithStatus, Generated, ToDo
  <2>4. CASE ProvedUntestable
    <3>1. /\ pc' = "loop" /\ pc = "loop"
          /\ faultStatus' = [faultStatus EXCEPT ![order[pos]] = "Untestable"]
          /\ UNCHANGED <<tvList, detects, dopList>>
      BY <2>4 DEF ProvedUntestable, AtFault, circuitVars, commandVars
    <3>2. WithStatus("Detected")' \subseteq WithStatus("Detected")
      BY <1>2, <3>1 DEF WithStatus, BaseInv, AtpgTypeOK
    <3>3. QED
      BY <1>2, <3>1, <3>2 DEF Kept, Generated
  <2>5. CASE DopTvList
    <3>1. NextDop("DopTvList") /\ tvList' = Append(tvList, tv) /\ faultStatus' = faultStatus
      BY <2>5 DEF DopTvList
    <3>2. pc = "dop" /\ UNCHANGED <<detects, dopList, tv>>
      BY <1>2, <3>1, NextDopFacts DEF Dop, circuitVars, commandVars
    <3>3. Generated' = Generated \cup {tv}
      BY <1>2, <3>1, AppendElements DEF BaseInv, AtpgTypeOK, Generated
    <3>4. QED
      BY <1>2, <3>1, <3>2, <3>3 DEF Kept, WithStatus
  <2>6. CASE DopBase
    <3>1. /\ NextDop("DopBase") /\ faultStatus' = [faultStatus EXCEPT ![target] = "Detected"]
          /\ tvList' = tvList
      BY <2>6 DEF DopBase
    <3>2. /\ pc = "dop" /\ ToDo' = ToDo \ {"DopBase"} /\ "DopBase" \in ToDo
          /\ \A e \in ToDo' : Place["DopBase"] < Place[e]
          /\ UNCHANGED <<detects, dopList, tv, target>>
      BY <1>2, <3>1, NextDopFacts DEF Dop, circuitVars, commandVars
    <3>3. "DopTvList" \notin ToDo
      BY <3>2 DEF Place
    <3>4. tv \in Generated /\ tv \in detects[target]
      BY <1>2, <3>2, <3>3 DEF Kept, BaseInv, AtpgTypeOK, EngineIsSound, TargetPhase
    <3>5. WithStatus("Detected")' \subseteq WithStatus("Detected") \cup {target}
      BY <1>2, <3>1 DEF WithStatus, BaseInv, AtpgTypeOK
    <3>6. Generated' = Generated
      BY <3>1 DEF Generated
    <3>7. QED
      BY <1>2, <3>2, <3>4, <3>5, <3>6 DEF Kept
  <2>7. CASE DopDrop
    <3>1. /\ NextDop("DopDrop") /\ tvList' = tvList
          /\ faultStatus' = [f \in Fault |-> IF f \in Dropped THEN "Detected" ELSE faultStatus[f]]
      BY <2>7 DEF DopDrop
    <3>2. /\ pc = "dop" /\ ToDo' = ToDo \ {"DopDrop"}
          /\ \A e \in ToDo' : Place["DopDrop"] < Place[e]
          /\ UNCHANGED <<detects, dopList, tv>>
      BY <1>2, <3>1, NextDopFacts DEF Dop, circuitVars, commandVars
    <3>3. "DopTvList" \notin ToDo
      BY <3>2 DEF Place
    <3>4. tv \in Generated
      BY <1>2, <3>2, <3>3 DEF Kept
    <3>5. \A f \in WithStatus("Detected")' :
            f \in WithStatus("Detected") \/ tv \in detects[f]
      BY <3>1 DEF WithStatus, Dropped
    <3>6. Generated' = Generated
      BY <3>1 DEF Generated
    <3>7. QED
      BY <1>2, <3>2, <3>4, <3>5, <3>6 DEF Kept
  <2>8. CASE DopVerify
    <3>1. NextDop("DopVerify") /\ UNCHANGED <<faultStatus, tvList>>
      BY <2>8 DEF DopVerify
    <3>2. /\ pc = "dop" /\ ToDo' = ToDo \ {"DopVerify"}
          /\ UNCHANGED <<detects, dopList, tv>>
      BY <1>2, <3>1, NextDopFacts DEF Dop, circuitVars, commandVars
    <3>3. QED
      BY <1>2, <3>1, <3>2 DEF Kept, WithStatus, Generated
  <2>9. CASE UNCHANGED atpgVars
    BY <1>2, <2>9 DEF atpgVars, circuitVars, commandVars, Kept, WithStatus, Generated, ToDo
  <2>10. QED
    BY <1>2, <2>1, <2>2, <2>3, <2>4, <2>5, <2>6, <2>7, <2>8, <2>9 DEF AtpgNext
<1>3. Kept /\ Covered => DetectedIsCovered
  BY DEF DetectedIsCovered, Generated, ToSet
<1>4. (Kept /\ Covered) /\ BaseInv /\ [AtpgNext]_atpgVars => (Kept /\ Covered)'
  BY <1>2
<1> HIDE DEF Covered
<1>5. QED
  BY <1>1, <1>3, <1>4, BaseInvariance, PTL DEF AtpgSpec

\* As long as every command is given -drop, a vector is generated only for a
\* fault that no earlier vector detects, so each of them adds to the coverage.
THEOREM NoVectorIsWasted ==
  ASSUME \A options \in CommandOptions : "drop" \in options
  PROVE  AtpgSpec => []EveryVectorCounts
<1> DEFINE Inv == NotYetDropped /\ EveryVectorCounts
<1>1. AtpgInit => Inv
  BY DEF AtpgInit, NotYetDropped, EveryVectorCounts, Generated, ToSet
<1>2. ASSUME BaseInv, Inv, [AtpgNext]_atpgVars PROVE Inv'
  <2> USE DEF circuitVars, commandVars
  <2>1. ASSUME UNCHANGED <<tvList, detects>> PROVE EveryVectorCounts'
    BY <1>2, <2>1 DEF EveryVectorCounts
  <2>2. ASSUME NEW options \in CommandOptions, NEW o \in Orders, Command(options, o)
        PROVE  Inv'
    <3>1. pc = "idle" /\ pc' = "loop" /\ "DopDrop" \in ToSet(dopList')
          /\ UNCHANGED <<faultStatus, tvList, detects>>
      BY <2>2, DopListShape DEF Command
    <3>2. NotYetDropped'
      BY <1>2, <3>1 DEF NotYetDropped, WithStatus, Generated
    <3>3. QED
      BY <2>1, <3>1, <3>2
  <2>3. CASE PassOver \/ Aborted \/ Finish \/ DopsDone
    <3>1. /\ pc # "idle" /\ pc' # "dop" /\ (pc = "dop" => ToDo = {})
          /\ UNCHANGED <<faultStatus, tvList, detects, dopList>>
      BY <2>3 DEF PassOver, Aborted, Finish, DopsDone, AtFault, ToDo, ToSet
    <3>2. NotYetDropped'
      BY <1>2, <3>1 DEF NotYetDropped, WithStatus, Generated
    <3>3. QED
      BY <2>1, <3>1, <3>2
  <2>4. ASSUME NEW v \in Vector, Found(v) PROVE Inv'
    <3>1. /\ pc = "loop" /\ todo' = dopList
          /\ UNCHANGED <<faultStatus, tvList, detects, dopList>>
      BY <2>4 DEF Found, AtFault
    <3>2. "DopBase" \in ToDo' /\ "DopDrop" \in ToDo'
      BY <1>2, <3>1 DEF NotYetDropped, BaseInv, OperationsInOrder, ToDo
    <3>3. NotYetDropped'
      BY <1>2, <3>1, <3>2 DEF NotYetDropped, WithStatus, Generated
    <3>4. QED
      BY <2>1, <3>1, <3>3
  <2>5. CASE ProvedUntestable
    <3>1. /\ pc' = "loop" /\ pc = "loop"
          /\ faultStatus' = [faultStatus EXCEPT ![order[pos]] = "Untestable"]
          /\ UNCHANGED <<tvList, detects, dopList>>
      BY <2>5 DEF ProvedUntestable, AtFault
    <3>2. WithStatus("Undetected")' \subseteq WithStatus("Undetected")
      BY <1>2, <3>1 DEF WithStatus, BaseInv, AtpgTypeOK
    <3>3. NotYetDropped'
      BY <1>2, <3>1, <3>2 DEF NotYetDropped, Generated
    <3>4. QED
      BY <2>1, <3>1, <3>3
  <2>6. CASE DopTvList
    <3>1. NextDop("DopTvList") /\ tvList' = Append(tvList, tv) /\ faultStatus' = faultStatus
      BY <2>6 DEF DopTvList
    <3>2. /\ pc = "dop" /\ pc' = "dop" /\ "DopTvList" \in ToDo
          /\ ToDo' = ToDo \ {"DopTvList"} /\ UNCHANGED <<detects, dopList, tv>>
      BY <1>2, <3>1, NextDopFacts DEF Dop
    <3>3. Generated' = Generated \cup {tv}
      BY <1>2, <3>1, AppendElements DEF BaseInv, AtpgTypeOK, Generated
    <3>4. "DopBase" \in ToDo /\ "DopDrop" \in ToDo /\ "DopDrop" \in ToDo'
      BY <1>2, <3>2 DEF NotYetDropped
    <3>5. \A f \in WithStatus("Undetected") : \A v \in Generated : v \notin detects[f]
      BY <1>2, <3>2 DEF NotYetDropped
    <3>6. NotYetDropped'
      BY <1>2, <3>1, <3>2, <3>3, <3>4, <3>5 DEF NotYetDropped, WithStatus
    <3>7. EveryVectorCounts'
      <4>1. /\ tvList \in Seq(Vector) /\ tv \in Vector /\ Len(tvList) \in Nat
            /\ DOMAIN tvList = 1 .. Len(tvList) /\ DOMAIN tvList' = 1 .. Len(tvList) + 1
            /\ \A i \in 1 .. Len(tvList) : tvList'[i] = tvList[i]
            /\ tvList'[Len(tvList) + 1] = tv
        BY <1>2, <3>1 DEF BaseInv, AtpgTypeOK
      <4>2. /\ target \in Fault /\ tv \in detects[target]
            /\ \A v \in Generated : v \notin detects[target]
        BY <1>2, <3>2, <3>4, <3>5
           DEF BaseInv, AtpgTypeOK, TargetPhase, EngineIsSound, WithStatus
      <4>3. \A i \in 1 .. Len(tvList) : tvList[i] \notin detects[target]
        BY <4>1, <4>2 DEF Generated, ToSet
      <4> SUFFICES ASSUME NEW j \in DOMAIN tvList'
                   PROVE  \E f \in Fault : /\ tvList'[j] \in detects[f]
                                           /\ \A i \in 1 .. j - 1 : tvList'[i] \notin detects[f]
        BY <3>2 DEF EveryVectorCounts
      <4>4. CASE j = Len(tvList) + 1
        BY <4>1, <4>2, <4>3, <4>4
      <4>5. CASE j \in DOMAIN tvList
        <5>1. PICK f \in Fault : /\ tvList[j] \in detects[f]
                                 /\ \A i \in 1 .. j - 1 : tvList[i] \notin detects[f]
          BY <1>2, <4>5 DEF EveryVectorCounts
        <5>2. \A i \in 1 .. j - 1 : i \in 1 .. Len(tvList)
          BY <4>1, <4>5
        <5>3. QED
          BY <4>1, <4>5, <5>1, <5>2
      <4>6. QED
        BY <4>1, <4>4, <4>5
    <3>8. QED
      BY <3>6, <3>7
  <2>7. CASE DopBase
    <3>1. /\ NextDop("DopBase") /\ faultStatus' = [faultStatus EXCEPT ![target] = "Detected"]
          /\ tvList' = tvList
      BY <2>7 DEF DopBase
    <3>2. /\ pc = "dop" /\ pc' = "dop" /\ ToDo' = ToDo \ {"DopBase"}
          /\ \A e \in ToDo' : Place["DopBase"] < Place[e]
          /\ UNCHANGED <<detects, dopList, tv>>
      BY <1>2, <3>1, NextDopFacts DEF Dop
    <3>3. "DopTvList" \notin ToDo'
      BY <3>2 DEF Place
    <3>4. WithStatus("Undetected")' \subseteq WithStatus("Undetected")
      BY <1>2, <3>1 DEF WithStatus, BaseInv, AtpgTypeOK
    <3>5. NotYetDropped'
      BY <1>2, <3>1, <3>2, <3>3, <3>4 DEF NotYetDropped, Generated
    <3>6. QED
      BY <2>1, <3>1, <3>2, <3>5
  <2>8. CASE DopDrop
    <3>1. /\ NextDop("DopDrop") /\ tvList' = tvList
          /\ faultStatus' = [f \in Fault |-> IF f \in Dropped THEN "Detected" ELSE faultStatus[f]]
      BY <2>8 DEF DopDrop
    <3>2. /\ pc = "dop" /\ ToDo' = ToDo \ {"DopDrop"}
          /\ \A e \in ToDo' : Place["DopDrop"] < Place[e]
          /\ pc' = "dop" /\ UNCHANGED <<detects, dopList, tv>>
      BY <1>2, <3>1, NextDopFacts DEF Dop
    <3>3. "DopTvList" \notin ToDo' /\ "DopBase" \notin ToDo
      BY <3>2 DEF Place
    <3>4. faultStatus[target] = "Detected"
      BY <1>2, <3>2, <3>3 DEF BaseInv, TargetPhase
    <3>5. ASSUME NEW f \in WithStatus("Undetected")'
          PROVE  f \in WithStatus("Undetected") /\ tv \notin detects[f]
      <4>1. f \in Fault /\ f \notin Dropped /\ faultStatus[f] = "Undetected"
        BY <3>1, <3>5 DEF WithStatus
      <4>2. f \notin skip /\ f # target
        BY <1>2, <3>2, <3>4, <4>1 DEF BaseInv, SkipOnlyClassified
      <4>3. QED
        BY <4>1, <4>2 DEF Dropped, WithStatus
    <3>6. NotYetDropped'
      BY <1>2, <3>1, <3>2, <3>3, <3>5 DEF NotYetDropped, Generated
    <3>7. QED
      BY <2>1, <3>1, <3>2, <3>6
  <2>9. CASE DopVerify
    <3>1. NextDop("DopVerify") /\ UNCHANGED <<faultStatus, tvList>>
      BY <2>9 DEF DopVerify
    <3>2. /\ pc = "dop" /\ pc' = "dop" /\ ToDo' = ToDo \ {"DopVerify"}
          /\ UNCHANGED <<detects, dopList, tv>>
      BY <1>2, <3>1, NextDopFacts DEF Dop
    <3>3. NotYetDropped'
      BY <1>2, <3>1, <3>2 DEF NotYetDropped, WithStatus, Generated
    <3>4. QED
      BY <2>1, <3>1, <3>2, <3>3
  <2>10. CASE UNCHANGED atpgVars
    BY <1>2, <2>1, <2>10 DEF atpgVars, NotYetDropped, WithStatus, Generated, ToDo
  <2>11. QED
    BY <1>2, <2>2, <2>3, <2>4, <2>5, <2>6, <2>7, <2>8, <2>9, <2>10 DEF AtpgNext
<1>3. Inv /\ BaseInv /\ [AtpgNext]_atpgVars => Inv'
  BY <1>2
<1>4. Inv => EveryVectorCounts
  OBVIOUS
<1> HIDE DEF Inv
<1>5. QED
  BY <1>1, <1>3, <1>4, BaseInvariance, PTL DEF AtpgSpec
=============================================================================
