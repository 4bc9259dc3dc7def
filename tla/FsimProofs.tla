----------------------------- MODULE FsimProofs -----------------------------
(***************************************************************************)
(* What TLAPS proves about the fault simulator, for every network, fault   *)
(* list and width of a word: it keeps the contract of the event queue, no  *)
(* fault is reported twice, and every call reports exactly the faults that *)
(* its patterns detect (Fsim implements FaultSimulation).                  *)
(*                                                                         *)
(* The argument, from the bottom to the top:                               *)
(*   - a gate passes a change of one input to its output when the other    *)
(*     inputs have values that let it through, and only then, whatever the *)
(*     unknown values turn out to be;                                      *)
(*   - a change inside an FFR reaches the outputs only by its root, so     *)
(*     that tracing the region (_fault_prop()) and simulating the root is  *)
(*     the same as evaluating the faulty network;                          *)
(*   - this holds in each lane of the words by itself;                     *)
(*   - the sweeps list the faults they find once, in order;                *)
(*   - the lanes of sppfp() belong to one FFR from trigger to sweep: an    *)
(*     FFR comes once in the loop, and ffr_buff is emptied when it has as  *)
(*     many as a word has lanes;                                           *)
(*   - between two turns of the loop, what has been reported is right for  *)
(*     the FFRs that are done, and the others wait in ffr_buff (RInv).     *)
(*                                                                         *)
(* Of the sequential simulation (Wsa): in a circuit with one primary input *)
(* at most, calc_wsa() returns the transitions of the synchronous machine  *)
(* after any number of cycles.  The hypothesis is where the fault of       *)
(* calc_wsa() begins: it gives every primary input the value of the first. *)
(* The property compares the words in the nodes with a machine that is     *)
(* replayed from the recorded inputs.  Two facts carry its proof: the      *)
(* values of a network depend on its inputs and flip-flops only, and the   *)
(* replay of a longer history begins with that of the shorter one.         *)
(***************************************************************************)
EXTENDS Fsim, Wsa, NetworkLemmas

-----------------------------------------------------------------------------
(* A gate and the side inputs of one input.                                *)

\* What _calc_gobs() says of the side inputs of one input.
SidesPass(n, p, s) == \A i \in DOMAIN Fanin[n] \ {p} : s[i] \in Transparent(GateType[n])

\* r and s differ at input p, where one is 0 and the other 1.
OneOpposite(n, p, r, s) ==
  /\ p \in DOMAIN Fanin[n] /\ Opposite(r[p], s[p])
  /\ \A i \in DOMAIN Fanin[n] \ {p} : r[i] = s[i]

LEMMA XorFlips ==
  ASSUME NEW n \in Node, ~ IsInput(n), NEW p, NEW r, NEW s, FaninList(n, r), FaninList(n, s),
         OneOpposite(n, p, r, s), r[p] = "0", s[p] = "1",
         \A i \in DOMAIN Fanin[n] \ {p} : s[i] \in {"0", "1"}
  PROVE  Opposite(XorOf(r), XorOf(s))
<1> DEFINE Ones(t) == {i \in DOMAIN t : t[i] = "1"}
<1>1. ~ Some(r, "X") /\ ~ Some(s, "X")
  BY DEF OneOpposite, FaninList, Some, Opposite
<1>2. Ones(s) = Ones(r) \cup {p} /\ p \notin Ones(r)
  BY DEF OneOpposite, FaninList
<1>3. IsFiniteSet(Ones(r))
  <2>1. IsFiniteSet(1 .. Len(Fanin[n]))
    BY FaninFacts, FS_Interval
  <2>2. Ones(r) \subseteq 1 .. Len(Fanin[n])
    BY FaninFacts DEF FaninList
  <2> QED BY <2>1, <2>2, FS_Subset
<1>4. Cardinality(Ones(s)) = Cardinality(Ones(r)) + 1 /\ Cardinality(Ones(r)) \in Nat
  <2> HIDE DEF Ones
  <2> QED BY <1>2, <1>3, FS_AddElement, FS_CardinalityType
<1>5. \A c \in Nat : c % 2 = 1 <=> (c + 1) % 2 # 1
  OBVIOUS
<1>6. Cardinality(Ones(r)) % 2 = 1 <=> Cardinality(Ones(s)) % 2 # 1
  <2> HIDE DEF Ones
  <2> QED BY <1>4, <1>5
<1>7. \A t : XorOf(t) = IF Some(t, "X") THEN "X" ELSE IF Cardinality(Ones(t)) % 2 = 1 THEN "1" ELSE "0"
  BY DEF XorOf
<1> HIDE DEF Ones
<1> QED BY <1>1, <1>6, <1>7 DEF Opposite

LEMMA Opposites ==
  /\ \A u, v : Opposite(u, v) <=> (u = "0" /\ v = "1") \/ (u = "1" /\ v = "0")
  /\ \A u, v : Opposite(u, v) <=> Opposite(v, u)
  /\ \A u, v \in Val3 : Opposite(Complement(u), Complement(v)) <=> Opposite(u, v)
  BY DEF Opposite, Complement, Val3

\* What a difference at input p makes of the output.
Passes(n, p, s, u, v) ==
  IF SidesPass(n, p, s) THEN Opposite(u, v) ELSE Refines(u, v) \/ Refines(v, u)

LEMMA AndPasses ==
  ASSUME NEW n \in Node, GateType[n] \in {"And", "Nand"}, NEW p, NEW r, NEW s,
         FaninList(n, r), FaninList(n, s), OneOpposite(n, p, r, s)
  PROVE  Passes(n, p, s, AndOf(r), AndOf(s))
<1>1. p \in DOMAIN Fanin[n] /\ \A i \in DOMAIN Fanin[n] : r[i] \in Val3 /\ s[i] \in Val3
      /\ DOMAIN r = DOMAIN Fanin[n] /\ DOMAIN s = DOMAIN Fanin[n]
  BY DEF OneOpposite, FaninList
<1>2. (r[p] = "0" /\ s[p] = "1") \/ (r[p] = "1" /\ s[p] = "0")
  BY Opposites DEF OneOpposite
<1>3. \A i \in DOMAIN Fanin[n] \ {p} : r[i] = s[i]
  BY DEF OneOpposite
<1>4. SidesPass(n, p, s) <=> \A i \in DOMAIN Fanin[n] \ {p} : s[i] = "1"
  BY DEF SidesPass, Transparent
<1>5. CASE SidesPass(n, p, s)
  <2>1. AndOf(r) = r[p] /\ AndOf(s) = s[p]
    BY <1>1, <1>2, <1>3, <1>4, <1>5 DEF AndOf, Some
  <2> QED BY <1>2, <1>5, <2>1, Opposites DEF Passes
<1>6. CASE ~ SidesPass(n, p, s)
  <2>1. PICK i \in DOMAIN Fanin[n] \ {p} : s[i] # "1"
    BY <1>4, <1>6
  <2>2. CASE s[i] = "0"
    BY <1>1, <1>3, <1>6, <2>1, <2>2 DEF AndOf, Some, Refines, Passes
  <2>3. CASE s[i] = "X" /\ Some(s, "0")
    <3>1. AndOf(s) = "0" /\ AndOf(r) \in {"0", "X"}
      BY <1>1, <1>3, <2>1, <2>3 DEF AndOf, Some
    <3> QED BY <1>6, <3>1 DEF Refines, Passes
  <2>4. CASE s[i] = "X" /\ ~ Some(s, "0")
    <3>1. AndOf(s) = "X"
      BY <1>1, <1>3, <2>1, <2>4 DEF AndOf, Some
    <3> QED BY <1>6, <3>1 DEF Refines, Passes
  <2> QED BY <1>1, <2>1, <2>2, <2>3, <2>4 DEF Val3
<1> QED BY <1>5, <1>6

LEMMA OrPasses ==
  ASSUME NEW n \in Node, GateType[n] \in {"Or", "Nor"}, NEW p, NEW r, NEW s,
         FaninList(n, r), FaninList(n, s), OneOpposite(n, p, r, s)
  PROVE  Passes(n, p, s, OrOf(r), OrOf(s))
<1>1. p \in DOMAIN Fanin[n] /\ \A i \in DOMAIN Fanin[n] : r[i] \in Val3 /\ s[i] \in Val3
      /\ DOMAIN r = DOMAIN Fanin[n] /\ DOMAIN s = DOMAIN Fanin[n]
  BY DEF OneOpposite, FaninList
<1>2. (r[p] = "0" /\ s[p] = "1") \/ (r[p] = "1" /\ s[p] = "0")
  BY Opposites DEF OneOpposite
<1>3. \A i \in DOMAIN Fanin[n] \ {p} : r[i] = s[i]
  BY DEF OneOpposite
<1>4. SidesPass(n, p, s) <=> \A i \in DOMAIN Fanin[n] \ {p} : s[i] = "0"
  BY DEF SidesPass, Transparent
<1>5. CASE SidesPass(n, p, s)
  <2>1. OrOf(r) = r[p] /\ OrOf(s) = s[p]
    BY <1>1, <1>2, <1>3, <1>4, <1>5 DEF OrOf, Some
  <2> QED BY <1>2, <1>5, <2>1, Opposites DEF Passes
<1>6. CASE ~ SidesPass(n, p, s)
  <2>1. PICK i \in DOMAIN Fanin[n] \ {p} : s[i] # "0"
    BY <1>4, <1>6
  <2>2. CASE s[i] = "1"
    BY <1>1, <1>3, <1>6, <2>1, <2>2 DEF OrOf, Some, Refines, Passes
  <2>3. CASE s[i] = "X" /\ Some(s, "1")
    <3>1. OrOf(s) = "1" /\ OrOf(r) \in {"1", "X"}
      BY <1>1, <1>3, <2>1, <2>3 DEF OrOf, Some
    <3> QED BY <1>6, <3>1 DEF Refines, Passes
  <2>4. CASE s[i] = "X" /\ ~ Some(s, "1")
    <3>1. OrOf(s) = "X"
      BY <1>1, <1>3, <2>1, <2>4 DEF OrOf, Some
    <3> QED BY <1>6, <3>1 DEF Refines, Passes
  <2> QED BY <1>1, <2>1, <2>2, <2>3, <2>4 DEF Val3
<1> QED BY <1>5, <1>6

LEMMA XorPasses ==
  ASSUME NEW n \in Node, GateType[n] \in {"Xor", "Xnor"}, NEW p, NEW r, NEW s,
         FaninList(n, r), FaninList(n, s), OneOpposite(n, p, r, s)
  PROVE  Passes(n, p, s, XorOf(r), XorOf(s))
<1>1. p \in DOMAIN Fanin[n] /\ \A i \in DOMAIN Fanin[n] : r[i] \in Val3 /\ s[i] \in Val3
      /\ DOMAIN r = DOMAIN Fanin[n] /\ DOMAIN s = DOMAIN Fanin[n]
  BY DEF OneOpposite, FaninList
<1>2. (r[p] = "0" /\ s[p] = "1") \/ (r[p] = "1" /\ s[p] = "0")
  BY Opposites DEF OneOpposite
<1>3. \A i \in DOMAIN Fanin[n] \ {p} : r[i] = s[i]
  BY DEF OneOpposite
<1>4. SidesPass(n, p, s) <=> \A i \in DOMAIN Fanin[n] \ {p} : s[i] \in {"0", "1"}
  BY DEF SidesPass, Transparent
<1>5. CASE SidesPass(n, p, s)
  <2>1. ~ IsInput(n) /\ OneOpposite(n, p, s, r)
    BY Opposites DEF IsInput, OneOpposite
  <2>2. \A i \in DOMAIN Fanin[n] \ {p} : s[i] \in {"0", "1"} /\ r[i] \in {"0", "1"}
    BY <1>3, <1>4, <1>5
  <2>3. CASE r[p] = "0" /\ s[p] = "1"
    BY <1>5, <2>1, <2>2, <2>3, XorFlips DEF Passes
  <2>4. CASE r[p] = "1" /\ s[p] = "0"
    <3>1. Opposite(XorOf(s), XorOf(r))
      BY <2>1, <2>2, <2>4, XorFlips
    <3> QED BY <1>5, <3>1, Opposites DEF Passes
  <2> QED BY <1>2, <2>3, <2>4
<1>6. CASE ~ SidesPass(n, p, s)
  <2>1. PICK i \in DOMAIN Fanin[n] \ {p} : s[i] = "X"
    BY <1>1, <1>4, <1>6 DEF Val3
  <2>2. XorOf(r) = "X"
    BY <1>1, <1>3, <2>1 DEF XorOf, Some
  <2> QED BY <1>6, <2>2 DEF Passes, Refines
<1> QED BY <1>5, <1>6

LEMMA GatePasses ==
  ASSUME NEW n \in Node, ~ IsInput(n), NEW p, NEW r, NEW s, FaninList(n, r), FaninList(n, s),
         OneOpposite(n, p, r, s)
  PROVE  Passes(n, p, s, GateFunction(GateType[n], r), GateFunction(GateType[n], s))
<1> DEFINE type == GateType[n]
           base(t) == IF type \in {"And", "Nand"} THEN AndOf(t)
                      ELSE IF type \in {"Or", "Nor"} THEN OrOf(t)
                      ELSE IF type \in {"Xor", "Xnor"} THEN XorOf(t)
                      ELSE t[1]
<1>1. Passes(n, p, s, base(r), base(s))
  <2>1. CASE type \in {"And", "Nand"}
    BY <2>1, AndPasses
  <2>2. CASE type \in {"Or", "Nor"}
    BY <2>2, OrPasses
  <2>3. CASE type \in {"Xor", "Xnor"}
    BY <2>3, XorPasses
  <2>4. CASE type \in {"Buff", "Not"}
    <3>1. DOMAIN Fanin[n] = {1}
      BY <2>4, FaninFacts, EdgeAssumption
    <3>2. p = 1 /\ Opposite(r[1], s[1]) /\ SidesPass(n, p, s)
      BY <3>1 DEF OneOpposite, SidesPass
    <3> QED BY <2>4, <3>2 DEF Passes
  <2> QED BY <2>1, <2>2, <2>3, <2>4, FaninFacts DEF IsInput, GateTypes
<1>2. base(r) \in Val3 /\ base(s) \in Val3
  <2>1. r[1] \in Val3 /\ s[1] \in Val3
    BY FaninFacts DEF FaninList
  <2>2. \A t : AndOf(t) \in Val3 /\ OrOf(t) \in Val3 /\ XorOf(t) \in Val3
    BY DEF AndOf, OrOf, XorOf, Val3
  <2> HIDE DEF Val3
  <2> QED BY <2>1, <2>2
<1>3. \A t : GateFunction(type, t) =
               IF type \in {"Not", "Nand", "Nor", "Xnor"} THEN Complement(base(t)) ELSE base(t)
  BY DEF GateFunction
<1>4. \A u, v \in Val3 : Passes(n, p, s, u, v) => Passes(n, p, s, Complement(u), Complement(v))
  BY DEF Passes, Opposite, Refines, Complement, Val3
<1> HIDE DEF base
<1> QED BY <1>1, <1>2, <1>3, <1>4

-----------------------------------------------------------------------------
(* Fanout-free regions.                                                    *)

\* From a node towards the outputs, some height decreases.
LEMMA UpwardRank ==
  ASSUME NEW n0 \in Node
  PROVE  \E h \in [Node -> Nat] : \A n, m \in Node : Feeds(n, m) => h[m] < h[n]
<1>1. PICK top \in Node : \A n \in Node : Level[n] <= Level[top]
  BY HighestNode
<1> DEFINE h == [n \in Node |-> Level[top] - Level[n]]
<1>2. h \in [Node -> Nat]
  BY <1>1, LevelAssumption
<1>3. \A n, m \in Node : Feeds(n, m) => h[m] < h[n]
  <2> SUFFICES ASSUME NEW n \in Node, NEW m \in Node, Feeds(n, m) PROVE h[m] < h[n]
    OBVIOUS
  <2>1. Level[n] < Level[m]
    BY FeedsAbove
  <2>2. Level[n] \in Nat /\ Level[m] \in Nat /\ Level[top] \in Nat
    BY LevelAssumption
  <2> QED BY <2>1, <2>2
<1> QED BY <1>2, <1>3

\* A node inside a region and the one node it feeds.
Inside(n) == n \in Node /\ FfrRoot[n] # n
Next1(n) == Fanout[n][1]

LEMMA InsideFacts ==
  ASSUME NEW n, Inside(n)
  PROVE  /\ n \in Node \ Output /\ Len(Fanout[n]) = 1
         /\ Next1(n) \in Node /\ Feeds(n, Next1(n))
         /\ \A m \in Node : Feeds(n, m) => m = Next1(n)
         /\ FfrRoot[n] = FfrRoot[Next1(n)]
<1>1. n \in Node \ Output /\ Len(Fanout[n]) = 1 /\ FfrRoot[n] = FfrRoot[Next1(n)]
  BY FfrAssumption DEF Inside, Next1
<1>2. Fanout[n] \in Seq(Node) /\ DOMAIN Fanout[n] = {1} /\ Next1(n) \in Node
  <2>1. Fanout[n] \in Seq(Node)
    BY <1>1, NetAssumption
  <2>2. DOMAIN Fanout[n] = 1 .. 1 /\ Fanout[n][1] \in Node
    BY <1>1, <2>1
  <2> QED BY <2>1, <2>2 DEF Next1
<1>3. \A m \in Node : Feeds(n, m) <=> \E i \in DOMAIN Fanout[n] : Fanout[n][i] = m
  BY <1>1, FanoutAssumption DEF Feeds
<1> QED BY <1>1, <1>2, <1>3 DEF Next1

LEMMA RootsAreRoots ==
  ASSUME NEW n \in Node
  PROVE  FfrRoot[n] \in Node /\ FfrRoot[FfrRoot[n]] = FfrRoot[n]
         /\ \E i \in DOMAIN FfrList : FfrList[i] = FfrRoot[n]
<1>1. PICK h \in [Node -> Nat] : \A k, m \in Node : Feeds(k, m) => h[m] < h[k]
  BY UpwardRank
<1> DEFINE T == {k \in Node : FfrRoot[k] \in Node /\ FfrRoot[FfrRoot[k]] = FfrRoot[k]}
<1>2. ASSUME NEW k \in Node, \A m \in Node : h[m] < h[k] => m \in T
      PROVE  k \in T
  <2>1. CASE FfrRoot[k] = k
    BY <2>1
  <2>2. CASE FfrRoot[k] # k
    <3>1. Inside(k)
      BY <2>2 DEF Inside
    <3>2. Next1(k) \in T
      BY <1>1, <1>2, <3>1, InsideFacts
    <3> QED BY <3>1, <3>2, InsideFacts
  <2> QED BY <2>1, <2>2
<1>3. Node \subseteq T
  <2> HIDE DEF T
  <2> QED BY <1>2, RankInduction
<1>4. FfrRoot[n] \in Node /\ FfrRoot[FfrRoot[n]] = FfrRoot[n]
  BY <1>3
<1> QED BY <1>4, FfrAssumption

\* A node that is its own root has been marked by set_network(): the walk up
\* from any other node ends above it.
LEMMA RootsAreMarked ==
  ASSUME NEW n \in Node, FfrRoot[n] = n, n \notin Output
  PROVE  Len(Fanout[n]) # 1
<1> SUFFICES ASSUME Len(Fanout[n]) = 1 PROVE FALSE
  OBVIOUS
<1> DEFINE m == Fanout[n][1]
           T == {k \in Node : Level[k] <= Level[FfrRoot[k]]}
<1>1. FfrRoot[m] = n
  BY FfrAssumption
<1>2. m \in Node /\ Feeds(n, m)
  <2>1. Fanout[n] \in Seq(Node)
    BY NetAssumption
  <2>2. 1 \in DOMAIN Fanout[n] /\ m \in Node
    BY <2>1
  <2> QED BY <2>2, FanoutAssumption DEF Feeds
<1>3. ASSUME NEW k \in Node, \A j \in Node : Feeds(k, j) => j \in T
      PROVE  k \in T
  <2>1. \A j \in Node : Level[j] \in Nat
    BY LevelAssumption
  <2>2. CASE FfrRoot[k] = k
    BY <2>1, <2>2
  <2>3. CASE FfrRoot[k] # k
    <3>1. Next1(k) \in Node /\ Feeds(k, Next1(k)) /\ FfrRoot[k] = FfrRoot[Next1(k)]
      BY <2>3, InsideFacts DEF Inside
    <3>2. Level[k] < Level[Next1(k)] /\ Level[Next1(k)] <= Level[FfrRoot[k]]
      BY <1>3, <3>1, FeedsAbove
    <3>3. FfrRoot[k] \in Node
      BY RootsAreRoots
    <3> QED BY <2>1, <3>1, <3>2, <3>3
  <2> QED BY <2>2, <2>3
<1>4. Node \subseteq T
  <2>1. PICK h \in [Node -> Nat] : \A k, j \in Node : Feeds(k, j) => h[j] < h[k]
    BY UpwardRank
  <2>2. \A k \in Node : (\A j \in Node : h[j] < h[k] => j \in T) => k \in T
    BY <1>3, <2>1
  <2> HIDE DEF T
  <2> QED BY <2>1, <2>2, RankInduction
<1>5. Level[m] <= Level[n] /\ Level[n] < Level[m]
  BY <1>1, <1>2, <1>4, FeedsAbove
<1> QED BY <1>2, <1>5, LevelAssumption

LEMMA ListedNodes ==
  ASSUME NEW i \in Nat \ {0}, i <= Len(FfrList), FfrList[i] \notin Output
  PROVE  Len(Fanout[FfrList[i]]) # 1
<1>1. FfrList[i] \in Node /\ FfrRoot[FfrList[i]] = FfrList[i]
  BY FfrAssumption
<1> QED BY <1>1, RootsAreMarked

RootObsFrom(obs) ==
  [n \in Node |-> IF FfrRoot[n] = n THEN Lane
                  ELSE CalcGobs(Fanout[n][1], FanoutIpos[n]) \cap obs[Fanout[n][1]]]

LEMMA RootObsSolves == RootObs = RootObsFrom(RootObs) /\ RootObs \in [Node -> SUBSET Lane]
<1>1. RootObs = CHOOSE obs : obs = RootObsFrom(obs)
  BY DEF RootObs, RootObsFrom
<1> DEFINE G == [f \in [Node -> SUBSET Lane] |-> RootObsFrom(f)]
<1>2. CASE Node = {}
  <2>1. \A f : RootObsFrom(f) = [n \in {} |-> Lane]
    BY <1>2 DEF RootObsFrom
  <2> QED BY <1>1, <1>2, <2>1
<1>3. CASE Node # {}
  <2>1. PICK h \in [Node -> Nat] : \A k, m \in Node : Feeds(k, m) => h[m] < h[k]
    BY <1>3, UpwardRank
  <2>2. IsRecursion(G, Node, SUBSET Lane, h)
    <3>1. [Node -> SUBSET Lane] # {}
      <4>1. [n \in Node |-> {}] \in [Node -> SUBSET Lane]
        OBVIOUS
      <4> QED BY <4>1
    <3>2. \A f \in [Node -> SUBSET Lane] : RootObsFrom(f) \in [Node -> SUBSET Lane]
      BY DEF RootObsFrom, CalcGobs
    <3>3. ASSUME NEW f \in [Node -> SUBSET Lane], NEW g \in [Node -> SUBSET Lane], NEW n \in Node,
                 \A m \in Node : h[m] < h[n] => f[m] = g[m]
          PROVE  RootObsFrom(f)[n] = RootObsFrom(g)[n]
      <4>1. CASE FfrRoot[n] = n
        BY <4>1 DEF RootObsFrom
      <4>2. CASE FfrRoot[n] # n
        <5>1. Next1(n) \in Node /\ h[Next1(n)] < h[n]
          BY <2>1, <4>2, InsideFacts DEF Inside
        <5> QED BY <3>3, <4>2, <5>1 DEF RootObsFrom, Next1
      <4> QED BY <4>1, <4>2
    <3> QED BY <3>1, <3>2, <3>3 DEF IsRecursion
  <2>3. PICK f \in [Node -> SUBSET Lane] : f = G[f]
    <3> HIDE DEF G
    <3> QED BY <2>2, RecursionExists
  <2>4. f = RootObsFrom(f)
    BY <2>3
  <2>5. RootObs = RootObsFrom(RootObs)
    BY <1>1, <2>4
  <2>6. \A g : RootObsFrom(g) = [n \in Node |-> RootObsFrom(g)[n]]
    BY DEF RootObsFrom
  <2>7. ASSUME NEW n \in Node, \A m \in Node : h[m] < h[n] => RootObs[m] = f[m]
        PROVE  RootObs[n] = f[n]
    <3>1. CASE FfrRoot[n] = n
      BY <2>4, <2>5, <3>1 DEF RootObsFrom
    <3>2. CASE FfrRoot[n] # n
      <4>1. Next1(n) \in Node /\ h[Next1(n)] < h[n]
        BY <2>1, <3>2, InsideFacts DEF Inside
      <4>2. RootObs[Next1(n)] = f[Next1(n)]
        BY <2>7, <4>1
      <4>3. \A g : RootObsFrom(g)[n] = CalcGobs(Fanout[n][1], FanoutIpos[n]) \cap g[Next1(n)]
        BY <3>2 DEF RootObsFrom, Next1
      <4> QED BY <2>4, <2>5, <4>2, <4>3
    <3> QED BY <3>1, <3>2
  <2>8. RootObs = [n \in Node |-> RootObs[n]] /\ f = [n \in Node |-> f[n]]
    BY <2>4, <2>5, <2>6
  <2>9. AgreeUpwards(RootObs, f, Node, h)
    BY <2>7, <2>8 DEF AgreeUpwards
  <2>10. RootObs = f
    BY <2>9, RecursionUnique
  <2> QED BY <2>5, <2>10
<1> QED BY <1>2, <1>3

\* The values in one lane.
LaneOf(v, b) == [n \in Node |-> v[n][b]]

LEMMA GobsInLane ==
  ASSUME NEW b \in Lane, NEW n \in Node, NEW p
  PROVE  b \in CalcGobs(n, p) <=> SidesPass(n, p, FaninsOf(n, LaneOf(val, b)))
<1>1. \A i \in DOMAIN Fanin[n] : FaninsOf(n, LaneOf(val, b))[i] = val[Fanin[n][i]][b]
  BY FaninFacts DEF FaninsOf, LaneOf
<1> QED BY <1>1 DEF CalcGobs, SidesPass

\* One node further: the change at a node inside a region can be told as a
\* change of the node it feeds, which passes as _calc_gobs() says.
LEMMA OneNodeOn ==
  ASSUME NEW b \in Lane, NEW n, Inside(n), NEW v, v = LaneOf(val, b), Sound(v),
         NEW u, Driven(u, v, n), Opposite(u[n], v[n])
  PROVE  \E w : /\ Driven(w, v, Next1(n))
                /\ \A o \in Output : w[o] = u[o]
                /\ IF b \in CalcGobs(Next1(n), FanoutIpos[n])
                   THEN Opposite(w[Next1(n)], v[Next1(n)])
                   ELSE Refines(w[Next1(n)], v[Next1(n)]) \/ Refines(v[Next1(n)], w[Next1(n)])
<1> DEFINE m == Next1(n)
           p == FanoutIpos[n]
           w == [u EXCEPT ![n] = v[n]]
<1>1. /\ n \in Node \ Output /\ m \in Node /\ Feeds(n, m) /\ m # n /\ ~ IsInput(m)
      /\ \A k \in Node : Feeds(n, k) => k = m
      /\ Level[n] < Level[m] /\ Level[m] \in Nat
  BY InsideFacts, FeedsAbove, LevelAssumption
<1>2. u \in Pattern /\ v \in Pattern
  BY DEF Driven, Sound
<1>3. \A k \in Node : k # n /\ Level[k] < Level[m] => u[k] = v[k]
  <2>1. \A k \in Node : Feeds(n, k) => Level[k] >= Level[m]
    BY <1>1
  <2> QED BY <1>1, <2>1, UnchangedBelow
<1>4. w \in Pattern /\ w[n] = v[n] /\ \A k \in Node : k # n => w[k] = u[k]
  BY <1>1, <1>2 DEF Pattern
<1> HIDE DEF w
<1>5. Driven(w, v, m)
  <2> SUFFICES ASSUME NEW k \in Node \ {m} PROVE w[k] = IF IsInput(k) THEN v[k] ELSE GateIn(k, w)
    BY <1>4 DEF Driven
  <2>1. CASE k # n
    <3>1. \A j \in Node : Feeds(j, k) => w[j] = u[j]
      BY <1>1, <1>4
    <3>2. GateIn(k, w) = GateIn(k, u)
      BY <3>1, SameFanins
    <3> QED BY <1>4, <2>1, <3>2 DEF Driven
  <2>2. CASE k = n
    <3>1. \A j \in Node : Level[j] \in Nat
      BY LevelAssumption
    <3>2. \A j \in Node : Feeds(j, n) => Level[j] < Level[n]
      BY <1>1, FeedsAbove
    <3>3. \A j \in Node : Feeds(j, n) => w[j] = v[j]
      BY <1>1, <1>3, <1>4, <3>1, <3>2
    <3>4. GateIn(n, w) = GateIn(n, v)
      BY <1>1, <3>3, SameFanins
    <3> QED BY <1>1, <1>4, <2>2, <3>4 DEF Sound
  <2> QED BY <2>1, <2>2
<1>6. w[m] = GateIn(m, u) /\ v[m] = GateIn(m, v)
  BY <1>1, <1>4 DEF Driven, Sound
<1>7. OneOpposite(m, p, FaninsOf(m, u), FaninsOf(m, v))
  <2>1. p \in DOMAIN Fanin[m] /\ \A i \in DOMAIN Fanin[m] : Fanin[m][i] = n <=> i = p
    BY <1>1, InsideFacts, EdgeAssumption DEF Next1
  <2>2. \A i \in DOMAIN Fanin[m] \ {p} : u[Fanin[m][i]] = v[Fanin[m][i]]
    BY <1>1, <1>3, <2>1, FaninFacts
  <2> QED BY <2>1, <2>2 DEF OneOpposite, FaninsOf
<1>8. Passes(m, p, FaninsOf(m, v), w[m], v[m])
  <2>1. FaninList(m, FaninsOf(m, u)) /\ FaninList(m, FaninsOf(m, v))
    BY <1>1, <1>2, FaninsOfType
  <2> QED BY <1>1, <1>6, <1>7, <2>1, GatePasses DEF GateIn
<1>9. b \in CalcGobs(m, p) <=> SidesPass(m, p, FaninsOf(m, v))
  BY <1>1, GobsInLane
<1>10. \A o \in Output : w[o] = u[o]
  BY <1>1, <1>4, NetAssumption
<1> QED BY <1>5, <1>8, <1>9, <1>10 DEF Passes

\* A change at a node of a region reaches its root as a change in the lanes of
\* RootObs, and is seen at no output in the others.
ReachesRoot(n, b, v) ==
  \A u : Driven(u, v, n) /\ Opposite(u[n], v[n]) =>
    IF b \in RootObs[n]
    THEN \E w : /\ Driven(w, v, FfrRoot[n])
                /\ Opposite(w[FfrRoot[n]], v[FfrRoot[n]])
                /\ \A o \in Output : w[o] = u[o]
    ELSE \A o \in Output : ~ Opposite(u[o], v[o])

LEMMA RegionExact ==
  ASSUME NEW b \in Lane, NEW v, v = LaneOf(val, b), Sound(v), NEW n \in Node
  PROVE  ReachesRoot(n, b, v)
<1>1. PICK h \in [Node -> Nat] : \A k, m \in Node : Feeds(k, m) => h[m] < h[k]
  BY UpwardRank
<1> DEFINE T == {k \in Node : ReachesRoot(k, b, v)}
<1>2. ASSUME NEW k \in Node, \A m \in Node : h[m] < h[k] => m \in T
      PROVE  k \in T
  <2> SUFFICES ASSUME NEW u, Driven(u, v, k), Opposite(u[k], v[k])
               PROVE  IF b \in RootObs[k]
                      THEN \E w : /\ Driven(w, v, FfrRoot[k])
                                  /\ Opposite(w[FfrRoot[k]], v[FfrRoot[k]])
                                  /\ \A o \in Output : w[o] = u[o]
                      ELSE \A o \in Output : ~ Opposite(u[o], v[o])
    BY DEF ReachesRoot
  <2>1. RootObs[k] = IF FfrRoot[k] = k THEN Lane
                     ELSE CalcGobs(Next1(k), FanoutIpos[k]) \cap RootObs[Next1(k)]
    BY RootObsSolves DEF RootObsFrom, Next1
  <2>2. CASE FfrRoot[k] = k
    BY <2>1, <2>2
  <2>3. CASE FfrRoot[k] # k
    <3>1. Inside(k)
      BY <2>3 DEF Inside
    <3>2. PICK w : /\ Driven(w, v, Next1(k))
                   /\ \A o \in Output : w[o] = u[o]
                   /\ IF b \in CalcGobs(Next1(k), FanoutIpos[k])
                      THEN Opposite(w[Next1(k)], v[Next1(k)])
                      ELSE Refines(w[Next1(k)], v[Next1(k)]) \/ Refines(v[Next1(k)], w[Next1(k)])
      BY <3>1, OneNodeOn
    <3>3. Next1(k) \in T /\ Next1(k) \in Node /\ FfrRoot[k] = FfrRoot[Next1(k)]
      BY <1>1, <1>2, <3>1, InsideFacts
    <3>4. CASE b \in CalcGobs(Next1(k), FanoutIpos[k])
      <4>1. IF b \in RootObs[Next1(k)]
            THEN \E x : /\ Driven(x, v, FfrRoot[k])
                        /\ Opposite(x[FfrRoot[k]], v[FfrRoot[k]])
                        /\ \A o \in Output : x[o] = w[o]
            ELSE \A o \in Output : ~ Opposite(w[o], v[o])
        BY <3>2, <3>3, <3>4 DEF ReachesRoot
      <4> QED BY <2>1, <2>3, <3>2, <3>4, <4>1
    <3>5. CASE b \notin CalcGobs(Next1(k), FanoutIpos[k])
      <4>1. \A o \in Node : ~ Opposite(w[o], v[o])
        BY <3>2, <3>3, <3>5, RefinedAbove
      <4> QED BY <2>1, <2>3, <3>2, <3>5, <4>1, NetAssumption
    <3> QED BY <3>4, <3>5
  <2> QED BY <2>2, <2>3
<1>3. Node \subseteq T
  <2> HIDE DEF T
  <2> QED BY <1>2, RankInduction
<1> QED BY <1>3

-----------------------------------------------------------------------------
(* The values of one pattern, with and without a fault.                    *)

Under(in, f, u) ==
  [n \in Node |->
     IF f.node = n /\ f.pos = 0 THEN f.val
     ELSE IF IsInput(n) THEN in[n]
     ELSE GateFunction(GateType[n],
            [i \in DOMAIN Fanin[n] |->
               IF f.node = n /\ f.pos = i THEN f.val ELSE u[Fanin[n][i]]])]

LEMMA UnderDepends ==
  ASSUME NEW in, NEW f, NEW u, NEW w, NEW n \in Node, AgreeBelow(u, w, n)
  PROVE  Under(in, f, u)[n] = Under(in, f, w)[n]
<1>1. \A i \in DOMAIN Fanin[n] : u[Fanin[n][i]] = w[Fanin[n][i]]
  BY FaninFacts DEF AgreeBelow
<1>2. [i \in DOMAIN Fanin[n] |-> IF f.node = n /\ f.pos = i THEN f.val ELSE u[Fanin[n][i]]]
      = [i \in DOMAIN Fanin[n] |-> IF f.node = n /\ f.pos = i THEN f.val ELSE w[Fanin[n][i]]]
  BY <1>1
<1> QED BY <1>2 DEF Under

InputsOk(in) == \A n \in Node : IsInput(n) => in[n] \in Val3

LEMMA UnderType ==
  ASSUME NEW in, InputsOk(in), NEW f, f.val \in Val3, NEW u \in Pattern
  PROVE  Under(in, f, u) \in Pattern
<1>1. ASSUME NEW n \in Node, ~ IsInput(n)
      PROVE  GateFunction(GateType[n],
               [i \in DOMAIN Fanin[n] |->
                  IF f.node = n /\ f.pos = i THEN f.val ELSE u[Fanin[n][i]]]) \in Val3
  <2> DEFINE s == [i \in DOMAIN Fanin[n] |->
                     IF f.node = n /\ f.pos = i THEN f.val ELSE u[Fanin[n][i]]]
  <2>1. FaninList(n, s)
    BY FaninFacts DEF FaninList, Pattern
  <2> HIDE DEF s
  <2>2. GateFunction(GateType[n], s) \in Val3
    BY <1>1, <2>1, GateType3
  <2> QED BY <2>2 DEF s
<1> QED BY <1>1 DEF Under, Pattern, InputsOk

LEMMA UnderUnique ==
  ASSUME NEW in, NEW f, NEW u, NEW w, u = Under(in, f, u), w = Under(in, f, w)
  PROVE  u = w
<1>1. \A n \in Node : AgreeBelow(u, w, n) => u[n] = w[n]
  BY UnderDepends
<1>2. \A x : Under(in, f, x) = [n \in Node |-> Under(in, f, x)[n]]
  BY DEF Under
<1>3. u = [n \in Node |-> u[n]] /\ w = [n \in Node |-> w[n]]
  BY <1>2
<1>4. AgreeUpwards(u, w, Node, Level)
  BY <1>1, <1>3, LevelAssumption DEF AgreeUpwards, AgreeBelow
<1> QED BY <1>4, RecursionUnique

LEMMA UnderSolves ==
  ASSUME NEW in, InputsOk(in), NEW f, f.val \in Val3
  PROVE  /\ ValuesUnder(in, f) \in Pattern
         /\ ValuesUnder(in, f) = Under(in, f, ValuesUnder(in, f))
         /\ \A u : u = Under(in, f, u) => u = ValuesUnder(in, f)
<1> DEFINE G == [u \in Pattern |-> Under(in, f, u)]
           solution == CHOOSE u : u = Under(in, f, u)
<1>1. IsRecursion(G, Node, Val3, Level)
  <2>1. [Node -> Val3] # {}
    <3>1. [n \in Node |-> "0"] \in [Node -> Val3]
      BY DEF Val3
    <3> QED BY <3>1
  <2>2. G \in [[Node -> Val3] -> [Node -> Val3]]
    <3>1. \A u \in Pattern : Under(in, f, u) \in Pattern
      BY UnderType
    <3> QED BY <3>1 DEF Pattern
  <2>3. ASSUME NEW u \in [Node -> Val3], NEW w \in [Node -> Val3], NEW n \in Node,
               \A m \in Node : Level[m] < Level[n] => u[m] = w[m]
        PROVE  G[u][n] = G[w][n]
    <3>1. Under(in, f, u)[n] = Under(in, f, w)[n]
      BY <2>3, UnderDepends DEF AgreeBelow
    <3> QED BY <3>1 DEF Pattern
  <2> HIDE DEF G
  <2> QED BY <2>1, <2>2, <2>3, LevelAssumption DEF IsRecursion
<1>2. PICK u \in [Node -> Val3] : u = G[u]
  <2> HIDE DEF G
  <2> QED BY <1>1, RecursionExists
<1>3. u = Under(in, f, u) /\ u \in Pattern
  BY <1>2 DEF Pattern
<1>4. solution = Under(in, f, solution)
  BY <1>3
<1> HIDE DEF solution
<1>5. solution = u
  BY <1>3, <1>4, UnderUnique
<1>6. ValuesUnder(in, f) = [n \in Node |-> solution[n]]
  BY Zenon DEF ValuesUnder, Under, solution
<1>7. ValuesUnder(in, f) = u
  BY <1>3, <1>5, <1>6 DEF Pattern
<1> QED BY <1>3, <1>7, UnderUnique

LEMMA UnderNoFault ==
  ASSUME NEW in, NEW v
  PROVE  Under(in, NoFault, v) = [n \in Node |-> IF IsInput(n) THEN in[n] ELSE GateIn(n, v)]
<1>1. \A n \in Node : NoFault.node # n
  BY NetAssumption DEF NoFault
<1>2. ASSUME NEW n \in Node
      PROVE  [i \in DOMAIN Fanin[n] |->
                IF NoFault.node = n /\ NoFault.pos = i THEN NoFault.val ELSE v[Fanin[n][i]]]
             = FaninsOf(n, v)
  BY <1>1 DEF FaninsOf
<1> QED BY <1>1, <1>2 DEF Under, GateIn

\* A pattern that the network computes is what evaluation without fault gives.
LEMMA SoundIsFaultFree ==
  ASSUME NEW v, Sound(v), NEW in, \A n \in Node : IsInput(n) => in[n] = v[n]
  PROVE  InputsOk(in) /\ ValuesUnder(in, NoFault) = v
<1>1. v = Under(in, NoFault, v)
  <2>1. v = [n \in Node |-> v[n]]
    BY DEF Sound, Pattern
  <2>2. \A n \in Node : v[n] = IF IsInput(n) THEN in[n] ELSE GateIn(n, v)
    BY DEF Sound
  <2>3. Under(in, NoFault, v) = [n \in Node |-> IF IsInput(n) THEN in[n] ELSE GateIn(n, v)]
    BY UnderNoFault
  <2>4. [n \in Node |-> v[n]] = [n \in Node |-> IF IsInput(n) THEN in[n] ELSE GateIn(n, v)]
    BY <2>2
  <2> QED BY <2>1, <2>3, <2>4
<1>2. InputsOk(in) /\ NoFault.val \in Val3
  BY DEF InputsOk, Sound, Pattern, NoFault, Val3
<1> QED BY <1>1, <1>2, UnderSolves

LEMMA FaultFacts ==
  ASSUME NEW f \in Faults
  PROVE  /\ f.node \in Node /\ InputNode(f) \in Node
         /\ f.val \in {"0", "1"} /\ f.val \in Val3
         /\ f.pos # 0 => f.pos \in DOMAIN Fanin[f.node] /\ InputNode(f) = Fanin[f.node][f.pos]
                         /\ ~ IsInput(f.node)
         /\ f.pos = 0 => InputNode(f) = f.node
<1>1. f.node \in Node /\ (f.pos = 0 \/ f.pos \in DOMAIN Fanin[f.node]) /\ f.val \in {"0", "1"}
  BY FaultAssumption
<1>2. f.pos # 0 => ~ IsInput(f.node)
  <2>1. f.pos # 0 => Fanin[f.node] # << >>
    BY <1>1
  <2> QED BY <1>1, <2>1, NetAssumption DEF IsInput
<1> QED BY <1>1, <1>2, FaninFacts DEF InputNode, Val3

\* What a fault makes of the node at which it sits.
StartsAs(f, v, x) ==
  LET line == v[InputNode(f)]
  IN  IF line = Complement(f.val)
      THEN IF f.pos = 0 THEN Opposite(x, v[f.node])
           ELSE Passes(f.node, f.pos, FaninsOf(f.node, v), x, v[f.node])
      ELSE Refines(x, v[f.node])

LEMMA FaultStarts ==
  ASSUME NEW v, Sound(v), NEW in, \A n \in Node : IsInput(n) => in[n] = v[n],
         NEW f \in Faults
  PROVE  /\ Driven(ValuesUnder(in, f), v, f.node)
         /\ StartsAs(f, v, ValuesUnder(in, f)[f.node])
<1> DEFINE u == ValuesUnder(in, f)
           n == f.node
<1>1. u \in Pattern /\ u = Under(in, f, u) /\ v \in Pattern
  BY SoundIsFaultFree, FaultFacts, UnderSolves DEF Sound
<1> HIDE DEF u
<1>2. Driven(u, v, n)
  <2> SUFFICES ASSUME NEW m \in Node \ {n} PROVE u[m] = IF IsInput(m) THEN v[m] ELSE GateIn(m, u)
    BY <1>1 DEF Driven
  <2>1. [i \in DOMAIN Fanin[m] |-> IF f.node = m /\ f.pos = i THEN f.val ELSE u[Fanin[m][i]]]
          = FaninsOf(m, u)
    BY DEF FaninsOf
  <2> QED BY <1>1, <2>1 DEF Under, GateIn
<1>3. StartsAs(f, v, u[n])
  <2>1. n \in Node /\ f.val \in {"0", "1"} /\ v[InputNode(f)] \in Val3 /\ v[n] \in Val3
    BY <1>1, FaultFacts DEF Pattern
  <2>2. CASE f.pos = 0
    <3>1. u[n] = f.val /\ InputNode(f) = n
      BY <1>1, <2>1, <2>2, FaultFacts DEF Under
    <3> QED BY <2>1, <2>2, <3>1 DEF StartsAs, Opposite, Refines, Complement, Val3
  <2>3. CASE f.pos # 0
    <3> DEFINE p == f.pos
               r == [i \in DOMAIN Fanin[n] |-> IF i = p THEN f.val ELSE v[Fanin[n][i]]]
               s == FaninsOf(n, v)
    <3>1. p \in DOMAIN Fanin[n] /\ ~ IsInput(n) /\ v[InputNode(f)] = s[p] /\ p # 0
      BY <2>3, FaultFacts DEF FaninsOf
    <3>2. \A i \in DOMAIN Fanin[n] : u[Fanin[n][i]] = v[Fanin[n][i]]
      <4>1. \A k \in Node : Level[k] \in Nat
        BY LevelAssumption
      <4>2. \A k \in Node : Feeds(n, k) => Level[k] >= Level[n]
        BY <2>1, <4>1, FeedsAbove
      <4>3. \A k \in Node : k # n /\ Level[k] < Level[n] => u[k] = v[k]
        BY <1>2, <2>1, <4>1, <4>2, UnchangedBelow
      <4> QED BY <2>1, <4>1, <4>3, FaninFacts
    <3>3. u[n] = GateFunction(GateType[n], r) /\ v[n] = GateFunction(GateType[n], s)
      <4>1. [i \in DOMAIN Fanin[n] |-> IF f.node = n /\ f.pos = i THEN f.val ELSE u[Fanin[n][i]]] = r
        BY <3>2
      <4>2. u[n] = GateFunction(GateType[n],
                [i \in DOMAIN Fanin[n] |-> IF f.node = n /\ f.pos = i THEN f.val ELSE u[Fanin[n][i]]])
        BY <1>1, <2>1, <2>3, <3>1 DEF Under
      <4> QED BY <2>1, <3>1, <4>1, <4>2 DEF Sound, GateIn
    <3>4. FaninList(n, s) /\ FaninList(n, r)
      <4>1. FaninList(n, s)
        BY <1>1, <2>1, FaninsOfType
      <4> QED BY <4>1, FaultFacts DEF FaninList, FaninsOf
    <3>5. \A i \in DOMAIN Fanin[n] \ {p} : r[i] = s[i]
      BY DEF FaninsOf
    <3>6. r[p] = f.val
      BY <3>1
    <3> HIDE DEF r, s
    <3>7. CASE v[InputNode(f)] = Complement(f.val)
      <4>1. Opposite(r[p], s[p])
        BY <2>1, <3>1, <3>6, <3>7 DEF Opposite, Complement
      <4>2. OneOpposite(n, p, r, s)
        BY <3>1, <3>5, <4>1 DEF OneOpposite
      <4>3. Passes(n, p, s, u[n], v[n])
        BY <2>1, <3>1, <3>3, <3>4, <4>2, GatePasses
      <4> QED BY <2>3, <3>7, <4>3 DEF StartsAs, s
    <3>8. CASE v[InputNode(f)] # Complement(f.val)
      <4>1. Refines(r[p], s[p])
        BY <2>1, <3>1, <3>6, <3>8 DEF Refines, Complement, Val3
      <4>2. \A i \in DOMAIN Fanin[n] : Refines(r[i], s[i])
        BY <3>5, <4>1 DEF Refines
      <4>3. Refines(u[n], v[n])
        BY <2>1, <3>1, <3>3, <3>4, <4>2, GateMonotone
      <4> QED BY <3>8, <4>3 DEF StartsAs
    <3> QED BY <3>7, <3>8
  <2> QED BY <2>2, <2>3
<1> QED BY <1>2, <1>3 DEF u

\* A change of node n of its own that is seen at an output.
SeenFrom(v, n) ==
  \E w : Driven(w, v, n) /\ Opposite(w[n], v[n]) /\ \E o \in Output : Opposite(w[o], v[o])

\* Tracing a fault to the root of its region is exact: it is detected if and
\* only if the lane is in the masks of _fault_prop(), for a stuck-at fault, and
\* a change of the root is seen.
LEMMA TraceExact ==
  ASSUME NEW b \in Lane, NEW v, v = LaneOf(val, b), Sound(v),
         NEW in, \A n \in Node : IsInput(n) => in[n] = v[n], NEW f \in Faults
  PROVE  Distinguished(in, f) <=>
           b \in FaultCond(f) \cap FfrProp(f) /\ SeenFrom(v, FfrRoot[f.node])
<1> DEFINE u == ValuesUnder(in, f)
           n == f.node
           Seen == \E o \in Output : Opposite(u[o], v[o])
<1>1. Driven(u, v, n) /\ StartsAs(f, v, u[n]) /\ n \in Node
  BY FaultStarts, FaultFacts
<1>2. Distinguished(in, f) <=> Seen
  BY SoundIsFaultFree, Opposites DEF Distinguished, Opposite
<1>3. b \in FaultCond(f) <=> v[InputNode(f)] = Complement(f.val)
  BY FaultFacts DEF FaultCond, LanesWith, LaneOf
<1> HIDE DEF u
<1>4. CASE b \notin FaultCond(f)
  <2>1. Refines(u[n], v[n])
    BY <1>1, <1>3, <1>4 DEF StartsAs
  <2>2. ~ Seen
    BY <1>1, <2>1, RefinedAbove, NetAssumption
  <2> QED BY <1>2, <1>4, <2>2
<1>5. CASE b \in FaultCond(f) /\ f.pos # 0 /\ b \notin CalcGobs(n, f.pos)
  <2>1. Refines(u[n], v[n]) \/ Refines(v[n], u[n])
    BY <1>1, <1>3, <1>5, GobsInLane DEF StartsAs, Passes
  <2>2. ~ Seen
    BY <1>1, <2>1, RefinedAbove, NetAssumption
  <2> QED BY <1>2, <1>5, <2>2 DEF FfrProp
<1>6. CASE b \in FaultCond(f) /\ (f.pos = 0 \/ b \in CalcGobs(n, f.pos))
  <2>1. Opposite(u[n], v[n])
    BY <1>1, <1>3, <1>6, GobsInLane DEF StartsAs, Passes
  <2>2. ReachesRoot(n, b, v)
    BY <1>1, RegionExact
  <2>3. b \in FfrProp(f) <=> b \in RootObs[n]
    BY <1>6, RootObsSolves DEF FfrProp
  <2>4. CASE b \notin RootObs[n]
    BY <1>1, <1>2, <2>1, <2>2, <2>3, <2>4 DEF ReachesRoot
  <2>5. CASE b \in RootObs[n]
    <3> DEFINE root == FfrRoot[n]
    <3>1. PICK w : /\ Driven(w, v, root) /\ Opposite(w[root], v[root])
                   /\ \A o \in Output : w[o] = u[o]
      BY <1>1, <2>1, <2>2, <2>5 DEF ReachesRoot
    <3>2. root \in Node
      BY <1>1, RootsAreRoots
    <3>3. ASSUME NEW x, Driven(x, v, root), Opposite(x[root], v[root]) PROVE x = w
      <4>1. x[root] = w[root]
        BY <3>1, <3>3, Opposites
      <4> QED BY <3>1, <3>2, <3>3, <4>1, DrivenUnique
    <3>4. Seen <=> SeenFrom(v, root)
      BY <3>1, <3>3 DEF SeenFrom
    <3> QED BY <1>2, <1>6, <2>3, <2>5, <3>4
  <2> QED BY <2>4, <2>5
<1> QED BY <1>4, <1>5, <1>6

-----------------------------------------------------------------------------
(* The packed words, lane by lane.                                         *)

Words == [Lane -> kind.vals]

LEMMA KindFacts ==
  ASSUME kind \in Simulators
  PROVE  /\ kind.vals \in ValueSets /\ kind.vals \subseteq Val3 /\ kind.faults \in {"SA", "TD"}
         /\ {"0", "1"} \subseteq kind.vals
         /\ \A x : AsVal(x) \in kind.vals
  BY DEF Simulators, ValueSets, Val3, AsVal

LEMMA CalcInLane ==
  ASSUME NEW n \in Node, NEW b \in Lane, NEW v
  PROVE  CalcVal(n, v)[b] = GateIn(n, LaneOf(v, b))
<1>1. FaninVals(n, v, b) = FaninsOf(n, LaneOf(v, b))
  BY FaninFacts DEF FaninVals, FaninsOf, LaneOf
<1> QED BY <1>1 DEF CalcVal, GateIn

LEMMA LaneOfType ==
  ASSUME kind \in Simulators, NEW v \in [Node -> Words], NEW b \in Lane
  PROVE  LaneOf(v, b) \in Pattern
  BY KindFacts DEF LaneOf, Pattern, Words

LEMMA GoodValueInLane ==
  ASSUME kind \in Simulators, NEW words, \A n \in Node : IsInput(n) => words[n] \in Words
  PROVE  /\ GoodValue(words) \in [Node -> Words]
         /\ \A b \in Lane : Sound(LaneOf(GoodValue(words), b))
         /\ \A n \in Node : IsInput(n) => GoodValue(words)[n] = words[n]
<1> DEFINE none == [n \in Node |-> {}]
           v == GoodValue(words)
<1>1. v \in [Node -> Words] /\ v = Evaluated(words, none, v)
  BY KindFacts, DirectSolves DEF GoodValue, Words
<1> HIDE DEF v
<1>2. \A n \in Node : \A b \in Lane :
        v[n][b] = (IF IsInput(n) THEN words[n] ELSE CalcVal(n, v))[b]
  <2>1. \A n \in Node : v[n] = Flip(IF IsInput(n) THEN words[n] ELSE CalcVal(n, v), {})
    BY <1>1 DEF Evaluated
  <2>2. \A w : \A b \in Lane : Flip(w, {})[b] = w[b]
    BY DEF Flip
  <2> QED BY <2>1, <2>2
<1>3. ASSUME NEW n \in Node, IsInput(n) PROVE v[n] = words[n]
  <2>1. v[n] \in Words /\ words[n] \in Words
    BY <1>1, <1>3
  <2> QED BY <1>2, <1>3, <2>1 DEF Words
<1>4. ASSUME NEW b \in Lane PROVE Sound(LaneOf(v, b))
  <2>1. LaneOf(v, b) \in Pattern
    BY <1>1, LaneOfType
  <2>2. \A n \in Node : ~ IsInput(n) => LaneOf(v, b)[n] = GateIn(n, LaneOf(v, b))
    BY <1>2, CalcInLane DEF LaneOf
  <2> QED BY <2>1, <2>2 DEF Sound
<1> QED BY <1>1, <1>3, <1>4 DEF v

-----------------------------------------------------------------------------
(* simulate(), lane by lane.                                               *)

ValuesOk == kind \in Simulators /\ val \in [Node -> Words] /\ \A b \in Lane : Sound(LaneOf(val, b))

LEMMA FaultyInLane ==
  ASSUME ValuesOk, NEW t, NEW b \in Lane
  PROVE  LET x == LaneOf(FaultyValue(val, t), b)
             v == LaneOf(val, b)
         IN  /\ FaultyValue(val, t) \in [Node -> Words] /\ x \in Pattern
             /\ \A n \in Node : LET y == IF IsInput(n) THEN v[n] ELSE GateIn(n, x)
                                IN  x[n] = IF b \in t[n] THEN Complement(y) ELSE y
<1> DEFINE F == FaultyValue(val, t)
<1>1. F \in [Node -> Words] /\ F = Evaluated(val, t, F)
  <2>1. \A n \in Node : IsInput(n) => val[n] \in [Lane -> kind.vals]
    BY DEF ValuesOk, Words
  <2> QED BY <2>1, KindFacts, DirectSolves DEF ValuesOk, FaultyValue, Words
<1> HIDE DEF F
<1>2. ASSUME NEW n \in Node
      PROVE  LET y == IF IsInput(n) THEN LaneOf(val, b)[n] ELSE GateIn(n, LaneOf(F, b))
             IN  LaneOf(F, b)[n] = IF b \in t[n] THEN Complement(y) ELSE y
  <2> DEFINE w == IF IsInput(n) THEN val[n] ELSE CalcVal(n, F)
  <2>1. F[n] = Flip(w, t[n])
    BY <1>1 DEF Evaluated
  <2>2. w[b] = IF IsInput(n) THEN LaneOf(val, b)[n] ELSE GateIn(n, LaneOf(F, b))
    BY CalcInLane DEF LaneOf
  <2> HIDE DEF w
  <2> QED BY <2>1, <2>2 DEF Flip, LaneOf
<1>3. LaneOf(F, b) \in Pattern
  BY <1>1, LaneOfType DEF ValuesOk
<1> QED BY <1>1, <1>2, <1>3 DEF F

\* An output tells a lane of two valuations apart.
LEMMA ObservedInLane ==
  ASSUME kind \in Simulators, NEW g \in [Node -> Words], NEW w \in [Node -> Words], NEW b \in Lane
  PROVE  b \in Observed(g, w) <=> \E o \in Output : Opposite(LaneOf(w, b)[o], LaneOf(g, b)[o])
<1>1. ASSUME NEW o \in Output
      PROVE  b \in Diff(g[o], w[o]) <=> Opposite(LaneOf(w, b)[o], LaneOf(g, b)[o])
  <2>1. o \in Node /\ g[o][b] \in Val3 /\ w[o][b] \in Val3
    BY KindFacts, NetAssumption DEF Words
  <2> QED BY <2>1, Opposites DEF Diff, LaneOf, Val3
<1> QED BY <1>1 DEF Observed

\* In lane b only the root is complemented.
OnlyTrigger(t, root, b) == b \in t[root] /\ \A n \in Node : n # root => b \notin t[n]

LEMMA SimulateInLane ==
  ASSUME ValuesOk, NEW t, NEW b \in Lane, NEW root \in Node, OnlyTrigger(t, root, b)
  PROVE  /\ b \in Simulate(t) => SeenFrom(LaneOf(val, b), root)
         /\ SeenFrom(LaneOf(val, b), root) => b \in Simulate(t)
<1> DEFINE F == FaultyValue(val, t)
           x == LaneOf(F, b)
           v == LaneOf(val, b)
<1>1. F \in [Node -> Words] /\ x \in Pattern /\ Sound(v) /\ v \in Pattern
      /\ \A n \in Node : x[n] = LET y == IF IsInput(n) THEN v[n] ELSE GateIn(n, x)
                                IN  IF b \in t[n] THEN Complement(y) ELSE y
  BY FaultyInLane DEF ValuesOk, Sound
<1> HIDE DEF F, x
<1>2. Driven(x, v, root)
  BY <1>1 DEF Driven, OnlyTrigger
<1>3. x[root] = Complement(v[root])
  <2>1. x[root] = Complement(IF IsInput(root) THEN v[root] ELSE GateIn(root, x))
    BY <1>1 DEF OnlyTrigger
  <2>2. CASE IsInput(root)
    BY <2>1, <2>2
  <2>3. CASE ~ IsInput(root)
    <3>1. \A k \in Node : Level[k] \in Nat
      BY LevelAssumption
    <3>2. \A k \in Node : Feeds(root, k) => Level[k] >= Level[root]
      BY <3>1, FeedsAbove
    <3>3. \A k \in Node : k # root /\ Level[k] < Level[root] => x[k] = v[k]
      BY <1>1, <1>2, <3>1, <3>2, UnchangedBelow
    <3>4. \A k \in Node : Feeds(k, root) => x[k] = v[k]
      BY <3>1, <3>3, FeedsAbove
    <3>5. GateIn(root, x) = GateIn(root, v)
      BY <3>4, SameFanins
    <3> QED BY <1>1, <2>1, <2>3, <3>5 DEF Sound
  <2> QED BY <2>2, <2>3
<1>4. b \in Simulate(t) <=> \E o \in Output : Opposite(x[o], v[o])
  BY <1>1, ObservedInLane DEF Simulate, F, x, ValuesOk
<1>5. v[root] \in Val3
  BY <1>1 DEF Pattern
<1>6. ASSUME b \in Simulate(t) PROVE SeenFrom(v, root)
  <2>1. PICK o \in Output : Opposite(x[o], v[o])
    BY <1>4, <1>6
  <2>2. v[root] # "X"
    <3>1. SUFFICES ASSUME v[root] = "X" PROVE FALSE
      OBVIOUS
    <3>2. Refines(x[root], v[root])
      BY <3>1 DEF Refines
    <3> QED BY <1>1, <1>2, <2>1, <3>2, RefinedAbove, NetAssumption
  <2>3. Opposite(x[root], v[root])
    BY <1>3, <1>5, <2>2 DEF Opposite, Complement, Val3
  <2> QED BY <1>2, <2>1, <2>3 DEF SeenFrom
<1>7. ASSUME SeenFrom(v, root) PROVE b \in Simulate(t)
  <2>1. PICK w : Driven(w, v, root) /\ Opposite(w[root], v[root])
                 /\ \E o \in Output : Opposite(w[o], v[o])
    BY <1>7 DEF SeenFrom
  <2>2. w[root] = x[root]
    BY <1>3, <2>1, Opposites DEF Complement
  <2>3. w = x
    BY <1>2, <2>1, <2>2, DrivenUnique
  <2> QED BY <1>4, <2>1, <2>3
<1> QED BY <1>6, <1>7

\* A lane without a trigger observes nothing.
LEMMA LaneUntouched ==
  ASSUME ValuesOk, NEW t, NEW b \in Lane, \A n \in Node : b \notin t[n]
  PROVE  b \notin Simulate(t)
<1> DEFINE F == FaultyValue(val, t)
           x == LaneOf(F, b)
           v == LaneOf(val, b)
<1>1. F \in [Node -> Words] /\ x \in Pattern /\ Sound(v) /\ v \in Pattern
      /\ \A n \in Node : x[n] = IF IsInput(n) THEN v[n] ELSE GateIn(n, x)
  BY FaultyInLane DEF ValuesOk, Sound
<1> HIDE DEF F, x
<1>2. ASSUME NEW n \in Node, \A m \in Node : Level[m] < Level[n] => x[m] = v[m]
      PROVE  x[n] = v[n]
  <2>1. GateIn(n, x) = GateIn(n, v)
    BY <1>2, FeedsAbove, SameFanins
  <2> QED BY <1>1, <2>1 DEF Sound
<1>3. AgreeUpwards(x, v, Node, Level)
  BY <1>1, <1>2, LevelAssumption DEF AgreeUpwards, Pattern
<1>4. x = v
  BY <1>3, RecursionUnique
<1>5. b \in Simulate(t) <=> \E o \in Output : Opposite(x[o], v[o])
  BY <1>1, ObservedInLane DEF Simulate, F, x, ValuesOk
<1> QED BY <1>4, <1>5, Opposites

-----------------------------------------------------------------------------
(* What _fault_prop() and simulate() say together is what detection means. *)

\* The values are those that _calc_gval() leaves for the test vectors tvs.
Loaded(tvs) ==
  IF kind.faults = "SA" THEN val = FirstValues(tvs)
  ELSE prevVal = FirstValues(tvs) /\ val = SecondValues(tvs, prevVal)

LEMMA FirstValuesInLane ==
  ASSUME kind \in Simulators, NEW tvs
  PROVE  /\ FirstValues(tvs) \in [Node -> Words]
         /\ \A b \in Lane : /\ Sound(LaneOf(FirstValues(tvs), b))
                            /\ LaneOf(FirstValues(tvs), b) = FirstCycle(tvs[b])
                            /\ \A n \in Node : IsInput(n) =>
                                 AsVal(tvs[b].ppi[n]) = LaneOf(FirstValues(tvs), b)[n]
<1> DEFINE words == [n \in PPI |-> [b \in Lane |-> AsVal(tvs[b].ppi[n])]]
           v == GoodValue(words)
<1>1. FirstValues(tvs) = v
  BY DEF FirstValues, InputWords
<1>2. \A n \in Node : IsInput(n) => n \in PPI /\ words[n] = [b \in Lane |-> AsVal(tvs[b].ppi[n])]
                                    /\ words[n] \in Words
  BY PpiAssumption, KindFacts DEF Words
<1> HIDE DEF words
<1>3. /\ v \in [Node -> Words]
      /\ \A b \in Lane : Sound(LaneOf(v, b))
      /\ \A n \in Node : IsInput(n) => v[n] = words[n]
  BY <1>2, GoodValueInLane
<1> HIDE DEF v
<1>4. ASSUME NEW b \in Lane, NEW n \in Node, IsInput(n)
      PROVE  AsVal(tvs[b].ppi[n]) = LaneOf(v, b)[n]
  <2>1. v[n] = [c \in Lane |-> AsVal(tvs[c].ppi[n])]
    BY <1>2, <1>3, <1>4
  <2>2. LaneOf(v, b)[n] = v[n][b]
    BY DEF LaneOf
  <2> QED BY <2>1, <2>2
<1>5. ASSUME NEW b \in Lane PROVE LaneOf(v, b) = FirstCycle(tvs[b])
  <2> DEFINE in == [n \in PPI |-> AsVal(tvs[b].ppi[n])]
  <2>1. \A n \in Node : IsInput(n) => in[n] = LaneOf(v, b)[n]
    BY <1>4, PpiAssumption
  <2>2. FirstCycle(tvs[b]) = ValuesUnder(in, NoFault)
    BY DEF FirstCycle
  <2> HIDE DEF in
  <2> QED BY <1>3, <2>1, <2>2, SoundIsFaultFree
<1> QED BY <1>1, <1>3, <1>4, <1>5

LEMMA SecondValuesInLane ==
  ASSUME kind \in Simulators, NEW tvs, NEW first, first = FirstValues(tvs)
  PROVE  /\ SecondValues(tvs, first) \in [Node -> Words]
         /\ \A b \in Lane : /\ Sound(LaneOf(SecondValues(tvs, first), b))
                            /\ \A n \in Node : IsInput(n) =>
                                 SecondInputs(tvs[b])[n] = LaneOf(SecondValues(tvs, first), b)[n]
<1> DEFINE next(n) == (CHOOSE d \in {Dff[i] : i \in DOMAIN Dff} : d[1] = n)[2]
           words == [n \in PPI |-> [b \in Lane |-> IF n \in DffOutputs THEN first[next(n)][b]
                                                   ELSE AsVal(tvs[b].aux[n])]]
           v == GoodValue(words)
<1>1. SecondValues(tvs, first) = v
  BY DEF SecondValues, InputWords
<1>2. first \in [Node -> Words] /\ \A b \in Lane : LaneOf(first, b) = FirstCycle(tvs[b])
  BY FirstValuesInLane
<1>3. \A n \in DffOutputs : next(n) \in Node
  <2> SUFFICES ASSUME NEW n \in DffOutputs PROVE next(n) \in Node
    OBVIOUS
  <2>1. \E d \in {Dff[i] : i \in DOMAIN Dff} : d[1] = n
    BY DEF DffOutputs
  <2>2. (CHOOSE d \in {Dff[i] : i \in DOMAIN Dff} : d[1] = n) \in {Dff[i] : i \in DOMAIN Dff}
    BY <2>1
  <2> QED BY <2>2, PpiAssumption, NetAssumption
<1> HIDE DEF next
<1>4. \A n \in Node : IsInput(n) => n \in PPI
  BY PpiAssumption
<1>5. \A n \in PPI : words[n] \in Words
  BY <1>2, <1>3, KindFacts DEF Words
<1>6. ASSUME NEW b \in Lane, NEW n \in PPI PROVE SecondInputs(tvs[b])[n] = words[n][b]
  <2>1. \A m \in Node : FirstCycle(tvs[b])[m] = first[m][b]
    BY <1>2 DEF LaneOf
  <2>2. SecondInputs(tvs[b])[n] = IF n \in DffOutputs THEN FirstCycle(tvs[b])[next(n)]
                                  ELSE AsVal(tvs[b].aux[n])
    BY DEF SecondInputs, next
  <2>3. words[n][b] = IF n \in DffOutputs THEN first[next(n)][b] ELSE AsVal(tvs[b].aux[n])
    OBVIOUS
  <2> HIDE DEF words
  <2>4. n \in DffOutputs => FirstCycle(tvs[b])[next(n)] = first[next(n)][b]
    BY <1>3, <2>1
  <2> QED BY <2>2, <2>3, <2>4
<1> HIDE DEF words
<1>7. /\ v \in [Node -> Words]
      /\ \A b \in Lane : Sound(LaneOf(v, b))
      /\ \A n \in Node : IsInput(n) => v[n] = words[n]
  BY <1>4, <1>5, GoodValueInLane
<1> HIDE DEF v
<1>8. \A b \in Lane : \A n \in Node : IsInput(n) => SecondInputs(tvs[b])[n] = LaneOf(v, b)[n]
  BY <1>4, <1>6, <1>7 DEF LaneOf
<1> QED BY <1>1, <1>7, <1>8

LEMMA LoadedFacts ==
  ASSUME kind \in Simulators, NEW tvs, Loaded(tvs)
  PROVE  ValuesOk
<1>1. CASE kind.faults = "SA"
  BY <1>1, FirstValuesInLane DEF Loaded, ValuesOk
<1>2. CASE kind.faults # "SA"
  BY <1>2, SecondValuesInLane DEF Loaded, ValuesOk
<1> QED BY <1>1, <1>2

LEMMA DetectsInLane ==
  ASSUME kind \in Simulators, NEW tvs, Loaded(tvs), NEW b \in Lane, NEW f \in Faults
  PROVE  Detects(tvs[b], f) <=> b \in FaultProp(f) /\ SeenFrom(LaneOf(val, b), FfrRoot[f.node])
<1>1. ValuesOk /\ Sound(LaneOf(val, b))
  BY LoadedFacts DEF ValuesOk
<1>2. CASE kind.faults = "SA"
  <2> DEFINE in == [n \in PPI |-> AsVal(tvs[b].ppi[n])]
  <2>1. \A n \in Node : IsInput(n) => in[n] = LaneOf(val, b)[n]
    BY <1>2, FirstValuesInLane, PpiAssumption DEF Loaded
  <2>2. Detects(tvs[b], f) <=> Distinguished(in, f)
    BY <1>2 DEF Detects
  <2>3. b \in FaultProp(f) <=> b \in FaultCond(f) \cap FfrProp(f)
    BY <1>2 DEF FaultProp
  <2> HIDE DEF in
  <2> QED BY <1>1, <2>1, <2>2, <2>3, TraceExact
<1>3. CASE kind.faults # "SA"
  <2> DEFINE in == SecondInputs(tvs[b])
  <2>1. \A n \in Node : IsInput(n) => in[n] = LaneOf(val, b)[n]
    BY <1>3, SecondValuesInLane DEF Loaded
  <2>2. LaneOf(prevVal, b) = FirstCycle(tvs[b])
    BY <1>3, FirstValuesInLane DEF Loaded
  <2>3. Detects(tvs[b], f) <=> b \in FaultPrevCond(f) /\ Distinguished(in, f)
    BY <1>3, <2>2, FaultFacts DEF Detects, FaultPrevCond, LanesWith, LaneOf
  <2>4. b \in FaultProp(f) <=> b \in FaultPrevCond(f) /\ b \in FaultCond(f) \cap FfrProp(f)
    BY <1>3 DEF FaultProp
  <2> HIDE DEF in
  <2> QED BY <1>1, <2>1, <2>3, <2>4, TraceExact
<1> QED BY <1>2, <1>3

-----------------------------------------------------------------------------
(* The lists of faults.                                                    *)

LEMMA FaultListFacts ==
  /\ FaultList \in Seq(Faults) /\ Len(FaultList) \in Nat
  /\ DOMAIN FaultList = 1 .. Len(FaultList)
  /\ Distinct(FaultList) /\ Elements(FaultList) = Faults
  BY FaultAssumption DEF Distinct, Elements, Faults

\* InOrder() lists the faults of a set, each once.
LEMMA InOrderFacts ==
  ASSUME NEW S, S \subseteq Faults
  PROVE  InOrder(S) \in Seq(Faults) /\ Elements(InOrder(S)) = S /\ Distinct(InOrder(S))
<1> DEFINE n == Len(FaultList)
           step == [i \in 1 .. n |-> [s \in Seq(Faults) |->
                      IF FaultList[i] \in S THEN Append(s, FaultList[i]) ELSE s]]
           E(g) == [i \in 0 .. n |-> IF i = 0 THEN << >>
                      ELSE IF FaultList[i] \in S THEN Append(g[i - 1], FaultList[i]) ELSE g[i - 1]]
           f == CHOOSE g : g = E(g)
           Before(i) == {FaultList[k] : k \in 1 .. i} \cap S
           Good == {i \in 0 .. n : /\ f[i] \in Seq(Faults) /\ Elements(f[i]) = Before(i)
                                   /\ Distinct(f[i])}
<1>1. /\ n \in Nat /\ FaultList \in Seq(Faults) /\ DOMAIN FaultList = 1 .. n
      /\ \A i \in 1 .. n : FaultList[i] \in Faults
      /\ \A i, j \in 1 .. n : FaultList[i] = FaultList[j] => i = j
  BY FaultListFacts DEF Distinct
<1>2. InOrder(S) = f[n]
  BY DEF InOrder
<1>3. PICK g \in [0 .. n -> Seq(Faults)] :
        g = Steps(n, << >>, step, g)
  <2>1. \A i \in 1 .. n, s \in Seq(Faults) : step[i][s] \in Seq(Faults)
    BY <1>1
  <2> HIDE DEF step, n
  <2>2. StepsIn(n, Seq(Faults), << >>, step)
    BY <1>1, <2>1 DEF StepsIn
  <2> QED BY <2>2, RecursionTo
<1>4. g = E(g)
  <2> HIDE DEF n
  <2>1. ASSUME NEW i \in 1 .. n
        PROVE  step[i][g[i - 1]]
               = IF FaultList[i] \in S THEN Append(g[i - 1], FaultList[i]) ELSE g[i - 1]
    <3>1. i - 1 \in 0 .. n
      BY <1>1
    <3> QED BY <3>1
  <2>2. \A i \in 0 .. n : i # 0 => i \in 1 .. n
    BY <1>1
  <2> HIDE DEF step
  <2>3. [i \in 0 .. n |-> IF i = 0 THEN << >> ELSE step[i][g[i - 1]]] = E(g)
    BY <2>1, <2>2
  <2>4. Steps(n, << >>, step, g) = [i \in 0 .. n |-> IF i = 0 THEN << >> ELSE step[i][g[i - 1]]]
    BY DEF Steps
  <2> QED BY <1>3, <2>3, <2>4
<1> HIDE DEF n, step, E
<1>5. f = E(f)
  BY <1>4
<1> HIDE DEF f
<1>6. f[0] = << >> /\ \A i \in 1 .. n :
        f[i] = IF FaultList[i] \in S THEN Append(f[i - 1], FaultList[i]) ELSE f[i - 1]
  <2>1. 0 \in 0 .. n /\ \A i \in 1 .. n : i \in 0 .. n /\ i # 0
    BY <1>1
  <2>2. E(f)[0] = << >> /\ \A i \in 1 .. n :
          E(f)[i] = IF FaultList[i] \in S THEN Append(f[i - 1], FaultList[i]) ELSE f[i - 1]
    BY <2>1 DEF E
  <2> QED BY <1>5, <2>2
<1>7. 0 \in Good
  <2>1. 1 .. 0 = {} /\ 0 \in 0 .. n
    BY <1>1
  <2>2. f[0] \in Seq(Faults) /\ Elements(f[0]) = {} /\ Distinct(f[0])
    BY <1>6 DEF Elements, Distinct
  <2> QED BY <2>1, <2>2
<1>8. ASSUME NEW i \in 1 .. n, i - 1 \in Good PROVE i \in Good
  <2>1. /\ i \in 0 .. n /\ i \in 1 .. i
        /\ \A k \in 1 .. i : k \in 1 .. n /\ (k = i \/ k \in 1 .. (i - 1))
        /\ \A k \in 1 .. (i - 1) : k # i /\ k \in 1 .. i
    BY <1>1
  <2>2. FaultList[i] \notin Before(i - 1)
    BY <1>1, <2>1
  <2>3. Before(i) = Before(i - 1) \cup ({FaultList[i]} \cap S)
    BY <2>1
  <2>4. f[i - 1] \in Seq(Faults) /\ Elements(f[i - 1]) = Before(i - 1) /\ Distinct(f[i - 1])
    BY <1>8
  <2> HIDE DEF Before
  <2>5. CASE FaultList[i] \in S
    <3>1. f[i] = Append(f[i - 1], FaultList[i])
      BY <1>6, <2>5
    <3>2. f[i] \in Seq(Faults) /\ Elements(f[i]) = Before(i - 1) \cup {FaultList[i]} /\ Distinct(f[i])
      BY <1>1, <2>2, <2>4, <3>1, AppendFacts
    <3>3. Before(i) = Before(i - 1) \cup {FaultList[i]}
      BY <2>3, <2>5
    <3> QED BY <2>1, <3>2, <3>3
  <2>6. CASE FaultList[i] \notin S
    <3>1. f[i] = f[i - 1]
      BY <1>6, <2>6
    <3>2. Before(i) = Before(i - 1)
      BY <2>3, <2>6
    <3> QED BY <2>1, <2>4, <3>1, <3>2
  <2> QED BY <2>5, <2>6
<1>9. n \in Good
  <2> HIDE DEF Good
  <2>1. n \in 0 .. n
    BY <1>1
  <2> QED BY <1>1, <1>7, <1>8, <2>1, InductionTo
<1>10. Before(n) = S
  BY <1>1, FaultListFacts DEF Elements
<1> HIDE DEF Before
<1> QED BY <1>2, <1>9, <1>10

\* A list without repetition is no longer than the fault list.
LEMMA NoLongerThanFaultList ==
  ASSUME NEW s \in Seq(Faults), Distinct(s)
  PROVE  Len(s) <= Len(FaultList)
<1> DEFINE m == Len(s)
           n == Len(FaultList)
           at == [i \in 1 .. m |-> CHOOSE k \in 1 .. n : FaultList[k] = s[i]]
<1>1. m \in Nat /\ n \in Nat /\ DOMAIN s = 1 .. m /\ \A i \in 1 .. m : s[i] \in Faults
  BY FaultListFacts
<1>2. \A i \in 1 .. m : \E k \in 1 .. n : FaultList[k] = s[i]
  BY <1>1, FaultListFacts DEF Elements
<1> HIDE DEF m, n
<1>3. at \in [1 .. m -> 1 .. n] /\ \A i \in 1 .. m : FaultList[at[i]] = s[i]
  BY <1>2
<1> HIDE DEF at
<1>4. ASSUME NEW i \in 1 .. m, NEW j \in 1 .. m, at[i] = at[j] PROVE i = j
  <2>1. s[i] = s[j]
    BY <1>3, <1>4
  <2> QED BY <1>1, <2>1 DEF Distinct
<1>5. /\ IsFiniteSet(1 .. m) /\ Cardinality(1 .. m) = m
      /\ IsFiniteSet(1 .. n) /\ Cardinality(1 .. n) = n
  BY <1>1, FS_Interval
<1>6. ~ (n < m)
  <2> SUFFICES ASSUME n < m PROVE FALSE
    OBVIOUS
  <2> DEFINE S == 1 .. m
             T == 1 .. n
  <2>1. /\ IsFiniteSet(S) /\ IsFiniteSet(T) /\ Cardinality(T) < Cardinality(S)
        /\ at \in [S -> T]
    BY <1>3, <1>5
  <2> HIDE DEF S, T
  <2>2. \E i, j \in S : i # j /\ at[i] = at[j]
    BY <2>1, FS_PigeonHole
  <2> QED BY <1>4, <2>2 DEF S
<1> QED BY <1>1, <1>6 DEF m, n

\* Lists one after another, each distinct and without a common element.
LEMMA FlattenFacts ==
  ASSUME NEW A, NEW ss \in Seq(Seq(A)),
         \A i \in DOMAIN ss : Distinct(ss[i]),
         \A i, j \in DOMAIN ss : i # j => Elements(ss[i]) \cap Elements(ss[j]) = {}
  PROVE  /\ FlattenSeq(ss) \in Seq(A)
         /\ Elements(FlattenSeq(ss)) = UNION {Elements(ss[i]) : i \in DOMAIN ss}
         /\ Distinct(FlattenSeq(ss))
<1> DEFINE n == Len(ss)
           step == [i \in 1 .. n |-> [s \in Seq(A) |-> s \o ss[i]]]
           E(g) == [i \in 1 .. n |-> IF i = 1 THEN ss[i] ELSE g[i - 1] \o ss[i]]
           f == CHOOSE g : g = E(g)
           UpTo(i) == UNION {Elements(ss[k]) : k \in 1 .. i}
           Good == {i \in 0 .. n : i # 0 => /\ f[i] \in Seq(A) /\ Elements(f[i]) = UpTo(i)
                                            /\ Distinct(f[i])}
<1>1. n \in Nat /\ DOMAIN ss = 1 .. n /\ \A i \in 1 .. n : ss[i] \in Seq(A)
  OBVIOUS
<1>2. CASE n = 0
  <2>1. FlattenSeq(ss) = ss /\ ss = << >>
    BY <1>2 DEF FlattenSeq
  <2> QED BY <2>1 DEF Elements, Distinct
<1>3. CASE n # 0
  <2>1. FlattenSeq(ss) = f[n]
    BY <1>3 DEF FlattenSeq
  <2> HIDE DEF n
  <2>2. PICK g \in [0 .. n -> Seq(A)] : g = Steps(n, << >>, step, g)
    <3>1. \A i \in 1 .. n, s \in Seq(A) : step[i][s] \in Seq(A)
      BY <1>1
    <3>2. << >> \in Seq(A)
      OBVIOUS
    <3> HIDE DEF step
    <3>3. StepsIn(n, Seq(A), << >>, step)
      BY <1>1, <3>1, <3>2 DEF StepsIn
    <3> QED BY <3>3, RecursionTo
  <2> DEFINE h == [i \in 1 .. n |-> g[i]]
  <2>3. h = E(h)
    <3>1. 0 \in 0 .. n /\ 1 \in 1 .. n
      BY <1>1, <1>3
    <3>2. g[0] = << >>
      BY <2>2, <3>1 DEF Steps
    <3>3. ASSUME NEW i \in 1 .. n PROVE g[i] = g[i - 1] \o ss[i]
      <4>1. i \in 0 .. n /\ i # 0 /\ i - 1 \in 0 .. n
        BY <1>1
      <4>2. g[i] = step[i][g[i - 1]]
        BY <2>2, <4>1 DEF Steps
      <4>3. g[i - 1] \in Seq(A)
        BY <4>1
      <4> QED BY <4>2, <4>3
    <3>4. g[1] = ss[1]
      <4>1. g[1] = << >> \o ss[1]
        <5>1. g[1] = g[1 - 1] \o ss[1]
          BY <3>1, <3>3
        <5>2. 1 - 1 = 0
          OBVIOUS
        <5> QED BY <3>2, <5>1, <5>2
      <4>2. << >> \o ss[1] = ss[1]
        BY <1>1, <3>1
      <4> QED BY <4>1, <4>2
    <3>5. \A i \in 1 .. n : i # 1 => i - 1 \in 1 .. n
      BY <1>1
    <3>6. \A i \in 1 .. n : h[i] = IF i = 1 THEN ss[i] ELSE h[i - 1] \o ss[i]
      BY <3>3, <3>4, <3>5
    <3> QED BY <3>6
  <2> HIDE DEF step, E, h
  <2>4. f = E(f)
    BY <2>3
  <2> HIDE DEF f
  <2>5. \A i \in 1 .. n : f[i] = IF i = 1 THEN ss[i] ELSE f[i - 1] \o ss[i]
    <3>1. \A i \in 1 .. n : E(f)[i] = IF i = 1 THEN ss[i] ELSE f[i - 1] \o ss[i]
      BY DEF E
    <3> QED BY <2>4, <3>1
  <2>6. ASSUME NEW i \in 1 .. n, i - 1 \in Good PROVE i \in Good
    <3>1. CASE i = 1
      <4>1. UpTo(1) = Elements(ss[1])
        <5>1. 1 .. 1 = {1}
          OBVIOUS
        <5> QED BY <5>1
      <4>2. i \in 0 .. n
        BY <1>1
      <4>3. f[i] = ss[i]
        <5> HIDE DEF UpTo, Good
        <5> QED BY <2>5, <3>1
      <4> HIDE DEF UpTo
      <4> QED BY <1>1, <3>1, <4>1, <4>2, <4>3
    <3>2. CASE i # 1
      <4>1. /\ i - 1 # 0 /\ i - 1 \in 1 .. n /\ i \in 0 .. n
            /\ \A k \in 1 .. i : k \in 1 .. n /\ (k = i \/ k \in 1 .. (i - 1))
            /\ \A k \in 1 .. (i - 1) : k # i /\ k \in 1 .. i /\ k \in 1 .. n
            /\ i \in 1 .. i
        <5> HIDE DEF UpTo, Good
        <5> QED BY <1>1, <3>2
      <4>2. UpTo(i) = UpTo(i - 1) \cup Elements(ss[i])
        <5>1. \A x \in UpTo(i) : x \in UpTo(i - 1) \cup Elements(ss[i])
          BY <4>1
        <5>2. \A x \in UpTo(i - 1) \cup Elements(ss[i]) : x \in UpTo(i)
          BY <4>1
        <5> HIDE DEF UpTo
        <5> QED BY <5>1, <5>2
      <4>3. UpTo(i - 1) \cap Elements(ss[i]) = {}
        BY <1>1, <4>1
      <4> HIDE DEF UpTo
      <4>4. f[i - 1] \in Seq(A) /\ Elements(f[i - 1]) = UpTo(i - 1) /\ Distinct(f[i - 1])
        BY <2>6, <4>1
      <4>5. f[i] = f[i - 1] \o ss[i]
        BY <2>5, <3>2
      <4>6. ss[i] \in Seq(A) /\ Distinct(ss[i])
        BY <1>1
      <4>7. f[i] \in Seq(A) /\ Elements(f[i]) = UpTo(i) /\ Distinct(f[i])
        BY <4>2, <4>3, <4>4, <4>5, <4>6, ConcatFacts
      <4> QED BY <4>1, <4>7
    <3> QED BY <3>1, <3>2
  <2>7. n \in Good
    <3>1. 0 \in Good /\ n \in 0 .. n
      BY <1>1
    <3> HIDE DEF Good
    <3> QED BY <1>1, <2>6, <3>1, InductionTo
  <2> QED BY <1>1, <1>3, <2>1, <2>7
<1> QED BY <1>2, <1>3

-----------------------------------------------------------------------------
(* What the loop makes of the lanes.                                       *)

LEMMA PropInLanes == \A f : FaultProp(f) \subseteq Lane
  BY DEF FaultProp, FaultCond, LanesWith

\* A change that reaches the root of its region complements the root, and is
\* seen there if the root is an output.
LEMMA RootChanges ==
  ASSUME ValuesOk, NEW f \in Faults, NEW b \in FaultProp(f)
  PROVE  FfrRoot[f.node] \in Output => SeenFrom(LaneOf(val, b), FfrRoot[f.node])
<1> DEFINE v == LaneOf(val, b)
           in == [n \in Node |-> v[n]]
           u == ValuesUnder(in, f)
           n == f.node
           root == FfrRoot[n]
<1>1. b \in Lane /\ b \in FaultCond(f) /\ b \in FfrProp(f) /\ Sound(v)
  BY PropInLanes DEF FaultProp, ValuesOk
<1>2. Driven(u, v, n) /\ StartsAs(f, v, u[n]) /\ n \in Node
  BY <1>1, FaultStarts, FaultFacts
<1> HIDE DEF u
<1>3. v[InputNode(f)] = Complement(f.val)
  BY <1>1, FaultFacts DEF FaultCond, LanesWith, LaneOf
<1>4. Opposite(u[n], v[n])
  <2>1. f.pos # 0 => b \in CalcGobs(n, f.pos)
    BY <1>1 DEF FfrProp
  <2> QED BY <1>1, <1>2, <1>3, <2>1, GobsInLane DEF StartsAs, Passes
<1>5. b \in RootObs[n]
  BY <1>1 DEF FfrProp
<1>6. ReachesRoot(n, b, v)
  BY <1>1, <1>2, RegionExact
<1>7. PICK w : Driven(w, v, root) /\ Opposite(w[root], v[root])
  BY <1>2, <1>4, <1>5, <1>6 DEF ReachesRoot
<1> QED BY <1>7 DEF SeenFrom

\* What the loops conclude: an FFR with a root that is an output is done, and
\* for the others the lane of the root decides.
LEMMA Verdict ==
  ASSUME kind \in Simulators, NEW tvs, Loaded(tvs), NEW b \in Lane, NEW f \in Faults
  PROVE  /\ FfrRoot[f.node] \in Output => (Detects(tvs[b], f) <=> b \in FaultProp(f))
         /\ \A t : OnlyTrigger(t, FfrRoot[f.node], b) =>
              (Detects(tvs[b], f) <=> b \in FaultProp(f) /\ b \in Simulate(t))
         /\ Detects(tvs[b], f) => b \in FaultProp(f)
<1>1. Detects(tvs[b], f) <=> b \in FaultProp(f) /\ SeenFrom(LaneOf(val, b), FfrRoot[f.node])
  BY DetectsInLane
<1>2. ValuesOk
  BY LoadedFacts
<1>3. FfrRoot[f.node] \in Output /\ b \in FaultProp(f) => SeenFrom(LaneOf(val, b), FfrRoot[f.node])
  BY <1>2, RootChanges
<1>4. FfrRoot[f.node] \in Node
  BY FaultFacts, RootsAreRoots
<1>5. ASSUME NEW t, OnlyTrigger(t, FfrRoot[f.node], b)
      PROVE  SeenFrom(LaneOf(val, b), FfrRoot[f.node]) <=> b \in Simulate(t)
  BY <1>2, <1>4, <1>5, SimulateInLane
<1> QED BY <1>1, <1>3, <1>5

\* Two lanes with the same test vector have the same values, and the same
\* faults are noticed in them.
LEMMA SameValues ==
  ASSUME kind \in Simulators, NEW tvs, Loaded(tvs), NEW b \in Lane, NEW c \in Lane, tvs[b] = tvs[c]
  PROVE  /\ LaneOf(val, b) = LaneOf(val, c)
         /\ kind.faults # "SA" => LaneOf(prevVal, b) = LaneOf(prevVal, c)
<1>1. CASE kind.faults = "SA"
  BY <1>1, FirstValuesInLane DEF Loaded
<1>2. CASE kind.faults # "SA"
  <2>1. LaneOf(prevVal, b) = LaneOf(prevVal, c)
    BY <1>2, FirstValuesInLane DEF Loaded
  <2>2. \A d \in Lane : /\ Sound(LaneOf(val, d))
                        /\ \A n \in Node : IsInput(n) =>
                             SecondInputs(tvs[d])[n] = LaneOf(val, d)[n]
    BY <1>2, SecondValuesInLane DEF Loaded
  <2>3. \A d \in Lane : ValuesUnder(SecondInputs(tvs[d]), NoFault) = LaneOf(val, d)
    BY <2>2, SoundIsFaultFree
  <2> QED BY <2>1, <2>3
<1> QED BY <1>1, <1>2

LEMMA SameProp ==
  ASSUME kind \in Simulators, NEW tvs, Loaded(tvs), NEW b \in Lane, NEW c \in Lane, tvs[b] = tvs[c],
         NEW f \in Faults, b \in FaultProp(f)
  PROVE  c \in FaultProp(f)
<1>1. \A n \in Node : val[n][b] = val[n][c]
  <2>1. \A n \in Node : LaneOf(val, b)[n] = LaneOf(val, c)[n]
    BY SameValues
  <2> QED BY <2>1 DEF LaneOf
<1>2. kind.faults # "SA" => \A n \in Node : prevVal[n][b] = prevVal[n][c]
  <2>1. kind.faults # "SA" => \A n \in Node : LaneOf(prevVal, b)[n] = LaneOf(prevVal, c)[n]
    BY SameValues
  <2> QED BY <2>1 DEF LaneOf
<1>3. ASSUME NEW n \in Node, NEW p, b \in CalcGobs(n, p) PROVE c \in CalcGobs(n, p)
  BY <1>1, <1>3, FaninFacts DEF CalcGobs
<1>4. ASSUME NEW n \in Node, b \in RootObs[n] PROVE c \in RootObs[n]
  <2>1. PICK h \in [Node -> Nat] : \A k, m \in Node : Feeds(k, m) => h[m] < h[k]
    BY UpwardRank
  <2> DEFINE T == {k \in Node : b \in RootObs[k] => c \in RootObs[k]}
  <2>2. ASSUME NEW k \in Node, \A m \in Node : h[m] < h[k] => m \in T
        PROVE  k \in T
    <3>1. RootObs[k] = IF FfrRoot[k] = k THEN Lane
                       ELSE CalcGobs(Next1(k), FanoutIpos[k]) \cap RootObs[Next1(k)]
      BY RootObsSolves DEF RootObsFrom, Next1
    <3>2. CASE FfrRoot[k] = k
      BY <3>1, <3>2
    <3>3. CASE FfrRoot[k] # k
      <4>1. Next1(k) \in Node /\ Next1(k) \in T
        BY <2>1, <2>2, <3>3, InsideFacts DEF Inside
      <4> QED BY <1>3, <3>1, <3>3, <4>1
    <3> QED BY <3>2, <3>3
  <2>3. Node \subseteq T
    <3> HIDE DEF T
    <3> QED BY <2>2, RankInduction
  <2> QED BY <1>4, <2>3
<1>5. f.node \in Node /\ InputNode(f) \in Node
  BY FaultFacts
<1>6. c \in FaultCond(f)
  BY <1>1, <1>5 DEF FaultProp, FaultCond, LanesWith
<1>7. c \in FfrProp(f)
  BY <1>3, <1>4, <1>5 DEF FaultProp, FfrProp
<1>8. kind.faults # "SA" => c \in FaultPrevCond(f)
  BY <1>2, <1>5 DEF FaultProp, FaultPrevCond, LanesWith
<1> QED BY <1>6, <1>7, <1>8 DEF FaultProp

\* The lanes of the queue and ffr_buff belong together: the root in
\* ffr_buff[i] is the only one triggered in lane i, so that bit i of the
\* answer speaks of it alone; and nothing stays triggered after a call.
LanesBelongToFfrs ==
  /\ \A n \in Triggered : \E i \in DOMAIN ffrBuff : ffrBuff[i] = n
  /\ \A i \in DOMAIN ffrBuff : trig[ffrBuff[i]] = {i}
  /\ pc # "sppfp" => ffrBuff = << >>

LoopTypes ==
  /\ trig \in [Node -> SUBSET Lane]
  /\ ffr \in Nat \ {0}
  /\ ffrBuff \in Seq(Node \ Output) /\ Len(ffrBuff) <= PvBitLen

\* ffr_buff holds roots of the FFRs behind the loop.
RootsPassed == \A i \in DOMAIN ffrBuff : \E j \in DOMAIN FfrList : j < ffr /\ ffrBuff[i] = FfrList[j]

TriggersCounted == IsFiniteSet(Triggered) /\ Cardinality(Triggered) = Len(ffrBuff)

LInv == LoopTypes /\ LanesBelongToFfrs /\ RootsPassed /\ TriggersCounted

LEMMA LanesCounted == PvBitLen \in Nat \ {0} /\ Lane = 1 .. PvBitLen
  BY LaneAssumption, LaneNumbering, FS_CardinalityType, FS_EmptySet DEF PvBitLen

LEMMA NoTriggers == trig = NoTrigger => Triggered = {}
  BY DEF NoTrigger, Triggered

LEMMA LInvInit == Init => LInv
<1> SUFFICES ASSUME Init PROVE LInv
  OBVIOUS
<1>1. ffr = 1 /\ ffrBuff = << >> /\ trig = NoTrigger /\ Triggered = {}
  BY NoTriggers DEF Init
<1> QED
  BY <1>1, LanesCounted, FS_EmptySet
  DEF LInv, LoopTypes, LanesBelongToFfrs, RootsPassed, TriggersCounted, NoTrigger

\* Steps that leave the queue and ffr_buff alone.
LEMMA LanesKept ==
  ASSUME LInv, trig' = trig, ffrBuff' = ffrBuff, ffr' \in Nat, ffr' >= ffr,
         pc' # "sppfp" => ffrBuff = << >>
  PROVE  LInv'
<1>1. Triggered' = Triggered
  BY DEF Triggered
<1>2. RootsPassed'
  <2>1. \A j \in DOMAIN FfrList : j \in Nat
    BY FfrAssumption
  <2>2. \A j \in DOMAIN FfrList : j < ffr => j < ffr'
    BY <2>1 DEF LInv, LoopTypes
  <2> QED
    BY <2>2 DEF LInv, RootsPassed
<1> QED
  BY <1>1, <1>2 DEF LInv, LoopTypes, LanesBelongToFfrs, TriggersCounted

\* Nothing is in a lane when a call begins, nor after a simulate().
LEMMA LanesEmpty ==
  ASSUME Triggered' = {}, trig' \in [Node -> SUBSET Lane], ffrBuff' = << >>,
         ffr' \in Nat \ {0}
  PROVE  LInv'
  BY LanesCounted, FS_EmptySet
  DEF LInv, LoopTypes, LanesBelongToFfrs, RootsPassed, TriggersCounted

LEMMA NothingInLanes ==
  ASSUME LInv, pc # "sppfp"
  PROVE  Triggered = {} /\ ffrBuff = << >>
  BY DEF LInv, LanesBelongToFfrs

\* The next FFR takes the free lane; the contract holds in this step.
LEMMA LaneTaken ==
  ASSUME LInv, ~BuffFull, ffr <= Len(FfrList), pc' = "sppfp", ffr' = ffr + 1,
         NEW root, root = FfrList[ffr], root \notin Output,
         trig' = [trig EXCEPT ![root] = {FreeLane}], ffrBuff' = Append(ffrBuff, root)
  PROVE  /\ LInv'
         /\ trig[root] = {} /\ Cardinality(Triggered) < PvBitLen
<1> DEFINE L == Len(ffrBuff)
<1>1. /\ ffr \in DOMAIN FfrList /\ root \in Node \ Output
      /\ ffrBuff \in Seq(Node \ Output) /\ L \in Nat
  BY FfrAssumption DEF LInv, LoopTypes
<1>2. L < PvBitLen
  BY <1>1, LanesCounted DEF LInv, LoopTypes, BuffFull
<1>3. FreeLane = L + 1 /\ FreeLane \in Lane
  BY <1>1, <1>2, LanesCounted DEF FreeLane
<1>4. \A i \in DOMAIN ffrBuff : ffrBuff[i] # root
  BY <1>1, FfrAssumption DEF LInv, LoopTypes, RootsPassed
<1>5. root \notin Triggered /\ trig[root] = {}
  BY <1>1, <1>4 DEF LInv, LanesBelongToFfrs, Triggered
<1>6. Cardinality(Triggered) < PvBitLen
  BY <1>2 DEF LInv, TriggersCounted
<1>7. /\ ffrBuff' \in Seq(Node \ Output) /\ Len(ffrBuff') = L + 1
      /\ DOMAIN ffrBuff' = 1 .. L + 1 /\ DOMAIN ffrBuff = 1 .. L
      /\ \A i \in 1 .. L : ffrBuff'[i] = ffrBuff[i]
      /\ ffrBuff'[L + 1] = root
  BY <1>1
<1>8. trig \in [Node -> SUBSET Lane] /\ ffr \in Nat \ {0}
  BY DEF LInv, LoopTypes
<1>9. Triggered' = Triggered \cup {root}
  BY <1>1, <1>8 DEF Triggered
<1>10. LoopTypes'
  BY <1>1, <1>2, <1>3, <1>7, <1>8, LanesCounted DEF LoopTypes
<1>11. LanesBelongToFfrs'
  <2>1. \A n \in Triggered' : \E i \in DOMAIN ffrBuff' : ffrBuff'[i] = n
    BY <1>7, <1>9, <1>1 DEF LInv, LanesBelongToFfrs
  <2>2. \A i \in 1 .. L : trig'[ffrBuff'[i]] = {i}
    BY <1>4, <1>7, <1>8, <1>1 DEF LInv, LanesBelongToFfrs
  <2>3. trig'[root] = {L + 1}
    BY <1>1, <1>3, <1>8
  <2> HIDE DEF L
  <2>4. \A i \in 1 .. L + 1 : trig'[ffrBuff'[i]] = {i}
    <3> SUFFICES ASSUME NEW i \in 1 .. L + 1 PROVE trig'[ffrBuff'[i]] = {i}
      OBVIOUS
    <3>1. CASE i \in 1 .. L
      BY <2>2, <3>1
    <3>2. CASE i = L + 1
      BY <1>7, <2>3, <3>2
    <3>3. L \in Nat
      BY <1>1
    <3>4. i \in 1 .. L \/ i = L + 1
      BY <3>3
    <3> QED
      BY <3>1, <3>2, <3>4
  <2> QED
    BY <1>7, <2>1, <2>4 DEF LanesBelongToFfrs
<1>12. RootsPassed'
  BY <1>1, <1>7, <1>8 DEF LInv, RootsPassed
<1>13. TriggersCounted'
  <2>1. IsFiniteSet(Triggered) /\ Cardinality(Triggered) = L
    BY DEF LInv, TriggersCounted
  <2>2. /\ IsFiniteSet(Triggered \cup {root})
        /\ Cardinality(Triggered \cup {root}) = L + 1
    BY <1>5, <2>1, FS_AddElement
  <2> HIDE DEF L
  <2> QED
    BY <1>7, <1>9, <2>2 DEF TriggersCounted
<1> QED
  BY <1>5, <1>6, <1>10, <1>11, <1>12, <1>13 DEF LInv

\* The contract in one step.
ProperTriggers ==
  \A n \in Node : trig'[n] \notin {{}, trig[n]} =>
    /\ n \notin Output /\ Len(Fanout[n]) # 1
    /\ trig[n] = {} /\ Cardinality(Triggered) < PvBitLen

LEMMA CallStep ==
  ASSUME LInv, Calls
  PROVE  LInv' /\ ProperTriggers
<1>1. pc = "idle" /\ trig' = trig
  BY DEF Calls, Skipping, ClearPatterns, SetPattern, Spsfp, Sppfp, Ppsfp, PpsfpEmpty,
     Begin, loopVars
<1>2. Triggered = {} /\ ffrBuff = << >>
  BY <1>1, NothingInLanes
<1>3. ffrBuff' = << >> /\ ffr' \in Nat \ {0}
  <2>1. ffr \in Nat \ {0} /\ Len(FfrList) \in Nat
    BY FfrAssumption DEF LInv, LoopTypes
  <2> QED
    BY <1>2, <2>1 DEF Calls, Skipping, ClearPatterns, SetPattern, Spsfp, Sppfp, Ppsfp,
       PpsfpEmpty, Begin, loopVars
<1>4. Triggered' = {}
  BY <1>1, <1>2 DEF Triggered
<1>5. LInv'
  BY <1>1, <1>3, <1>4, LanesEmpty DEF LInv, LoopTypes
<1> QED
  BY <1>1, <1>5 DEF ProperTriggers

LEMMA LoopStep ==
  ASSUME LInv, Loops
  PROVE  LInv' /\ ProperTriggers
<1>a. ffr \in Nat \ {0} /\ trig \in [Node -> SUBSET Lane]
  BY DEF LInv, LoopTypes
<1>1. CASE SpsfpReturn \/ Return
  <2>1. /\ trig' = trig /\ ffrBuff' = ffrBuff /\ ffr' = ffr
        /\ pc = "spsfp" \/ ffrBuff = << >>
    BY <1>1 DEF SpsfpReturn, Return
  <2>2. ffrBuff = << >>
    BY <2>1, NothingInLanes
  <2> QED
    BY <1>a, <2>1, <2>2, LanesKept DEF ProperTriggers
<1>2. CASE PpsfpFfr
  <2>1. trig' = trig /\ ffrBuff' = ffrBuff /\ ffr' = ffr + 1 /\ pc = "ppsfp" /\ pc' = pc
    BY <1>2 DEF PpsfpFfr
  <2>2. ffrBuff = << >>
    BY <2>1, NothingInLanes
  <2> QED
    BY <1>a, <2>1, <2>2, LanesKept DEF ProperTriggers
<1>3. CASE DoSimulation
  <2>1. trig' = NoTrigger /\ ffrBuff' = << >> /\ ffr' = ffr
    BY <1>3 DEF DoSimulation
  <2>2. Triggered' = {} /\ trig' \in [Node -> SUBSET Lane] /\ \A n \in Node : trig'[n] = {}
    BY <2>1 DEF Triggered, NoTrigger
  <2> QED
    BY <1>a, <2>1, <2>2, LanesEmpty DEF ProperTriggers
<1>4. CASE SppfpFfr
  <2> DEFINE root == FfrList[ffr]
  <2>1. /\ pc = "sppfp" /\ pc' = pc /\ ffr <= Len(FfrList) /\ ~BuffFull /\ ffr' = ffr + 1
    BY <1>4 DEF SppfpFfr
  <2>2. CASE FfrReq(root) = {} \/ root \in Output
    <3>1. trig' = trig /\ ffrBuff' = ffrBuff
      BY <1>4, <2>2 DEF SppfpFfr
    <3> QED
      BY <1>a, <2>1, <3>1, LanesKept DEF ProperTriggers
  <2>3. CASE FfrReq(root) # {} /\ root \notin Output
    <3>1. /\ trig' = [trig EXCEPT ![root] = {FreeLane}]
          /\ ffrBuff' = Append(ffrBuff, root)
      BY <1>4, <2>3 DEF SppfpFfr
    <3>2. /\ LInv'
          /\ trig[root] = {} /\ Cardinality(Triggered) < PvBitLen
      BY <2>1, <2>3, <3>1, LaneTaken
    <3>3. \A n \in Node : n # root => trig'[n] = trig[n]
      BY <1>a, <3>1
    <3>4. Len(Fanout[root]) # 1
      BY <1>a, <2>1, <2>3, ListedNodes
    <3> QED
      BY <2>3, <3>2, <3>3, <3>4 DEF ProperTriggers
  <2> QED
    BY <2>2, <2>3
<1> QED
  BY <1>1, <1>2, <1>3, <1>4 DEF Loops

LEMMA LInvNext == LInv /\ [Next]_fsimVars => LInv' /\ ProperTriggers
<1> SUFFICES ASSUME LInv, [Next]_fsimVars PROVE LInv' /\ ProperTriggers
  OBVIOUS
<1>1. CASE Next
  BY <1>1, CallStep, LoopStep DEF Next
<1>2. CASE UNCHANGED fsimVars
  <2>1. trig' = trig /\ ffrBuff' = ffrBuff /\ ffr' = ffr /\ pc' = pc
    BY <1>2 DEF fsimVars, loopVars
  <2> QED
    BY <2>1, LanesKept DEF ProperTriggers, LInv, LoopTypes, LanesBelongToFfrs
<1> QED
  BY <1>1, <1>2

-----------------------------------------------------------------------------
\* A lane belongs to one FFR from its trigger to the sweep.
THEOREM LanesAreOwned == Spec => []LanesBelongToFfrs
<1>1. LInv => LanesBelongToFfrs
  BY DEF LInv
<1> QED
  BY <1>1, LInvInit, LInvNext, PTL DEF Spec

\* FsimX calls put_trigger() as the event queue expects (EventQ!MayTrigger).
THEOREM ContractIsKept == Spec => QueueContract
<1>1. LInv /\ [Next]_fsimVars =>
        [\A n \in Node : trig'[n] \notin {{}, trig[n]} =>
           /\ n \notin Output /\ Len(Fanout[n]) # 1
           /\ trig[n] = {} /\ Cardinality(Triggered) < PvBitLen]_fsimVars
  BY LInvNext DEF ProperTriggers
<1> QED
  BY <1>1, LInvInit, LInvNext, PTL DEF Spec, QueueContract

-----------------------------------------------------------------------------
(* The values that a call has loaded stay until it returns.                *)

ValuesFixed == kind' = kind /\ val' = val /\ prevVal' = prevVal

LEMMA KindFixed ==
  ASSUME kind' = kind
  PROVE  /\ \A tvs : FirstValues(tvs)' = FirstValues(tvs)
         /\ \A tvs, first : SecondValues(tvs, first)' = SecondValues(tvs, first)
         /\ \A tv, f : Detects(tv, f)' = Detects(tv, f)
<1>1. \A x : AsVal(x)' = AsVal(x)
  BY DEF AsVal
<1>2. \A tvs : FirstValues(tvs)' = FirstValues(tvs)
  BY <1>1 DEF FirstValues, InputWords
<1>3. \A tvs, first : SecondValues(tvs, first)' = SecondValues(tvs, first)
  <2> SUFFICES ASSUME NEW tvs, NEW first PROVE SecondValues(tvs, first)' = SecondValues(tvs, first)
    OBVIOUS
  <2> DEFINE next(n) == (CHOOSE d \in {Dff[i] : i \in DOMAIN Dff} : d[1] = n)[2]
  <2>1. SecondValues(tvs, first)
        = GoodValue([n \in PPI |-> [b \in Lane |->
                       IF n \in DffOutputs THEN first[next(n)][b] ELSE AsVal(tvs[b].aux[n])]])
    BY DEF SecondValues, InputWords
  <2>2. SecondValues(tvs, first)'
        = GoodValue([n \in PPI |-> [b \in Lane |->
                       IF n \in DffOutputs THEN first[next(n)][b] ELSE AsVal(tvs[b].aux[n])']])
    BY DEF SecondValues, InputWords
  <2> HIDE DEF next
  <2> QED BY <1>1, <2>1, <2>2
<1>4. \A tv : FirstCycle(tv)' = FirstCycle(tv)
  BY <1>1 DEF FirstCycle
<1>5. \A tv : SecondInputs(tv)' = SecondInputs(tv)
  BY <1>1, <1>4 DEF SecondInputs
<1>6. \A tv, f : Detects(tv, f)' = Detects(tv, f)
  BY <1>1, <1>4, <1>5 DEF Detects
<1> QED BY <1>2, <1>3, <1>6

LEMMA FaultPropFixed ==
  ASSUME ValuesFixed
  PROVE  \A f : FaultProp(f)' = FaultProp(f)
<1>1. \A n, p : CalcGobs(n, p)' = CalcGobs(n, p)
  BY DEF CalcGobs, ValuesFixed
<1>2. RootObs' = RootObs
  <2>1. RootObs = CHOOSE obs : obs = RootObsFrom(obs)
    BY DEF RootObs, RootObsFrom
  <2>2. RootObs' = CHOOSE obs : obs = [n \in Node |-> IF FfrRoot[n] = n THEN Lane
                  ELSE CalcGobs(Fanout[n][1], FanoutIpos[n])' \cap obs[Fanout[n][1]]]
    BY DEF RootObs
  <2>3. \A obs : RootObsFrom(obs) = [n \in Node |-> IF FfrRoot[n] = n THEN Lane
                  ELSE CalcGobs(Fanout[n][1], FanoutIpos[n])' \cap obs[Fanout[n][1]]]
    BY <1>1 DEF RootObsFrom
  <2> QED BY <2>1, <2>2, <2>3
<1>3. \A f : FfrProp(f)' = FfrProp(f)
  BY <1>1, <1>2 DEF FfrProp
<1>4. \A f : FaultCond(f)' = FaultCond(f)
  BY DEF FaultCond, LanesWith, ValuesFixed
<1>5. \A f : FaultPrevCond(f)' = FaultPrevCond(f)
  BY DEF FaultPrevCond, LanesWith, ValuesFixed
<1> QED BY <1>3, <1>4, <1>5 DEF FaultProp, ValuesFixed

LEMMA LoadedFixed ==
  ASSUME ValuesFixed, NEW tvs, Loaded(tvs)
  PROVE  Loaded(tvs)'
  BY KindFixed DEF Loaded, ValuesFixed

\* _calc_gval().
LEMMA CalcGvalLoads ==
  ASSUME kind \in Simulators, kind' = kind, NEW tvs, CalcGval(tvs), prevVal \in [Node -> Words]
  PROVE  Loaded(tvs)' /\ val' \in [Node -> Words] /\ prevVal' \in [Node -> Words]
<1>1. FirstValues(tvs) \in [Node -> Words]
  BY FirstValuesInLane
<1>2. SecondValues(tvs, FirstValues(tvs)) \in [Node -> Words]
  BY SecondValuesInLane
<1>3. CASE kind.faults = "SA"
  <2>1. val' = FirstValues(tvs) /\ prevVal' = prevVal
    BY <1>3 DEF CalcGval
  <2> QED BY <1>1, <1>3, <2>1, KindFixed DEF Loaded
<1>4. CASE kind.faults # "SA"
  <2>1. prevVal' = FirstValues(tvs) /\ val' = SecondValues(tvs, FirstValues(tvs))
    BY <1>4 DEF CalcGval
  <2> QED BY <1>1, <1>2, <1>4, <2>1, KindFixed DEF Loaded
<1> QED BY <1>3, <1>4

-----------------------------------------------------------------------------
(* The invariant of the loops.                                             *)

\* The test vector in each lane.
CallVectors == IF call.op = "ppsfp" THEN BufferedVectors ELSE [b \in Lane |-> call.tv]

\* The values are those of the patterns of the call; ppsfp() without a pattern
\* loads none and looks at no FFR.
ValuesLoaded ==
  pc # "idle" =>
    /\ call.op = pc
    /\ pc = "spsfp" => call.fault \in Faults
    /\ IF pc = "ppsfp" /\ patMap = {} THEN ffr > Len(FfrList)
       ELSE \A tvs : tvs = CallVectors => Loaded(tvs)

\* The loop has passed the FFR of f; f waits for the next simulate().
Passed(f) == \E j \in DOMAIN FfrList : j < ffr /\ FfrList[j] = FfrRoot[f.node]
Waiting(f) == \E i \in DOMAIN ffrBuff : ffrBuff[i] = FfrRoot[f.node]

PatternsOf(f) == {b \in patMap : Detects(patBuff[b], f)}
Found(f) == IF call.op = "ppsfp" THEN PatternsOf(f) # {} ELSE Detects(call.tv, f)

\* What has been reported is right for the FFRs that are done.
ResultsSoFar ==
  pc \in {"sppfp", "ppsfp"} =>
    /\ \A f \in Faults : f \in Elements(detFault) <=>
         f \notin skip /\ Passed(f) /\ ~ Waiting(f) /\ Found(f)
    /\ \A f \in Faults \ skip : Waiting(f) => obsMask[f] = FaultProp(f)
    /\ pc = "ppsfp" => \A i \in DOMAIN detFault : detPat[i] = PatternsOf(detFault[i])

RInv == TypeOK /\ LInv /\ Distinct(detFault) /\ ValuesLoaded /\ ResultsSoFar

LEMMA RInvInit == Init => RInv
<1> SUFFICES ASSUME Init PROVE RInv
  OBVIOUS
<1>1. LInv
  BY LInvInit
<1>2. TypeOK
  <2>1. kind \in Simulators /\ [n \in Node |-> Zero] \in [Node -> [Lane -> kind.vals]]
    BY KindFacts DEF Init, Zero
  <2>2. 1 \in 1 .. Len(FfrList) + 1
    <3>1. Len(FfrList) \in Nat
      BY FfrAssumption
    <3> QED BY <3>1
  <2>3. obsMask \in [Faults -> SUBSET Lane]
    BY DEF Init
  <2>4. val \in [Node -> [Lane -> kind.vals]] /\ prevVal \in [Node -> [Lane -> kind.vals]]
    BY <2>1 DEF Init
  <2>5. patBuff \in [Lane -> TestVectors] /\ detPat \in [DOMAIN FaultList -> SUBSET Lane]
    BY DEF Init
  <2>6. trig \in [Node -> SUBSET Lane]
    BY DEF Init, NoTrigger
  <2>7. /\ skip = {} /\ patMap = {} /\ detFault = << >> /\ pc = "idle" /\ ffr = 1
        /\ ffrBuff = << >> /\ found = FALSE
    BY DEF Init
  <2>8. detFault \in Seq(Faults) /\ ffrBuff \in Seq(Node) /\ ffr \in 1 .. Len(FfrList) + 1
    BY <2>2, <2>7
  <2>9. \A v \in {val, prevVal} : v \in [Node -> [Lane -> kind.vals]]
    BY <2>4
  <2>10. /\ skip \subseteq Faults /\ patMap \subseteq Lane /\ found \in BOOLEAN
         /\ pc \in {"idle", "spsfp", "sppfp", "ppsfp"}
    BY <2>7
  <2> QED BY <2>1, <2>3, <2>5, <2>6, <2>8, <2>9, <2>10 DEF TypeOK
<1>3. pc = "idle" /\ detFault = << >>
  BY DEF Init
<1> QED BY <1>1, <1>2, <1>3 DEF RInv, ValuesLoaded, ResultsSoFar, Distinct

\* Between the calls.
LEMMA RInvIdle ==
  ASSUME RInv, kind' = kind, Skipping \/ ClearPatterns \/ \E b \in Lane, tv \in TestVectors : SetPattern(b, tv)
  PROVE  TypeOK' /\ Distinct(detFault)' /\ ValuesLoaded' /\ ResultsSoFar'
<1>1. pc' = "idle" /\ detFault' = detFault
  BY DEF Skipping, ClearPatterns, SetPattern, loopVars, resultVars
<1>2. TypeOK'
  <2>1. TypeOK
    BY DEF RInv
  <2>2. CASE Skipping
    BY <2>1, <2>2 DEF TypeOK, Skipping, SetSkip, ClearSkip, SetSkipAll, ClearSkipAll, bufferVars,
       resultVars, loopVars
  <2>3. CASE ClearPatterns
    BY <2>1, <2>3 DEF TypeOK, ClearPatterns, resultVars, loopVars
  <2>4. ASSUME NEW b \in Lane, NEW tv \in TestVectors, SetPattern(b, tv) PROVE TypeOK'
    BY <2>1, <2>4 DEF TypeOK, SetPattern, resultVars, loopVars
  <2> QED BY <2>2, <2>3, <2>4
<1>3. Distinct(detFault)'
  BY <1>1 DEF RInv, Distinct
<1> QED BY <1>1, <1>2, <1>3 DEF ValuesLoaded, ResultsSoFar

LEMMA ValueTypes ==
  ASSUME TypeOK
  PROVE  /\ kind \in Simulators /\ val \in [Node -> Words] /\ prevVal \in [Node -> Words]
         /\ Len(FfrList) \in Nat /\ ffr \in Nat /\ 1 <= ffr /\ ffr <= Len(FfrList) + 1
  BY FfrAssumption DEF TypeOK, Words

\* A call begins.
LEMMA RInvSpsfp ==
  ASSUME RInv, kind' = kind, NEW tv, NEW f \in Faults, Spsfp(tv, f)
  PROVE  TypeOK' /\ Distinct(detFault)' /\ ValuesLoaded' /\ ResultsSoFar'
<1> DEFINE tvs == [b \in Lane |-> tv]
<1>1. /\ CalcGval(tvs) /\ pc' = "spsfp" /\ detFault' = detFault
      /\ call' = [op |-> "spsfp", tv |-> tv, fault |-> f]
  BY DEF Spsfp, resultVars
<1>2. CallVectors' = tvs
  BY <1>1 DEF CallVectors
<1> HIDE DEF tvs
<1>3. Loaded(tvs)' /\ val' \in [Node -> Words] /\ prevVal' \in [Node -> Words]
  BY <1>1, ValueTypes, CalcGvalLoads DEF RInv
<1>4. ValuesLoaded'
  BY <1>1, <1>2, <1>3 DEF ValuesLoaded
<1>5. TypeOK'
  BY <1>3 DEF RInv, TypeOK, Spsfp, Words, bufferVars, resultVars
<1> QED BY <1>1, <1>4, <1>5 DEF RInv, Distinct, ResultsSoFar

\* No FFR has been passed yet.
LEMMA NothingPassed ==
  ASSUME ffr' = 1, ffrBuff' = << >>, detFault' = << >>
  PROVE  ResultsSoFar' /\ Distinct(detFault)'
<1>1. \A f : ~ Passed(f)' /\ ~ Waiting(f)'
  <2>1. \A j \in DOMAIN FfrList : j \in Nat /\ j >= 1
    BY FfrAssumption
  <2> QED BY <2>1 DEF Passed, Waiting
<1>2. Elements(detFault)' = {} /\ DOMAIN detFault' = {}
  BY DEF Elements
<1> QED BY <1>1, <1>2 DEF ResultsSoFar, Distinct

LEMMA RInvBegin ==
  ASSUME RInv, kind' = kind, NEW op, NEW tvs, Begin(op, tvs), op \in {"sppfp", "ppsfp"},
         call'.op = op, op = "ppsfp" => patMap # {}, CallVectors' = tvs
  PROVE  TypeOK' /\ Distinct(detFault)' /\ ValuesLoaded' /\ ResultsSoFar'
<1>1. CalcGval(tvs) /\ pc' = op /\ detFault' = << >> /\ ffr' = 1 /\ ffrBuff' = << >> /\ patMap' = patMap
  BY DEF Begin, bufferVars
<1>2. Loaded(tvs)' /\ val' \in [Node -> Words] /\ prevVal' \in [Node -> Words]
  BY <1>1, ValueTypes, CalcGvalLoads DEF RInv
<1>3. ValuesLoaded'
  BY <1>1, <1>2 DEF ValuesLoaded
<1>4. TypeOK'
  <2>1. ffr' \in 1 .. Len(FfrList) + 1 /\ ffrBuff' \in Seq(Node) /\ detFault' \in Seq(Faults)
    BY <1>1, ValueTypes DEF RInv
  <2>2. TypeOK /\ UNCHANGED <<skip, obsMask, bufferVars, detPat, found, trig>>
    BY DEF RInv, Begin
  <2> QED BY <1>1, <1>2, <2>1, <2>2 DEF TypeOK, Words, bufferVars
<1> QED BY <1>1, <1>3, <1>4, NothingPassed

LEMMA RInvSppfp ==
  ASSUME RInv, kind' = kind, NEW tv, Sppfp(tv)
  PROVE  TypeOK' /\ Distinct(detFault)' /\ ValuesLoaded' /\ ResultsSoFar'
<1>1. Begin("sppfp", [b \in Lane |-> tv]) /\ call' = [op |-> "sppfp", tv |-> tv]
  BY DEF Sppfp
<1>2. CallVectors' = [b \in Lane |-> tv] /\ call'.op = "sppfp"
  BY <1>1 DEF CallVectors
<1> QED BY <1>1, <1>2, RInvBegin

LEMMA RInvPpsfp ==
  ASSUME RInv, kind' = kind, Ppsfp
  PROVE  TypeOK' /\ Distinct(detFault)' /\ ValuesLoaded' /\ ResultsSoFar'
<1>1. call' = [op |-> "ppsfp"]
  BY DEF Ppsfp
<1>2. CASE patMap # {}
  <2>1. Begin("ppsfp", BufferedVectors)
    BY <1>2 DEF Ppsfp
  <2>2. patMap' = patMap /\ patBuff' = patBuff
    BY <2>1 DEF Begin, bufferVars
  <2>3. CallVectors' = BufferedVectors
    BY <1>1, <2>2 DEF CallVectors, BufferedVectors
  <2> DEFINE tvs == BufferedVectors
  <2>4. Begin("ppsfp", tvs) /\ CallVectors' = tvs
    BY <2>1, <2>3
  <2> HIDE DEF tvs
  <2> QED BY <1>1, <1>2, <2>4, RInvBegin
<1>3. CASE patMap = {}
  <2>1. /\ detFault' = << >> /\ ffr' = Len(FfrList) + 1 /\ pc' = "ppsfp" /\ patMap' = {}
        /\ UNCHANGED <<val, prevVal, skip, obsMask, patBuff, detPat, found, ffrBuff, trig>>
    BY <1>3 DEF Ppsfp, PpsfpEmpty, bufferVars
  <2>2. ffr' > Len(FfrList) /\ ffr' \in 1 .. Len(FfrList) + 1
    BY <2>1, ValueTypes DEF RInv
  <2>3. ValuesLoaded'
    BY <1>1, <2>1, <2>2 DEF ValuesLoaded
  <2>4. TypeOK'
    <3>1. TypeOK /\ detFault' \in Seq(Faults)
      BY <2>1 DEF RInv
    <3> QED BY <2>1, <2>2, <3>1 DEF TypeOK
  <2>5. \A f : PatternsOf(f)' = {}
    BY <2>1 DEF PatternsOf
  <2>6. Elements(detFault)' = {} /\ DOMAIN detFault' = {}
    BY <2>1 DEF Elements
  <2>7. ffrBuff' = << >>
    BY <1>3, <2>1, NothingInLanes DEF RInv, Ppsfp, PpsfpEmpty
  <2>8. ResultsSoFar'
    BY <1>1, <2>1, <2>5, <2>6, <2>7 DEF ResultsSoFar, Found, Waiting
  <2> QED BY <2>3, <2>4, <2>6, <2>8 DEF Distinct
<1> QED BY <1>2, <1>3

\* A call returns.
LEMMA RInvReturn ==
  ASSUME RInv, kind' = kind, SpsfpReturn \/ Return
  PROVE  TypeOK' /\ Distinct(detFault)' /\ ValuesLoaded' /\ ResultsSoFar'
<1>1. pc' = "idle" /\ detFault' = detFault
  BY DEF SpsfpReturn, Return, resultVars
<1>2. TypeOK'
  BY DEF RInv, TypeOK, SpsfpReturn, Return, bufferVars, resultVars
<1> QED BY <1>1, <1>2 DEF RInv, Distinct, ValuesLoaded, ResultsSoFar

LEMMA FoundFixed ==
  ASSUME kind' = kind, patMap' = patMap, patBuff' = patBuff, call' = call
  PROVE  \A f : PatternsOf(f)' = PatternsOf(f) /\ Found(f)' = Found(f)
<1>1. \A f : PatternsOf(f)' = PatternsOf(f)
  BY KindFixed DEF PatternsOf
<1> QED BY <1>1, KindFixed DEF Found

\* One turn of the loop over the FFRs: its faults are new.
LEMMA LoopTurn ==
  ASSUME TypeOK, LInv, ffr <= Len(FfrList), ffr' = ffr + 1, NEW root, root = FfrList[ffr]
  PROVE  /\ root \in Node
         /\ \A f \in Faults : Passed(f)' <=> Passed(f) \/ f \in FaultsOf(root)
         /\ \A f \in FaultsOf(root) : ~ Passed(f) /\ ~ Waiting(f)
         /\ \A f \in Faults : Waiting(f) => Passed(f)
<1>1. /\ FfrList \in Seq(Node) /\ ffr \in Nat /\ ffr \in DOMAIN FfrList /\ root \in Node
      /\ \A j \in DOMAIN FfrList : j \in Nat
  BY FfrAssumption DEF TypeOK
<1>2. \A f \in Faults : Passed(f)' <=> Passed(f) \/ f \in FaultsOf(root)
  <2>1. \A j \in DOMAIN FfrList : j < ffr + 1 <=> j < ffr \/ j = ffr
    BY <1>1
  <2> QED BY <1>1, <2>1 DEF Passed, FaultsOf
<1>3. \A f \in FaultsOf(root) : ~ Passed(f)
  <2>1. \A j \in DOMAIN FfrList : FfrList[j] = root => j = ffr
    BY <1>1, FfrAssumption
  <2> QED BY <1>1, <2>1 DEF Passed, FaultsOf
<1>4. \A f \in Faults : Waiting(f) => Passed(f)
  BY DEF Waiting, Passed, LInv, RootsPassed
<1> QED BY <1>1, <1>2, <1>3, <1>4 DEF FaultsOf

LEMMA MasksAfter ==
  ASSUME TypeOK, NEW root, NEW masks, masks = ObsMaskAfter(root)
  PROVE  /\ masks \in [Faults -> SUBSET Lane]
         /\ \A f \in FaultsOf(root) \ skip : masks[f] = FaultProp(f)
         /\ \A f \in Faults \ FaultsOf(root) : masks[f] = obsMask[f]
  BY PropInLanes DEF TypeOK, ObsMaskAfter, FaultsOf

\* In sppfp() the lanes are alike, and any of them decides.
LEMMA SppfpDecides ==
  ASSUME RInv, pc = "sppfp", NEW f \in Faults
  PROVE  /\ Found(f) => FaultProp(f) # {}
         /\ FfrRoot[f.node] \in Output => (Found(f) <=> FaultProp(f) # {})
         /\ \A t : \A b \in Lane : OnlyTrigger(t, FfrRoot[f.node], b) =>
              (Found(f) <=> FaultProp(f) # {} /\ b \in Simulate(t))
<1> DEFINE tvs == [b \in Lane |-> call.tv]
<1>1. call.op = "sppfp" /\ CallVectors = tvs /\ kind \in Simulators
  BY DEF RInv, TypeOK, ValuesLoaded, CallVectors
<1> HIDE DEF tvs
<1>2. Loaded(tvs)
  BY <1>1 DEF RInv, ValuesLoaded
<1>3. /\ \A b \in Lane : Found(f) <=> Detects(tvs[b], f)
      /\ \A b, c \in Lane : tvs[b] = tvs[c]
  BY <1>1 DEF Found, tvs
<1>4. \A b, c \in Lane : b \in FaultProp(f) => c \in FaultProp(f)
  BY <1>1, <1>2, <1>3, SameProp
<1>5. \A b \in Lane : FaultProp(f) # {} <=> b \in FaultProp(f)
  BY <1>4, PropInLanes
<1>6. PICK c \in Lane : TRUE
  BY LaneAssumption
<1>7. (Found(f) => FaultProp(f) # {}) /\ (FfrRoot[f.node] \in Output => (Found(f) <=> FaultProp(f) # {}))
  BY <1>1, <1>2, <1>3, <1>5, <1>6, Verdict
<1>8. ASSUME NEW t, NEW b \in Lane, OnlyTrigger(t, FfrRoot[f.node], b)
      PROVE  Found(f) <=> FaultProp(f) # {} /\ b \in Simulate(t)
  BY <1>1, <1>2, <1>3, <1>5, <1>8, Verdict
<1> QED BY <1>7, <1>8

\* One FFR of _sppfp().
LEMMA RInvSppfpFfr ==
  ASSUME RInv, LInv', kind' = kind, SppfpFfr
  PROVE  TypeOK' /\ Distinct(detFault)' /\ ValuesLoaded' /\ ResultsSoFar'
<1> DEFINE root == FfrList[ffr]
           masks == ObsMaskAfter(root)
           found1 == {f \in FaultsOf(root) \ skip : masks[f] \cap Lane # {}}
<1>1. /\ pc = "sppfp" /\ pc' = pc /\ ffr <= Len(FfrList) /\ ffr' = ffr + 1
      /\ obsMask' = masks /\ call' = call
      /\ UNCHANGED <<val, prevVal, skip, patMap, patBuff, detPat, found>>
  BY DEF SppfpFfr, bufferVars
<1>2. TypeOK /\ LInv /\ Distinct(detFault) /\ ValuesLoaded /\ ResultsSoFar
  BY DEF RInv
<1>3. /\ root \in Node
      /\ \A f \in Faults : Passed(f)' <=> Passed(f) \/ f \in FaultsOf(root)
      /\ \A f \in FaultsOf(root) : ~ Passed(f) /\ ~ Waiting(f)
      /\ \A f \in Faults : Waiting(f) => Passed(f)
  BY <1>1, <1>2, LoopTurn
<1>4. /\ masks \in [Faults -> SUBSET Lane]
      /\ \A f \in FaultsOf(root) \ skip : masks[f] = FaultProp(f)
      /\ \A f \in Faults \ FaultsOf(root) : masks[f] = obsMask[f]
  BY <1>2, MasksAfter
<1>5. /\ \A f : PatternsOf(f)' = PatternsOf(f) /\ Found(f)' = Found(f)
      /\ \A f : FaultProp(f)' = FaultProp(f)
  BY <1>1, FoundFixed, FaultPropFixed DEF ValuesFixed
<1>6. FaultsOf(root) \subseteq Faults
  BY DEF FaultsOf
<1>7. \A f \in FaultsOf(root) : FfrRoot[f.node] = root
  BY DEF FaultsOf
<1>8. ValuesLoaded'
  <2>1. CallVectors' = CallVectors
    BY <1>1, <1>2 DEF CallVectors, ValuesLoaded
  <2> QED BY <1>1, <1>2, <2>1, LoadedFixed DEF ValuesLoaded, ValuesFixed
<1>9. /\ ffr' \in 1 .. Len(FfrList) + 1 /\ ffrBuff' \in Seq(Node)
      /\ trig' \in [Node -> SUBSET Lane] /\ obsMask' \in [Faults -> SUBSET Lane]
  <2>1. ffr' \in 1 .. Len(FfrList) + 1
    BY <1>1, <1>2, ValueTypes
  <2> QED BY <1>1, <1>4, <2>1 DEF LInv, LoopTypes
<1>10. detFault' \in Seq(Faults) => TypeOK'
  BY <1>1, <1>2, <1>9 DEF TypeOK
<1> HIDE DEF masks, root
<1>11. CASE FfrReq(root) = {}
  <2>1. detFault' = detFault /\ ffrBuff' = ffrBuff
    BY <1>11 DEF SppfpFfr, root
  <2>2. \A f \in FaultsOf(root) \ skip : ~ Found(f)
    BY <1>1, <1>6, <1>11, SppfpDecides DEF FfrReq
  <2>3. \A f : Waiting(f)' <=> Waiting(f)
    BY <2>1 DEF Waiting
  <2>4. Elements(detFault)' = Elements(detFault)
    BY <2>1 DEF Elements
  <2>5. ResultsSoFar'
    BY <1>1, <1>2, <1>3, <1>4, <1>5, <2>2, <2>3, <2>4 DEF ResultsSoFar
  <2> QED BY <1>2, <1>8, <1>10, <2>1, <2>5 DEF TypeOK, Distinct
<1>12. CASE FfrReq(root) # {} /\ root \in Output
  <2> DEFINE swept == InOrder(found1)
  <2>1. detFault' = detFault \o swept /\ ffrBuff' = ffrBuff
    BY <1>12 DEF SppfpFfr, root, masks, Swept
  <2>2. \A f \in FaultsOf(root) \ skip : Found(f) <=> f \in found1
    BY <1>1, <1>4, <1>6, <1>7, <1>12, PropInLanes, SppfpDecides
  <2>3. found1 \subseteq FaultsOf(root) \ skip
    OBVIOUS
  <2> HIDE DEF found1
  <2>4. swept \in Seq(Faults) /\ Elements(swept) = found1 /\ Distinct(swept)
    BY <1>6, <2>3, InOrderFacts
  <2>5. Elements(detFault) \cap found1 = {}
    BY <1>1, <1>2, <1>3, <1>6, <2>3 DEF ResultsSoFar
  <2> HIDE DEF swept
  <2>6. detFault' \in Seq(Faults) /\ Elements(detFault') = Elements(detFault) \cup found1 /\ Distinct(detFault')
    BY <1>2, <2>1, <2>4, <2>5, ConcatFacts DEF TypeOK
  <2>7. \A f : Waiting(f)' <=> Waiting(f)
    BY <2>1 DEF Waiting
  <2>8. ResultsSoFar'
    <3>1. \A f \in Faults : f \in Elements(detFault') <=>
            f \notin skip /\ Passed(f)' /\ ~ Waiting(f) /\ Found(f)
      BY <1>1, <1>2, <1>3, <2>2, <2>3, <2>6 DEF ResultsSoFar
    <3>2. \A f \in Faults \ skip : Waiting(f) => masks[f] = FaultProp(f)
      BY <1>1, <1>2, <1>3, <1>4 DEF ResultsSoFar
    <3> QED BY <1>1, <1>5, <2>7, <3>1, <3>2 DEF ResultsSoFar, Elements
  <2> QED BY <1>8, <1>10, <2>6, <2>8 DEF Distinct
<1>13. CASE FfrReq(root) # {} /\ root \notin Output
  <2>1. detFault' = detFault /\ ffrBuff' = Append(ffrBuff, root)
    BY <1>13 DEF SppfpFfr, root
  <2>2. \A f \in Faults : Waiting(f)' <=> Waiting(f) \/ f \in FaultsOf(root)
    <3>1. ffrBuff \in Seq(Node) /\ Elements(ffrBuff') = Elements(ffrBuff) \cup {root}
      BY <1>2, <1>3, <2>1, AppendFacts DEF TypeOK
    <3>2. \A f \in Faults : /\ Waiting(f)' <=> FfrRoot[f.node] \in Elements(ffrBuff')
                            /\ Waiting(f) <=> FfrRoot[f.node] \in Elements(ffrBuff)
      BY DEF Waiting, Elements
    <3> QED BY <3>1, <3>2 DEF FaultsOf
  <2>3. Elements(detFault)' = Elements(detFault)
    BY <2>1 DEF Elements
  <2>4. ResultsSoFar'
    BY <1>1, <1>2, <1>3, <1>4, <1>5, <2>2, <2>3 DEF ResultsSoFar
  <2> QED BY <1>2, <1>8, <1>10, <2>1, <2>4 DEF TypeOK, Distinct
<1> QED BY <1>11, <1>12, <1>13

\* Each lane in use belongs to the one FFR that waits in it.
LEMMA LaneOfFfr ==
  ASSUME LInv, NEW i \in DOMAIN ffrBuff
  PROVE  i \in Lane /\ ffrBuff[i] \in Node /\ OnlyTrigger(trig, ffrBuff[i], i)
<1>1. ffrBuff \in Seq(Node \ Output) /\ i \in Lane
  BY LanesCounted DEF LInv, LoopTypes
<1>2. trig[ffrBuff[i]] = {i}
  BY DEF LInv, LanesBelongToFfrs
<1>3. ASSUME NEW n \in Node, n # ffrBuff[i], i \in trig[n] PROVE FALSE
  <2>1. PICK k \in DOMAIN ffrBuff : ffrBuff[k] = n
    BY <1>3 DEF LInv, LanesBelongToFfrs, Triggered
  <2>2. trig[n] = {k}
    BY <2>1 DEF LInv, LanesBelongToFfrs
  <2> QED BY <1>3, <2>1, <2>2
<1> QED BY <1>1, <1>2, <1>3 DEF OnlyTrigger

\* _do_simulation(): the FFRs that wait are done.
LEMMA RInvDoSimulation ==
  ASSUME RInv, LInv', kind' = kind, DoSimulation
  PROVE  TypeOK' /\ Distinct(detFault)' /\ ValuesLoaded' /\ ResultsSoFar'
<1> DEFINE obs == Simulate(trig)
           sweep(i) == IF i \in obs THEN Swept(ffrBuff[i], obsMask, Lane) ELSE << >>
           sweeps == [i \in DOMAIN ffrBuff |-> sweep(i)]
           now(i) == {f \in FaultsOf(ffrBuff[i]) \ skip : Found(f)}
           new == {f \in Faults \ skip : Waiting(f) /\ Found(f)}
<1>1. /\ pc = "sppfp" /\ pc' = pc /\ detFault' = detFault \o FlattenSeq(sweeps)
      /\ ffrBuff' = << >> /\ trig' = NoTrigger /\ ffr' = ffr /\ call' = call
      /\ UNCHANGED <<val, prevVal, skip, obsMask, patMap, patBuff, detPat, found>>
  BY DEF DoSimulation, bufferVars
<1>2. TypeOK /\ LInv /\ Distinct(detFault) /\ ValuesLoaded /\ ResultsSoFar
  BY DEF RInv
<1>3. /\ \A f : PatternsOf(f)' = PatternsOf(f) /\ Found(f)' = Found(f)
      /\ \A f : FaultProp(f)' = FaultProp(f)
  BY <1>1, FoundFixed, FaultPropFixed DEF ValuesFixed
<1>4. ValuesLoaded'
  <2>1. CallVectors' = CallVectors
    BY <1>1, <1>2 DEF CallVectors, ValuesLoaded
  <2> QED BY <1>1, <1>2, <2>1, LoadedFixed DEF ValuesLoaded, ValuesFixed
<1>5. ASSUME NEW i \in DOMAIN ffrBuff
      PROVE  sweep(i) \in Seq(Faults) /\ Elements(sweep(i)) = now(i) /\ Distinct(sweep(i))
  <2> DEFINE S == {f \in FaultsOf(ffrBuff[i]) \ skip : obsMask[f] \cap Lane # {}}
  <2>1. ASSUME NEW f \in FaultsOf(ffrBuff[i]) \ skip
        PROVE  /\ obsMask[f] \cap Lane = FaultProp(f)
               /\ Found(f) <=> FaultProp(f) # {} /\ i \in obs
    <3>1. f \in Faults /\ FfrRoot[f.node] = ffrBuff[i] /\ Waiting(f)
      BY DEF FaultsOf, Waiting
    <3>2. obsMask[f] = FaultProp(f)
      BY <1>1, <1>2, <3>1 DEF ResultsSoFar
    <3> QED BY <1>1, <1>2, <3>1, <3>2, LaneOfFfr, SppfpDecides, PropInLanes
  <2>2. S \subseteq Faults
    BY DEF FaultsOf
  <2>3. CASE i \in obs
    <3>1. sweep(i) = InOrder(S)
      BY <2>3 DEF Swept
    <3>2. S = now(i)
      BY <2>1, <2>3
    <3> HIDE DEF S, sweep, now
    <3> QED BY <2>2, <3>1, <3>2, InOrderFacts
  <2>4. CASE i \notin obs
    <3>1. sweep(i) = << >>
      BY <2>4
    <3>2. now(i) = {}
      BY <2>1, <2>4
    <3> HIDE DEF sweep, now
    <3> QED BY <3>1, <3>2 DEF Elements, Distinct
  <2> QED BY <2>3, <2>4
<1>6. \A i, j \in DOMAIN ffrBuff : i # j => now(i) \cap now(j) = {}
  <2>1. \A i, j \in DOMAIN ffrBuff : ffrBuff[i] = ffrBuff[j] => i = j
    <3>1. \A i \in DOMAIN ffrBuff : trig[ffrBuff[i]] = {i}
      BY <1>2 DEF LInv, LanesBelongToFfrs
    <3> QED BY <3>1
  <2> QED BY <2>1 DEF FaultsOf
<1>7. new = UNION {now(i) : i \in DOMAIN ffrBuff}
  BY DEF Waiting, FaultsOf
<1> HIDE DEF sweep, now
<1>8. sweeps \in Seq(Seq(Faults)) /\ DOMAIN sweeps = DOMAIN ffrBuff
      /\ \A i \in DOMAIN sweeps : sweeps[i] = sweep(i)
  <2>1. ffrBuff \in Seq(Node)
    BY <1>2 DEF TypeOK
  <2>2. DOMAIN ffrBuff = 1 .. Len(ffrBuff) /\ Len(ffrBuff) \in Nat
    BY <2>1
  <2> QED BY <1>5, <2>2
<1> HIDE DEF sweeps
<1>9. /\ FlattenSeq(sweeps) \in Seq(Faults) /\ Distinct(FlattenSeq(sweeps))
      /\ Elements(FlattenSeq(sweeps)) = UNION {Elements(sweeps[i]) : i \in DOMAIN sweeps}
  <2>1. \A i \in DOMAIN sweeps : Distinct(sweeps[i])
    BY <1>5, <1>8
  <2>2. \A i, j \in DOMAIN sweeps : i # j => Elements(sweeps[i]) \cap Elements(sweeps[j]) = {}
    BY <1>5, <1>6, <1>8
  <2> QED BY <1>8, <2>1, <2>2, FlattenFacts
<1>10. Elements(FlattenSeq(sweeps)) = new
  <2>1. {Elements(sweeps[i]) : i \in DOMAIN sweeps} = {now(i) : i \in DOMAIN ffrBuff}
    BY <1>5, <1>8
  <2> HIDE DEF new
  <2> QED BY <1>7, <1>9, <2>1
<1>11. Elements(detFault) \cap new = {}
  BY <1>1, <1>2 DEF ResultsSoFar
<1>12. /\ detFault' \in Seq(Faults) /\ Distinct(detFault')
       /\ Elements(detFault') = Elements(detFault) \cup new
  <2> HIDE DEF new
  <2> QED BY <1>1, <1>2, <1>9, <1>10, <1>11, ConcatFacts DEF TypeOK
<1>13. /\ \A f : ~ Waiting(f)'
       /\ \A f : Passed(f)' <=> Passed(f)
  BY <1>1 DEF Waiting, Passed
<1>14. TypeOK'
  <2>1. ffrBuff' \in Seq(Node) /\ trig' \in [Node -> SUBSET Lane]
    BY <1>1 DEF NoTrigger
  <2> QED BY <1>1, <1>2, <1>12, <2>1 DEF TypeOK
<1>15. ResultsSoFar'
  <2>1. \A f \in Faults : Waiting(f) => Passed(f)
    BY <1>2 DEF Waiting, Passed, LInv, RootsPassed
  <2>2. \A f \in Faults : f \in Elements(detFault') <=> f \notin skip /\ Passed(f) /\ Found(f)
    BY <1>1, <1>2, <1>12, <2>1 DEF ResultsSoFar
  <2> QED BY <1>1, <1>3, <1>13, <2>2 DEF ResultsSoFar, Elements
<1> QED BY <1>4, <1>12, <1>14, <1>15 DEF Distinct

\* In ppsfp() the lanes of the patterns decide; the other lanes repeat one.
LEMMA PpsfpDecides ==
  ASSUME RInv, pc = "ppsfp", patMap # {}, NEW f \in Faults
  PROVE  /\ PatternsOf(f) \subseteq FaultProp(f) \cap patMap
         /\ FfrRoot[f.node] \in Output =>
              /\ PatternsOf(f) = FaultProp(f) \cap patMap
              /\ FaultProp(f) # {} => PatternsOf(f) # {}
         /\ \A t : \A b \in patMap : OnlyTrigger(t, FfrRoot[f.node], b) =>
              (b \in PatternsOf(f) <=> b \in FaultProp(f) /\ b \in Simulate(t))
<1> DEFINE first == CHOOSE b \in patMap : \A c \in patMap : b <= c
           tvs == [b \in Lane |-> patBuff[IF b \in patMap THEN b ELSE first]]
<1>1. call.op = "ppsfp" /\ kind \in Simulators /\ patMap \subseteq Lane
  BY DEF RInv, TypeOK, ValuesLoaded
<1>2. CallVectors = tvs
  BY <1>1 DEF CallVectors, BufferedVectors
<1>3. first \in patMap
  <2>1. patMap \subseteq Nat
    BY <1>1, LanesCounted
  <2>2. \E b \in patMap : \A c \in patMap : b <= c
    BY <2>1, NatLeast
  <2> QED BY <2>2
<1> HIDE DEF first
<1>4. /\ \A b \in patMap : tvs[b] = patBuff[b]
      /\ \A b \in Lane : \E c \in patMap : tvs[b] = tvs[c]
  BY <1>1, <1>3
<1> HIDE DEF tvs
<1>5. Loaded(tvs)
  BY <1>2 DEF RInv, ValuesLoaded
<1>6. \A b \in patMap : b \in PatternsOf(f) <=> Detects(tvs[b], f)
  BY <1>4 DEF PatternsOf
<1>7. PatternsOf(f) \subseteq FaultProp(f) \cap patMap
  <2>1. PatternsOf(f) \subseteq patMap
    BY DEF PatternsOf
  <2> QED BY <1>1, <1>5, <1>6, <2>1, Verdict
<1>8. ASSUME FfrRoot[f.node] \in Output
      PROVE  PatternsOf(f) = FaultProp(f) \cap patMap /\ (FaultProp(f) # {} => PatternsOf(f) # {})
  <2>1. PatternsOf(f) = FaultProp(f) \cap patMap
    BY <1>1, <1>5, <1>6, <1>7, <1>8, Verdict
  <2>2. ASSUME NEW b \in FaultProp(f) PROVE PatternsOf(f) # {}
    <3>1. b \in Lane
      BY PropInLanes
    <3>2. PICK c \in patMap : tvs[b] = tvs[c]
      BY <1>4, <3>1
    <3>3. c \in FaultProp(f)
      BY <1>1, <1>5, <3>1, <3>2, SameProp
    <3> QED BY <2>1, <3>3
  <2> QED BY <2>1, <2>2
<1>9. ASSUME NEW t, NEW b \in patMap, OnlyTrigger(t, FfrRoot[f.node], b)
      PROVE  b \in PatternsOf(f) <=> b \in FaultProp(f) /\ b \in Simulate(t)
  BY <1>1, <1>5, <1>6, <1>9, Verdict
<1> QED BY <1>7, <1>8, <1>9

\* simulate() for one FFR, in the lanes of req.
LEMMA PropSimFacts ==
  ASSUME RInv, pc = "ppsfp", patMap # {}, NEW root \in Node,
         NEW obs, obs = PropSim(root, FfrReq(root) \cap patMap),
         NEW f \in FaultsOf(root) \ skip
  PROVE  /\ FaultProp(f) \cap obs \cap patMap = PatternsOf(f)
         /\ FaultProp(f) \cap obs # {} <=> PatternsOf(f) # {}
         /\ FfrReq(root) \cap patMap = {} => PatternsOf(f) = {}
<1> DEFINE req == FfrReq(root) \cap patMap
           t == [NoTrigger EXCEPT ![root] = req]
<1>1. f \in Faults /\ FfrRoot[f.node] = root
  BY DEF FaultsOf
<1>2. FaultProp(f) \cap patMap \subseteq req
  BY DEF FfrReq
<1>3. PatternsOf(f) \subseteq FaultProp(f) \cap patMap
  BY <1>1, PpsfpDecides
<1>4. CASE root \in Output
  <2>1. obs = Lane
    BY <1>4 DEF PropSim
  <2>2. PatternsOf(f) = FaultProp(f) \cap patMap /\ (FaultProp(f) # {} => PatternsOf(f) # {})
    BY <1>1, <1>4, PpsfpDecides
  <2> QED BY <1>2, <1>3, <2>1, <2>2, PropInLanes
<1>5. CASE root \notin Output
  <2>1. obs = Simulate(t)
    BY <1>5 DEF PropSim
  <2>2. t[root] = req /\ \A n \in Node : n # root => t[n] = {}
    BY DEF NoTrigger
  <2> HIDE DEF t
  <2>3. \A b \in req : OnlyTrigger(t, root, b)
    BY <2>2 DEF OnlyTrigger
  <2>4. ValuesOk
    <3>1. CallVectors = CallVectors /\ kind \in Simulators /\ \A tvs : tvs = CallVectors => Loaded(tvs)
      BY DEF RInv, TypeOK, ValuesLoaded
    <3> QED BY <3>1, LoadedFacts
  <2>5. obs \subseteq req
    <3>1. obs \subseteq Lane
      BY <2>1 DEF Simulate, Observed, Diff
    <3>2. \A b \in Lane \ req : b \notin Simulate(t)
      BY <2>2, <2>4, LaneUntouched
    <3> QED BY <2>1, <3>1, <3>2
  <2>6. \A b \in req : b \in PatternsOf(f) <=> b \in FaultProp(f) /\ b \in obs
    BY <1>1, <2>1, <2>3, PpsfpDecides
  <2> QED BY <1>2, <1>3, <2>5, <2>6
<1> QED BY <1>4, <1>5

\* One FFR of _ppsfp().
LEMMA RInvPpsfpFfr ==
  ASSUME RInv, LInv', kind' = kind, PpsfpFfr
  PROVE  TypeOK' /\ Distinct(detFault)' /\ ValuesLoaded' /\ ResultsSoFar'
<1> DEFINE root == FfrList[ffr]
           masks == ObsMaskAfter(root)
           req == FfrReq(root) \cap patMap
           obs == PropSim(root, req)
           found1 == {f \in FaultsOf(root) \ skip : masks[f] \cap obs # {}}
           swept == InOrder(found1)
           m == Len(detFault)
<1>1. /\ pc = "ppsfp" /\ pc' = pc /\ ffr <= Len(FfrList) /\ ffr' = ffr + 1
      /\ obsMask' = masks /\ call' = call /\ ffrBuff' = ffrBuff /\ trig' = trig
      /\ UNCHANGED <<val, prevVal, skip, patMap, patBuff, found>>
  BY DEF PpsfpFfr, bufferVars
<1>2. TypeOK /\ LInv /\ Distinct(detFault) /\ ValuesLoaded /\ ResultsSoFar
  BY DEF RInv
<1>3. /\ root \in Node
      /\ \A f \in Faults : Passed(f)' <=> Passed(f) \/ f \in FaultsOf(root)
      /\ \A f \in FaultsOf(root) : ~ Passed(f) /\ ~ Waiting(f)
  BY <1>1, <1>2, LoopTurn
<1>4. /\ masks \in [Faults -> SUBSET Lane]
      /\ \A f \in FaultsOf(root) \ skip : masks[f] = FaultProp(f)
  BY <1>2, MasksAfter
<1>5. \A f : PatternsOf(f)' = PatternsOf(f) /\ Found(f)' = Found(f)
  BY <1>1, FoundFixed DEF ValuesFixed
<1>6. FaultsOf(root) \subseteq Faults
  BY DEF FaultsOf
<1>7. call.op = "ppsfp" /\ patMap # {} /\ \A f : Found(f) <=> PatternsOf(f) # {}
  <2>1. call.op = "ppsfp"
    BY <1>1, <1>2 DEF ValuesLoaded
  <2>2. ~ (ffr > Len(FfrList))
    BY <1>1, <1>2, ValueTypes
  <2> QED BY <1>1, <1>2, <2>1, <2>2 DEF ValuesLoaded, Found
<1>8. \A f \in FaultsOf(root) \ skip :
        /\ masks[f] \cap obs \cap patMap = PatternsOf(f)
        /\ f \in found1 <=> Found(f)
        /\ req = {} => ~ Found(f)
  <2> SUFFICES ASSUME NEW f \in FaultsOf(root) \ skip
               PROVE  /\ masks[f] \cap obs \cap patMap = PatternsOf(f)
                      /\ f \in found1 <=> Found(f)
                      /\ req = {} => ~ Found(f)
    OBVIOUS
  <2>1. obs = PropSim(root, FfrReq(root) \cap patMap)
    OBVIOUS
  <2>2. f \in found1 <=> FaultProp(f) \cap obs # {}
    BY <1>4
  <2>3. req = FfrReq(root) \cap patMap
    OBVIOUS
  <2>4. masks[f] = FaultProp(f)
    BY <1>4
  <2> HIDE DEF root, masks, req, obs, found1, swept, m
  <2>5. /\ FaultProp(f) \cap obs \cap patMap = PatternsOf(f)
        /\ FaultProp(f) \cap obs # {} <=> PatternsOf(f) # {}
        /\ FfrReq(root) \cap patMap = {} => PatternsOf(f) = {}
    BY <1>1, <1>3, <1>7, <2>1, PropSimFacts
  <2> QED BY <1>7, <2>2, <2>3, <2>4, <2>5
<1>9. ValuesLoaded'
  <2>1. CallVectors' = CallVectors
    BY <1>1, <1>2 DEF CallVectors, BufferedVectors
  <2> QED BY <1>1, <1>2, <1>7, <2>1, LoadedFixed DEF ValuesLoaded, ValuesFixed
<1>10. \A f : ~ Waiting(f) /\ ~ Waiting(f)'
  BY <1>1, <1>2 DEF Waiting, LInv, LanesBelongToFfrs
<1>11. ffr' \in 1 .. Len(FfrList) + 1
  BY <1>1, <1>2, ValueTypes
<1>12. ASSUME detFault' \in Seq(Faults), detPat' \in [DOMAIN FaultList -> SUBSET Lane] PROVE TypeOK'
  <2>1. /\ obsMask' \in [Faults -> SUBSET Lane]
        /\ UNCHANGED <<val, prevVal, skip, patMap, patBuff, pc, ffrBuff, trig, found>>
    BY <1>1, <1>4
  <2> HIDE DEF root, masks, req, obs, found1, swept, m
  <2> QED BY <1>2, <1>11, <1>12, <2>1 DEF TypeOK
<1>13. CASE req = {}
  <2>1. detFault' = detFault /\ detPat' = detPat
    BY <1>13 DEF PpsfpFfr
  <2> HIDE DEF root, masks, req, obs, found1
  <2>2. ResultsSoFar'
    <3>1. \A f \in Faults : f \in Elements(detFault) <=>
            f \notin skip /\ Passed(f)' /\ Found(f)
      BY <1>1, <1>2, <1>3, <1>8, <1>10, <1>13 DEF ResultsSoFar
    <3>2. \A i \in DOMAIN detFault : detPat[i] = PatternsOf(detFault[i])
      BY <1>1, <1>2 DEF ResultsSoFar
    <3> QED BY <1>1, <1>5, <1>10, <2>1, <3>1, <3>2 DEF ResultsSoFar, Elements
  <2> QED BY <1>2, <1>9, <1>12, <2>1, <2>2 DEF TypeOK, Distinct
<1>14. CASE req # {}
  <2>1. /\ detFault' = detFault \o swept
        /\ detPat' = [i \in DOMAIN detPat |->
                        LET k == i - m
                        IN  IF k \in DOMAIN swept THEN masks[swept[k]] \cap obs \cap patMap
                            ELSE detPat[i]]
    BY <1>14 DEF PpsfpFfr, Swept
  <2>2. found1 \subseteq FaultsOf(root) \ skip
    OBVIOUS
  <2> HIDE DEF root, masks, req, obs, found1
  <2>3. swept \in Seq(Faults) /\ Elements(swept) = found1 /\ Distinct(swept)
    BY <1>6, <2>2, InOrderFacts
  <2>4. Elements(detFault) \cap found1 = {}
    BY <1>1, <1>2, <1>3, <1>6, <2>2 DEF ResultsSoFar
  <2> HIDE DEF swept
  <2>5. /\ detFault' \in Seq(Faults) /\ Distinct(detFault')
        /\ Elements(detFault') = Elements(detFault) \cup found1
        /\ DOMAIN detFault' = 1 .. Len(detFault) + Len(swept)
        /\ \A i \in DOMAIN detFault : detFault'[i] = detFault[i]
        /\ \A i \in DOMAIN detFault' :
             i \in DOMAIN detFault \/ (i - m \in DOMAIN swept /\ detFault'[i] = swept[i - m])
    BY <1>2, <2>1, <2>3, <2>4, ConcatFacts DEF TypeOK
  <2>6. DOMAIN detFault' \subseteq DOMAIN FaultList
    <3>1. Len(detFault') <= Len(FaultList)
      BY <2>5, NoLongerThanFaultList
    <3>2. DOMAIN detFault' = 1 .. Len(detFault') /\ Len(detFault') \in Nat
      BY <2>5
    <3> QED BY <3>1, <3>2, FaultListFacts
  <2>7. detPat \in [DOMAIN FaultList -> SUBSET Lane] /\ patMap \subseteq Lane /\ detFault \in Seq(Faults)
    BY <1>2 DEF TypeOK
  <2>8. detPat' \in [DOMAIN FaultList -> SUBSET Lane]
    BY <2>1, <2>7
  <2>9. ASSUME NEW i \in DOMAIN detFault' PROVE detPat'[i] = PatternsOf(detFault'[i])
    <3>1. i \in DOMAIN FaultList
      BY <2>6
    <3>2. CASE i \in DOMAIN detFault
      <4>1. i - m \notin DOMAIN swept
        <5>1. i \in 1 .. m /\ m \in Nat /\ DOMAIN swept = 1 .. Len(swept)
          BY <2>3, <2>7, <3>2
        <5> QED BY <5>1
      <4>2. detPat'[i] = detPat[i]
        BY <2>1, <2>7, <3>1, <4>1
      <4>3. detPat[i] = PatternsOf(detFault[i])
        BY <1>1, <1>2, <3>2 DEF ResultsSoFar
      <4> QED BY <2>5, <3>2, <4>2, <4>3
    <3>3. CASE i - m \in DOMAIN swept /\ detFault'[i] = swept[i - m]
      <4>1. detPat'[i] = masks[swept[i - m]] \cap obs \cap patMap
        BY <2>1, <2>7, <3>1, <3>3
      <4>2. swept[i - m] \in found1
        BY <2>3, <3>3 DEF Elements
      <4> QED BY <1>8, <2>2, <3>3, <4>1, <4>2
    <3> QED BY <2>5, <3>2, <3>3
  <2>10. ResultsSoFar'
    <3>1. \A f \in Faults : f \in Elements(detFault') <=>
            f \notin skip /\ Passed(f)' /\ Found(f)
      BY <1>1, <1>2, <1>3, <1>8, <1>10, <2>2, <2>5 DEF ResultsSoFar
    <3> QED BY <1>1, <1>5, <1>10, <2>9, <3>1 DEF ResultsSoFar, Elements
  <2> QED BY <1>9, <1>12, <2>5, <2>8, <2>10 DEF Distinct
<1> QED BY <1>13, <1>14

LEMMA RInvStutter ==
  ASSUME RInv, UNCHANGED fsimVars
  PROVE  TypeOK' /\ Distinct(detFault)' /\ ValuesLoaded' /\ ResultsSoFar'
<1>1. /\ ValuesFixed
      /\ UNCHANGED <<skip, obsMask, patMap, patBuff, detFault, detPat, found>>
      /\ UNCHANGED <<pc, ffr, ffrBuff, trig, call>>
  BY DEF fsimVars, bufferVars, resultVars, loopVars, ValuesFixed
<1>2. TypeOK /\ Distinct(detFault) /\ ValuesLoaded /\ ResultsSoFar
  BY DEF RInv
<1>3. TypeOK' /\ Distinct(detFault)'
  BY <1>1, <1>2 DEF TypeOK, Distinct, ValuesFixed
<1>4. ValuesLoaded'
  <2>1. CallVectors' = CallVectors
    BY <1>1 DEF CallVectors, BufferedVectors
  <2> QED BY <1>1, <1>2, <2>1, LoadedFixed DEF ValuesLoaded
<1>5. ResultsSoFar'
  <2>1. \A f : PatternsOf(f)' = PatternsOf(f) /\ Found(f)' = Found(f) /\ FaultProp(f)' = FaultProp(f)
    BY <1>1, FoundFixed, FaultPropFixed DEF ValuesFixed
  <2>2. \A f : (Passed(f)' <=> Passed(f)) /\ (Waiting(f)' <=> Waiting(f))
    BY <1>1 DEF Passed, Waiting
  <2>3. Elements(detFault)' = Elements(detFault)
    BY <1>1 DEF Elements
  <2> QED BY <1>1, <1>2, <2>1, <2>2, <2>3 DEF ResultsSoFar
<1> QED BY <1>3, <1>4, <1>5

LEMMA RInvNext == RInv /\ [Next]_fsimVars => RInv'
<1> SUFFICES ASSUME RInv, [Next]_fsimVars PROVE RInv'
  OBVIOUS
<1> DEFINE Goal == TypeOK' /\ Distinct(detFault)' /\ ValuesLoaded' /\ ResultsSoFar'
<1>1. LInv'
  BY LInvNext DEF RInv
<1>2. CASE UNCHANGED fsimVars
  BY <1>1, <1>2, RInvStutter DEF RInv
<1>3. ASSUME Calls, kind' = kind PROVE Goal
  <2>1. CASE Skipping \/ ClearPatterns \/ \E b \in Lane, tv \in TestVectors : SetPattern(b, tv)
    BY <1>3, <2>1, RInvIdle
  <2>2. ASSUME NEW tv \in TestVectors, NEW f \in Faults, Spsfp(tv, f) PROVE Goal
    BY <1>3, <2>2, RInvSpsfp
  <2>3. ASSUME NEW tv \in TestVectors, Sppfp(tv) PROVE Goal
    BY <1>3, <2>3, RInvSppfp
  <2>4. CASE Ppsfp
    BY <1>3, <2>4, RInvPpsfp
  <2> QED BY <1>3, <2>1, <2>2, <2>3, <2>4 DEF Calls
<1>4. ASSUME Loops, kind' = kind PROVE Goal
  <2>1. CASE SpsfpReturn \/ Return
    BY <1>4, <2>1, RInvReturn
  <2>2. CASE SppfpFfr
    BY <1>1, <1>4, <2>2, RInvSppfpFfr
  <2>3. CASE DoSimulation
    BY <1>1, <1>4, <2>3, RInvDoSimulation
  <2>4. CASE PpsfpFfr
    BY <1>1, <1>4, <2>4, RInvPpsfpFfr
  <2> QED BY <1>4, <2>1, <2>2, <2>3, <2>4 DEF Loops
<1>5. CASE Next
  BY <1>1, <1>3, <1>4, <1>5 DEF Next, RInv
<1> QED BY <1>2, <1>5

\* The state keeps its types: the loop stays within mFFRArray, and every node
\* has a word of values.
THEOREM TypesAreKept == Spec => []TypeOK
<1>1. RInv => TypeOK
  BY DEF RInv
<1> QED BY <1>1, RInvInit, RInvNext, PTL DEF Spec

\* No call reports a fault twice, and the result arrays are large enough.
THEOREM EachFaultReportedOnce == Spec => []ReportedOnce
<1>1. RInv => ReportedOnce
  BY NoLongerThanFaultList DEF RInv, TypeOK, ReportedOnce, Distinct
<1> QED BY <1>1, RInvInit, RInvNext, PTL DEF Spec

LEMMA SameGates == \A type, ins : Promise!GateFunction(type, ins) = GateFunction(type, ins)
<1>1. \A ins, x : Promise!Some(ins, x) = Some(ins, x)
  BY DEF Promise!Some, Some
<1>2. \A v : Promise!Complement(v) = Complement(v)
  BY DEF Promise!Complement, Complement
<1>3. \A ins : Promise!AndOf(ins) = AndOf(ins)
  BY <1>1, Zenon DEF Promise!AndOf, AndOf
<1>4. \A ins : Promise!OrOf(ins) = OrOf(ins)
  BY <1>1, Zenon DEF Promise!OrOf, OrOf
<1>5. ASSUME NEW ins PROVE Promise!XorOf(ins) = XorOf(ins)
  <2>1. Promise!Some(ins, "X") = Some(ins, "X")
    BY <1>1
  <2>2. \A S : Promise!Cardinality(S) = Cardinality(S)
    BY Zenon DEF Promise!Cardinality, Cardinality
  <2> QED BY <2>1, <2>2, Zenon DEF Promise!XorOf, XorOf
<1> QED BY <1>2, <1>3, <1>4, <1>5, Zenon DEF Promise!GateFunction, GateFunction

LEMMA SameModel ==
  /\ Promise!Faults = Faults /\ Promise!Simulators = Simulators
  /\ \A tv, f : Promise!Detects(tv, f) = Detects(tv, f)
<1>1. Promise!Faults = Faults /\ Promise!Simulators = Simulators /\ Promise!PPI = PPI
      /\ Promise!DffOutputs = DffOutputs /\ Promise!NoFault = NoFault
  BY DEF Promise!Faults, Faults, Promise!Simulators, Simulators, Promise!PPI, PPI,
         Promise!DffOutputs, DffOutputs, Promise!NoFault, NoFault
<1>2. /\ \A x : Promise!AsVal(x) = AsVal(x)
      /\ \A f : Promise!InputNode(f) = InputNode(f)
      /\ \A n : Promise!IsInput(n) = IsInput(n)
  BY DEF Promise!AsVal, AsVal, Promise!InputNode, InputNode, Promise!IsInput, IsInput
<1>3. ASSUME NEW in, NEW f PROVE Promise!ValuesUnder(in, f) = ValuesUnder(in, f)
  <2> DEFINE E(v) == [n \in Node |->
                IF f.node = n /\ f.pos = 0 THEN f.val
                ELSE IF Promise!IsInput(n) THEN in[n]
                ELSE Promise!GateFunction(GateType[n],
                       [i \in DOMAIN Fanin[n] |->
                          IF f.node = n /\ f.pos = i THEN f.val ELSE v[Fanin[n][i]]])]
             F(v) == [n \in Node |->
                IF f.node = n /\ f.pos = 0 THEN f.val
                ELSE IF IsInput(n) THEN in[n]
                ELSE GateFunction(GateType[n],
                       [i \in DOMAIN Fanin[n] |->
                          IF f.node = n /\ f.pos = i THEN f.val ELSE v[Fanin[n][i]]])]
  <2>1. Promise!ValuesUnder(in, f) = [n \in Node |-> (CHOOSE v : v = E(v))[n]]
    BY Zenon DEF Promise!ValuesUnder
  <2>2. ValuesUnder(in, f) = [n \in Node |-> (CHOOSE v : v = F(v))[n]]
    BY Zenon DEF ValuesUnder
  <2>3. \A v : E(v) = F(v)
    BY <1>2, SameGates, Zenon
  <2> HIDE DEF E, F
  <2>4. (CHOOSE v : v = E(v)) = (CHOOSE v : v = F(v))
    BY <2>3
  <2> QED BY <2>1, <2>2, <2>4
<1>4. \A in, f : Promise!Distinguished(in, f) = Distinguished(in, f)
  BY <1>1, <1>3, Zenon DEF Promise!Distinguished, Distinguished
<1>5. \A tv : Promise!FirstCycle(tv) = FirstCycle(tv)
  BY <1>1, <1>2, <1>3 DEF Promise!FirstCycle, FirstCycle
<1>6. ASSUME NEW tv PROVE Promise!SecondInputs(tv) = SecondInputs(tv)
  <2> DEFINE next(n) == (CHOOSE d \in {Dff[i] : i \in DOMAIN Dff} : d[1] = n)[2]
  <2>1. Promise!SecondInputs(tv)
        = [n \in Promise!PPI |-> IF n \in Promise!DffOutputs THEN Promise!FirstCycle(tv)[next(n)]
                                 ELSE Promise!AsVal(tv.aux[n])]
    BY Zenon DEF Promise!SecondInputs
  <2>2. SecondInputs(tv)
        = [n \in PPI |-> IF n \in DffOutputs THEN FirstCycle(tv)[next(n)]
                         ELSE AsVal(tv.aux[n])]
    BY Zenon DEF SecondInputs
  <2> HIDE DEF next
  <2> QED BY <1>1, <1>2, <1>5, <2>1, <2>2
<1>7. \A tv, f : Promise!Detects(tv, f) = Detects(tv, f)
  BY <1>1, <1>2, <1>4, <1>5, <1>6, Zenon DEF Promise!Detects, Detects
<1> QED BY <1>1, <1>7

\* No pattern is set: the function without arguments.
LEMMA NoPatterns == \A w : [b \in {} |-> w[b]] = << >>
  OBVIOUS

\* In spsfp() every lane is in use and all are alike.
LEMMA SpsfpDecides ==
  ASSUME RInv, pc = "spsfp", NEW f, f = call.fault
  PROVE  Detects(call.tv, f) <=> FaultProp(f) # {} /\ PropSim(FfrRoot[f.node], Lane) # {}
<1> DEFINE tvs == [b \in Lane |-> call.tv]
           t == [NoTrigger EXCEPT ![FfrRoot[f.node]] = Lane]
<1>1. call.op = "spsfp" /\ CallVectors = tvs /\ kind \in Simulators /\ f \in Faults
  BY DEF RInv, TypeOK, ValuesLoaded, CallVectors
<1>2. /\ \A b \in Lane : Detects(call.tv, f) <=> Detects(tvs[b], f)
      /\ \A b, c \in Lane : tvs[b] = tvs[c]
  OBVIOUS
<1>3. FfrRoot[f.node] \in Node
  BY <1>1, FaultFacts, RootsAreRoots
<1>4. \A b \in Lane : OnlyTrigger(t, FfrRoot[f.node], b)
  BY <1>3 DEF OnlyTrigger, NoTrigger
<1>5. PropSim(FfrRoot[f.node], Lane) = IF FfrRoot[f.node] \in Output THEN Lane ELSE Simulate(t)
  BY DEF PropSim
<1> HIDE DEF tvs, t
<1>6. Loaded(tvs)
  BY <1>1 DEF RInv, ValuesLoaded
<1>7. \A b, c \in Lane : b \in FaultProp(f) => c \in FaultProp(f)
  BY <1>1, <1>2, <1>6, SameProp
<1>8. PICK c \in Lane : TRUE
  BY LaneAssumption
<1>9. FaultProp(f) \subseteq Lane /\ Simulate(t) \subseteq Lane
  BY PropInLanes DEF Simulate, Observed, Diff
<1>10. FaultProp(f) # {} <=> c \in FaultProp(f)
  BY <1>7, <1>8, <1>9
<1>11. \A b \in Lane :
         /\ FfrRoot[f.node] \in Output => (Detects(call.tv, f) <=> b \in FaultProp(f))
         /\ Detects(call.tv, f) <=> b \in FaultProp(f) /\ b \in Simulate(t)
  BY <1>1, <1>2, <1>4, <1>6, Verdict
<1> QED BY <1>5, <1>7, <1>8, <1>9, <1>10, <1>11

\* After the last FFR nothing is left out.
LEMMA AllDone ==
  ASSUME RInv, Return
  PROVE  /\ \A f \in Faults : f \in Elements(detFault) <=> f \notin skip /\ Found(f)
         /\ pc = "ppsfp" => \A i \in DOMAIN detFault : detPat[i] = PatternsOf(detFault[i])
         /\ call.op = pc
<1>1. pc \in {"sppfp", "ppsfp"} /\ ffr > Len(FfrList) /\ ffrBuff = << >>
  BY DEF Return
<1>2. \A f : ~ Waiting(f)
  BY <1>1 DEF Waiting
<1>3. ASSUME NEW f \in Faults PROVE Passed(f)
  <2>1. FfrRoot[f.node] \in Node /\ FfrRoot[FfrRoot[f.node]] = FfrRoot[f.node]
    BY FaultFacts, RootsAreRoots
  <2>2. PICK j \in DOMAIN FfrList : FfrList[j] = FfrRoot[f.node]
    BY <2>1, FfrAssumption
  <2>3. j \in 1 .. Len(FfrList) /\ Len(FfrList) \in Nat /\ ffr \in Nat
    BY FfrAssumption DEF RInv, TypeOK
  <2> QED BY <1>1, <2>2, <2>3 DEF Passed
<1> QED BY <1>1, <1>2, <1>3 DEF RInv, ResultsSoFar, ValuesLoaded

\* What the callers see of the state.
Patterns == [b \in patMap |-> patBuff[b]]
Report == IF pc # "idle" \/ call.op = "none" THEN {} ELSE Reported

LEMMA InitReports == Init => Promise!Init
<1> SUFFICES ASSUME Init PROVE Promise!Init
  OBVIOUS
<1>1. kind \in Simulators /\ skip = {} /\ patMap = {} /\ pc = "idle" /\ call = [op |-> "none"]
  BY DEF Init
<1>2. Patterns = << >>
  BY <1>1 DEF Patterns
<1>3. Report = {}
  BY <1>1 DEF Report
<1> QED BY <1>1, <1>2, <1>3, SameModel DEF Promise!Init, Promise!NoCall, Patterns, Report

\* The call answers.
LEMMA ReturnReports ==
  ASSUME RInv, SpsfpReturn \/ Return, kind' = kind
  PROVE  Report' = Promise!Answer
<1>1. pc' = "idle" /\ call' = call /\ detFault' = detFault /\ detPat' = detPat
  BY DEF SpsfpReturn, Return, resultVars
<1>2. CASE SpsfpReturn
  <2>1. pc = "spsfp" /\ call.op = "spsfp"
    BY <1>2 DEF SpsfpReturn, RInv, ValuesLoaded
  <2>2. found' <=> Detects(call.tv, call.fault)
    <3>1. found' <=> FaultProp(call.fault) # {} /\ PropSim(FfrRoot[call.fault.node], Lane) # {}
      BY <1>2 DEF SpsfpReturn
    <3> QED BY <2>1, <3>1, SpsfpDecides
  <2>3. Report' = {[fault |-> f, pat |-> {}] : f \in {g \in {call.fault} : found'}}
    BY <1>1, <2>1 DEF Report, Reported
  <2>4. Promise!Answer = {[fault |-> f, pat |-> {}] :
                            f \in {g \in {call.fault} : Detects(call.tv, g)}}
    BY <2>1, SameModel DEF Promise!Answer
  <2> QED BY <2>2, <2>3, <2>4
<1>3. CASE Return /\ pc = "sppfp"
  <2>1. call.op = "sppfp" /\ \A f \in Faults : f \in Elements(detFault) <=> f \notin skip /\ Found(f)
    BY <1>3, AllDone
  <2>2. Report' = {[fault |-> detFault[i], pat |-> {}] : i \in DOMAIN detFault}
    BY <1>1, <2>1 DEF Report, Reported
  <2>3. Promise!Answer = {[fault |-> f, pat |-> {}] :
                            f \in {g \in Faults \ skip : Detects(call.tv, g)}}
    BY <2>1, SameModel DEF Promise!Answer
  <2>4. Elements(detFault) = {g \in Faults \ skip : Detects(call.tv, g)}
    <3>1. Elements(detFault) \subseteq Faults
      BY DEF RInv, TypeOK, Elements
    <3>2. \A f : Found(f) <=> Detects(call.tv, f)
      BY <2>1 DEF Found
    <3> QED BY <2>1, <3>1, <3>2
  <2> QED BY <2>2, <2>3, <2>4 DEF Elements
<1>4. CASE Return /\ pc = "ppsfp"
  <2>1. /\ call.op = "ppsfp"
        /\ \A f \in Faults : f \in Elements(detFault) <=> f \notin skip /\ Found(f)
        /\ \A i \in DOMAIN detFault : detPat[i] = PatternsOf(detFault[i])
    BY <1>4, AllDone
  <2>2. Report' = {[fault |-> detFault[i], pat |-> detPat[i]] : i \in DOMAIN detFault}
    BY <1>1, <2>1 DEF Report, Reported
  <2>3. \A f : Promise!DetectingLanes(f) = PatternsOf(f)
    BY SameModel DEF Promise!DetectingLanes, PatternsOf
  <2>4. Promise!Answer = {[fault |-> f, pat |-> PatternsOf(f)] :
                            f \in {g \in Faults \ skip : PatternsOf(g) # {}}}
    BY <2>1, <2>3, SameModel DEF Promise!Answer
  <2>5. Elements(detFault) = {g \in Faults \ skip : PatternsOf(g) # {}}
    <3>1. Elements(detFault) \subseteq Faults
      BY DEF RInv, TypeOK, Elements
    <3>2. \A f : Found(f) <=> PatternsOf(f) # {}
      BY <2>1 DEF Found
    <3> QED BY <2>1, <3>1, <3>2
  <2>6. Report' = {[fault |-> detFault[i], pat |-> PatternsOf(detFault[i])] : i \in DOMAIN detFault}
    BY <2>1, <2>2
  <2> QED BY <2>4, <2>5, <2>6 DEF Elements
<1> QED BY <1>2, <1>3, <1>4 DEF Return

\* A call that is running shows nothing yet, and a step of the network's user
\* between two calls leaves what the last one reported.
LEMMA NextReports ==
  ASSUME RInv, [Next]_fsimVars
  PROVE  [Promise!Next]_(Promise!simulationVars)
<1> DEFINE Goal == [Promise!Next]_(Promise!simulationVars)
<1>1. ASSUME kind' = kind, pc # "idle" <=> pc' # "idle", UNCHANGED <<skip, Patterns, call, Report>>
      PROVE  Goal
  BY <1>1 DEF Promise!simulationVars, Patterns, Report
<1>2. ASSUME UNCHANGED <<patMap, patBuff>> PROVE Patterns' = Patterns
  BY <1>2 DEF Patterns
<1>3. ASSUME pc = "idle", pc' = "idle", UNCHANGED <<call, resultVars>> PROVE Report' = Report
  BY <1>3 DEF Report, Reported, resultVars
<1>4. ASSUME pc # "idle", pc' # "idle" PROVE Report' = Report
  BY <1>4 DEF Report
<1>5. CASE UNCHANGED fsimVars
  <2>1. UNCHANGED <<kind, skip, patMap, patBuff, pc, call, resultVars>>
    BY <1>5 DEF fsimVars, bufferVars, loopVars
  <2>2. Report' = Report
    BY <2>1 DEF Report, Reported, resultVars
  <2> QED BY <1>1, <1>2, <2>1, <2>2
<1>6. ASSUME Skipping, kind' = kind PROVE Goal
  <2>1. /\ pc = "idle" /\ pc' = "idle" /\ UNCHANGED <<patMap, patBuff, call, resultVars>>
    BY <1>6 DEF Skipping, loopVars, bufferVars
  <2>2. skip' \in SUBSET Faults
    BY <1>6 DEF Skipping, SetSkip, ClearSkip, SetSkipAll, ClearSkipAll, RInv, TypeOK
  <2>3. Patterns' = Patterns /\ Report' = Report
    BY <1>2, <1>3, <2>1
  <2>4. Promise!SetSkip
    BY <2>1, <2>2, <2>3, SameModel DEF Promise!SetSkip, Patterns, Report
  <2> QED BY <1>6, <2>4 DEF Promise!Next
<1>7. ASSUME ClearPatterns, kind' = kind PROVE Goal
  <2>1. /\ pc = "idle" /\ pc' = "idle" /\ patMap' = {} /\ UNCHANGED <<skip, call, resultVars>>
    BY <1>7 DEF ClearPatterns, loopVars
  <2>2. Patterns' = << >> /\ Report' = Report
    BY <1>3, <2>1 DEF Patterns
  <2>3. Promise!ClearPatterns
    BY <2>1, <2>2 DEF Promise!ClearPatterns, Patterns, Report
  <2> QED BY <1>7, <2>3 DEF Promise!Next
<1>8. ASSUME NEW b \in Lane, NEW tv \in TestVectors, SetPattern(b, tv), kind' = kind PROVE Goal
  <2>1. /\ pc = "idle" /\ pc' = "idle" /\ patMap' = patMap \cup {b}
        /\ patBuff' = [patBuff EXCEPT ![b] = tv] /\ UNCHANGED <<skip, call, resultVars>>
    BY <1>8 DEF SetPattern, loopVars
  <2>2. Report' = Report
    BY <1>3, <2>1
  <2>3. patMap \subseteq Lane /\ patBuff \in [Lane -> TestVectors]
    BY DEF RInv, TypeOK
  <2>4. Patterns' = [c \in DOMAIN Patterns \cup {b} |-> IF c = b THEN tv ELSE Patterns[c]]
    BY <2>1, <2>3 DEF Patterns
  <2>5. Promise!SetPattern
    BY <2>1, <2>2, <2>4 DEF Promise!SetPattern, Patterns, Report
  <2> QED BY <1>8, <2>5 DEF Promise!Next
<1>9. ASSUME pc = "idle", pc' # "idle", UNCHANGED <<kind, skip, patMap, patBuff>>,
             \/ call' = [op |-> "ppsfp"]
             \/ \E tv \in TestVectors : call' = [op |-> "sppfp", tv |-> tv]
             \/ \E tv \in TestVectors, f \in Faults :
                  call' = [op |-> "spsfp", tv |-> tv, fault |-> f]
      PROVE  Goal
  <2>1. Patterns' = Patterns /\ Report' = {}
    BY <1>2, <1>9 DEF Report
  <2>2. Promise!Call
    BY <1>9, <2>1, SameModel DEF Promise!Call, Patterns, Report
  <2> QED BY <1>9, <2>2 DEF Promise!Next
<1>10. ASSUME NEW tv \in TestVectors, NEW f \in Faults, Spsfp(tv, f), kind' = kind PROVE Goal
  BY <1>9, <1>10 DEF Spsfp, bufferVars
<1>11. ASSUME NEW tv \in TestVectors, Sppfp(tv), kind' = kind PROVE Goal
  BY <1>9, <1>11 DEF Sppfp, Begin, bufferVars
<1>12. ASSUME Ppsfp, kind' = kind PROVE Goal
  BY <1>9, <1>12 DEF Ppsfp, PpsfpEmpty, Begin, bufferVars
<1>13. ASSUME SppfpFfr \/ DoSimulation \/ PpsfpFfr, kind' = kind PROVE Goal
  <2>1. pc # "idle" /\ pc' # "idle" /\ UNCHANGED <<skip, patMap, patBuff, call>>
    BY <1>13 DEF SppfpFfr, DoSimulation, PpsfpFfr, bufferVars
  <2> QED BY <1>1, <1>2, <1>4, <1>13, <2>1
<1>14. ASSUME SpsfpReturn \/ Return, kind' = kind PROVE Goal
  <2>1. pc # "idle" /\ pc' = "idle" /\ UNCHANGED <<skip, patMap, patBuff, call>>
    BY <1>14 DEF SpsfpReturn, Return, bufferVars
  <2>2. Patterns' = Patterns /\ Report' = Promise!Answer
    BY <1>2, <1>14, <2>1, ReturnReports
  <2>3. Promise!Return
    BY <2>1, <2>2 DEF Promise!Return, Patterns, Report
  <2> QED BY <1>14, <2>3 DEF Promise!Next
<1>15. CASE Next
  BY <1>6, <1>7, <1>8, <1>10, <1>11, <1>12, <1>13, <1>14, <1>15 DEF Next, Calls, Loops
<1> QED BY <1>5, <1>15

\* spsfp(), sppfp() and ppsfp() report exactly the faults without a skip mark
\* that their patterns detect, ppsfp() with the lanes of those patterns, for
\* both fault types and with two or three values, whatever the calls before
\* have left behind (FsimX.cc:320-549).
THEOREM CallsReportExactly == Spec => ReportsExactly
<1>1. Init => RInv
  BY RInvInit
<1> QED BY <1>1, RInvNext, InitReports, NextReports, PTL DEF Spec, ReportsExactly, Promise!Spec

-----------------------------------------------------------------------------
(* The sequential simulation.                                              *)

Three == {"0", "1", "X"}
PpiNodes == {n \in Node : GateType[n] = "Input"}

\* What one pass of _calc_val() makes of the values f, with the inputs of v.
Pass(v, f) ==
  [n \in Node |->
     IF GateType[n] = "Input" THEN v[n]
     ELSE GateFunction(GateType[n], [i \in DOMAIN Fanin[n] |-> f[Fanin[n][i]]])]

LEMMA GateValue ==
  ASSUME NEW n \in Node, GateType[n] # "Input", NEW f \in [Node -> Three]
  PROVE  GateFunction(GateType[n], [i \in DOMAIN Fanin[n] |-> f[Fanin[n][i]]]) \in Three
<1> DEFINE ins == [i \in DOMAIN Fanin[n] |-> f[Fanin[n][i]]]
<1>1. Fanin[n] \in Seq(Node) /\ Fanin[n] # << >> /\ GateType[n] \in GateTypes
  BY NetAssumption
<1>2. DOMAIN Fanin[n] = 1 .. Len(Fanin[n]) /\ Len(Fanin[n]) \in Nat \ {0}
  BY <1>1
<1>3. ins \in [1 .. Len(Fanin[n]) -> Three]
  BY <1>1, <1>2
<1>4. ins \in Seq(Three) /\ Len(ins) = Len(Fanin[n])
  BY <1>2, <1>3
<1>5. ins # << >>
  BY <1>2, <1>4
<1> HIDE DEF ins
<1> QED BY <1>1, <1>4, <1>5, GateFunctionType DEF Three

(* Two valuations that agree on the fanins of a node agree on the node.     *)
LEMMA PassDepends ==
  ASSUME NEW v, NEW w, \A n \in PpiNodes : v[n] = w[n],
         NEW f, NEW g, NEW n \in Node,
         \A m \in Node : Level[m] < Level[n] => f[m] = g[m]
  PROVE  Pass(v, f)[n] = Pass(w, g)[n]
<1>1. CASE GateType[n] = "Input"
  BY <1>1 DEF Pass, PpiNodes
<1>2. CASE GateType[n] # "Input"
  <2>1. \A i \in DOMAIN Fanin[n] : Fanin[n][i] \in Node /\ Level[Fanin[n][i]] < Level[n]
    BY NetAssumption, LevelAssumption
  <2>2. [i \in DOMAIN Fanin[n] |-> f[Fanin[n][i]]] = [i \in DOMAIN Fanin[n] |-> g[Fanin[n][i]]]
    BY <2>1
  <2> QED BY <1>2, <2>2 DEF Pass
<1> QED BY <1>1, <1>2

LEMMA CalcAllIs ==
  ASSUME NEW v
  PROVE  CalcAll(v) = [n \in Node |-> (CHOOSE f : f = Pass(v, f))[n]]
  BY Zenon DEF CalcAll, Pass

(* _calc_val() is a solution of its equation.                               *)
LEMMA CalcAllSolves ==
  ASSUME NEW v, \A n \in PpiNodes : v[n] \in Three
  PROVE  CalcAll(v) \in [Node -> Three] /\ CalcAll(v) = Pass(v, CalcAll(v))
<1> DEFINE G == [f \in [Node -> Three] |-> Pass(v, f)]
           start == [n \in Node |-> "0"]
           calc == CHOOSE f : f = Pass(v, f)
<1>1. \A f \in [Node -> Three] : Pass(v, f) \in [Node -> Three]
  BY GateValue DEF Pass, PpiNodes
<1>2. G \in [[Node -> Three] -> [Node -> Three]]
  BY <1>1
<1>3. start \in [Node -> Three]
  BY DEF Three
<1>4. \A f, g \in [Node -> Three] : \A n \in Node :
        (\A m \in Node : Level[m] < Level[n] => f[m] = g[m]) => G[f][n] = G[g][n]
  BY PassDepends
<1>5. Level \in [Node -> Nat]
  BY LevelAssumption
<1>6. PICK f \in [Node -> Three] : f = G[f]
  <2>1. IsRecursion(G, Node, Three, Level)
    <3> HIDE DEF G, start
    <3> QED BY <1>2, <1>3, <1>4, <1>5 DEF IsRecursion
  <2> HIDE DEF G
  <2> QED BY <2>1, RecursionExists
<1>7. f = Pass(v, f)
  BY <1>6
<1>8. calc = Pass(v, calc)
  BY <1>7
<1>9. calc = f
  <2>1. ASSUME NEW n \in Node, \A m \in Node : Level[m] < Level[n] => calc[m] = f[m]
        PROVE  calc[n] = f[n]
    <3> HIDE DEF calc
    <3>1. Pass(v, calc)[n] = Pass(v, f)[n]
      BY <2>1, PassDepends
    <3> QED BY <1>7, <1>8, <3>1
  <2>2. calc = [n \in Node |-> calc[n]] /\ f = [n \in Node |-> f[n]]
    <3>1. \A h : Pass(v, h) = [n \in Node |-> Pass(v, h)[n]]
      BY DEF Pass
    <3> HIDE DEF calc
    <3> QED BY <1>7, <1>8, <3>1
  <2> HIDE DEF calc
  <2>3. AgreeUpwards(calc, f, Node, Level)
    BY <1>5, <2>1, <2>2 DEF AgreeUpwards
  <2> QED BY <2>3, RecursionUnique
<1>10. CalcAll(v) = [n \in Node |-> calc[n]]
  BY CalcAllIs
<1>11. CalcAll(v) = f
  BY <1>9, <1>10
<1> QED BY <1>7, <1>11

(* The values depend on the inputs and flip-flops only.                     *)
LEMMA CalcAllDepends ==
  ASSUME NEW v, NEW w, \A n \in PpiNodes : v[n] \in Three /\ w[n] = v[n]
  PROVE  CalcAll(v) = CalcAll(w)
<1> DEFINE f == CalcAll(v)
           g == CalcAll(w)
<1>1. f \in [Node -> Three] /\ f = Pass(v, f)
  BY CalcAllSolves
<1>2. g \in [Node -> Three] /\ g = Pass(w, g)
  BY CalcAllSolves
<1>3. \A n \in Node : (\A m \in Node : Level[m] < Level[n] => f[m] = g[m]) => f[n] = g[n]
  <2> HIDE DEF f, g
  <2> QED BY <1>1, <1>2, PassDepends
<1>4. f = [n \in Node |-> f[n]] /\ g = [n \in Node |-> g[n]]
  <2> HIDE DEF f, g
  <2> QED BY <1>1, <1>2
<1>5. Level \in [Node -> Nat]
  BY LevelAssumption
<1> HIDE DEF f, g
<1>6. f = g
  <2>1. AgreeUpwards(f, g, Node, Level)
    BY <1>3, <1>4, <1>5 DEF AgreeUpwards
  <2> QED BY <2>1, RecursionUnique
<1> QED BY <1>6 DEF f, g

-----------------------------------------------------------------------------
(* The machine.                                                            *)

Period(c) == 1 .. Len(c.inputs)

\* The value of input node n in cycle k of history c, when the cycle before it
\* has left the values r in the network.
Given(c, r, k, n) ==
  IF \E i \in DOMAIN Input : Input[i] = n
  THEN c.inputs[k][CHOOSE i \in DOMAIN Input : Input[i] = n]
  ELSE (IF k = 1 THEN c.state ELSE [i \in DOMAIN Dff |-> r[Dff[i][2]]])
         [CHOOSE i \in DOMAIN Dff : Dff[i][1] = n]

\* Cycle k of history c, and all of them, from the values of the cycles in run.
CycleOf(c, r, k) == CalcAll([n \in PpiNodes |-> Given(c, r, k, n)])
CyclesFrom(c, run) == [k \in Period(c) |-> CycleOf(c, run[k - 1], k)]
Run(c) == CHOOSE run : run = CyclesFrom(c, run)

History == [state : DffVectors, inputs : Seq(InputVectors)]

LEMMA CycleIsRun ==
  Cycle = Run(cycles)
  BY DEF Cycle, Run, CyclesFrom, CycleOf, Given, Period, PpiNodes

LEMMA GivenType ==
  ASSUME NEW c \in History, NEW k \in Period(c), NEW r, k # 1 => r \in [Node -> Three],
         NEW n \in PpiNodes
  PROVE  Given(c, r, k, n) \in Three
<1>1. Vals \subseteq Three
  BY LaneAssumption DEF Three
<1>2. c.inputs[k] \in InputVectors /\ c.state \in DffVectors
  BY DEF History, Period
<1>3. CASE \E i \in DOMAIN Input : Input[i] = n
  BY <1>1, <1>2, <1>3 DEF Given, InputVectors
<1>4. CASE ~ \E i \in DOMAIN Input : Input[i] = n
  <2>1. (CHOOSE i \in DOMAIN Dff : Dff[i][1] = n) \in DOMAIN Dff
    BY <1>4, TerminalAssumption DEF PpiNodes
  <2>2. \A i \in DOMAIN Dff : Dff[i][2] \in Node
    BY WsaAssumption
  <2> QED BY <1>1, <1>2, <1>4, <2>1, <2>2 DEF Given, DffVectors
<1> QED BY <1>3, <1>4

(* The cycles of a history solve the equations of the machine.              *)
LEMMA RunSolves ==
  ASSUME NEW c \in History
  PROVE  Run(c) \in [Period(c) -> [Node -> Three]] /\ Run(c) = CyclesFrom(c, Run(c))
<1> DEFINE V == [Node -> Three]
           S == Period(c)
           G == [f \in [S -> V] |-> CyclesFrom(c, f)]
           start == [k \in S |-> [n \in Node |-> "0"]]
           rank == [k \in S |-> k]
<1>1. S \subseteq Nat /\ \A k \in S : k # 1 => k - 1 \in S /\ k - 1 < k
  BY DEF History, Period
<1>2. ASSUME NEW r, NEW k \in S, k # 1 => r \in V
      PROVE  CycleOf(c, r, k) \in V
  <2>1. \A n \in PpiNodes : [m \in PpiNodes |-> Given(c, r, k, m)][n] \in Three
    BY <1>2, GivenType
  <2> QED BY <2>1, CalcAllSolves DEF CycleOf
<1>3. \A f \in [S -> V] : CyclesFrom(c, f) \in [S -> V]
  <2> HIDE DEF V
  <2> QED BY <1>1, <1>2 DEF CyclesFrom
<1>4. G \in [[S -> V] -> [S -> V]]
  <2> HIDE DEF V, S
  <2> QED BY <1>3
<1>5. start \in [S -> V]
  BY DEF Three
<1>6. rank \in [S -> Nat]
  BY <1>1
<1>7. ASSUME NEW f, NEW g, NEW k \in S,
             \A j \in S : rank[j] < rank[k] => f[j] = g[j]
      PROVE  CyclesFrom(c, f)[k] = CyclesFrom(c, g)[k]
  <2>1. CASE k = 1
    <3>1. \A n : Given(c, f[k - 1], k, n) = Given(c, g[k - 1], k, n)
      BY <2>1 DEF Given
    <3> QED BY <3>1 DEF CyclesFrom, CycleOf
  <2>2. CASE k # 1
    <3>1. f[k - 1] = g[k - 1]
      BY <1>1, <1>7, <2>2
    <3> QED BY <3>1 DEF CyclesFrom
  <2> QED BY <2>1, <2>2
<1>8. \A f, g \in [S -> V] : \A k \in S :
        (\A j \in S : rank[j] < rank[k] => f[j] = g[j]) => G[f][k] = G[g][k]
  <2> HIDE DEF V, S, rank
  <2> QED BY <1>7
<1>9. PICK f \in [S -> V] : f = G[f]
  <2>1. IsRecursion(G, S, V, rank)
    <3> HIDE DEF G, start, V, S, rank
    <3> QED BY <1>4, <1>5, <1>6, <1>8 DEF IsRecursion
  <2> HIDE DEF G, V, S, rank
  <2> QED BY <2>1, RecursionExists
<1>10. f = CyclesFrom(c, f)
  <2> HIDE DEF V, S
  <2> QED BY <1>9
<1>11. Run(c) = CyclesFrom(c, Run(c))
  BY <1>10 DEF Run
<1>12. Run(c) = f
  <2>1. \A k \in S : (\A j \in S : rank[j] < rank[k] => Run(c)[j] = f[j]) => Run(c)[k] = f[k]
    <3> HIDE DEF V, S, rank
    <3> QED BY <1>7, <1>10, <1>11
  <2>2. \A h : CyclesFrom(c, h) = [k \in S |-> CyclesFrom(c, h)[k]]
    BY DEF CyclesFrom
  <2>3. Run(c) = [k \in S |-> Run(c)[k]] /\ f = [k \in S |-> f[k]]
    <3> HIDE DEF V, S, rank
    <3> QED BY <1>10, <1>11, <2>2
  <2> HIDE DEF V, S, rank
  <2>4. AgreeUpwards(Run(c), f, S, rank)
    BY <1>6, <2>1, <2>3 DEF AgreeUpwards
  <2> QED BY <2>4, RecursionUnique
<1> QED BY <1>9, <1>11, <1>12

LEMMA CycleSolves ==
  ASSUME cycles \in History
  PROVE  /\ Cycle \in [Period(cycles) -> [Node -> Three]]
         /\ Cycle = CyclesFrom(cycles, Cycle)
  BY RunSolves, CycleIsRun

LEMMA GivenSame ==
  ASSUME NEW c, NEW d, NEW k, NEW r, NEW q,
         d.inputs[k] = c.inputs[k], d.state = c.state, k = 1 \/ r = q
  PROVE  \A n : Given(d, r, k, n) = Given(c, q, k, n)
<1>1. CASE k = 1
  BY <1>1 DEF Given
<1>2. CASE r = q
  BY <1>2 DEF Given
<1> QED BY <1>1, <1>2

OneMore(c, iv) == [c EXCEPT !.inputs = Append(@, iv)]

LEMMA OneMoreCycle ==
  ASSUME NEW c \in History, NEW iv \in InputVectors, NEW d, d = OneMore(c, iv)
  PROVE  /\ d \in History /\ d.state = c.state
         /\ Len(d.inputs) = Len(c.inputs) + 1 /\ Len(c.inputs) \in Nat
         /\ \A k \in Period(c) : d.inputs[k] = c.inputs[k]
         /\ d.inputs[Len(c.inputs) + 1] = iv
<1>1. c.inputs \in Seq(InputVectors) /\ c.state \in DffVectors
  BY DEF History
<1>2. d.state = c.state /\ d.inputs = Append(c.inputs, iv)
  BY DEF History, OneMore
<1>3. d \in History
  <2>1. Append(c.inputs, iv) \in Seq(InputVectors)
    BY <1>1, AppendProperties
  <2> QED BY <2>1 DEF History, OneMore
<1>4. /\ Len(d.inputs) = Len(c.inputs) + 1 /\ Len(c.inputs) \in Nat
      /\ \A k \in 1 .. Len(c.inputs) : d.inputs[k] = c.inputs[k]
      /\ d.inputs[Len(c.inputs) + 1] = iv
  BY <1>1, <1>2, AppendProperties
<1> QED BY <1>2, <1>3, <1>4 DEF Period

(* The replay of a history begins with that of every shorter one.           *)
LEMMA LongerRun ==
  ASSUME NEW c \in History, NEW d \in History, d.state = c.state,
         Len(c.inputs) <= Len(d.inputs), \A k \in Period(c) : d.inputs[k] = c.inputs[k]
  PROVE  \A k \in Period(c) : Run(d)[k] = Run(c)[k]
<1>1. Period(c) \subseteq Period(d) /\ Period(c) \subseteq Nat
  BY DEF History, Period
<1> DEFINE S == Period(c)
           rank == [k \in S |-> k]
           f == [k \in S |-> Run(d)[k]]
           g == Run(c)
<1>2. Run(c) = CyclesFrom(c, Run(c)) /\ Run(d) = CyclesFrom(d, Run(d))
  BY RunSolves
<1>3. g = [k \in S |-> g[k]]
  BY <1>2 DEF CyclesFrom
<1>4. ASSUME NEW k \in S, \A j \in S : rank[j] < rank[k] => f[j] = g[j]
      PROVE  f[k] = g[k]
  <2>1. k = 1 \/ (k - 1 \in S /\ k - 1 < k)
    BY DEF History, Period
  <2>2. (k = 1) \/ Run(d)[k - 1] = Run(c)[k - 1]
    BY <1>4, <2>1
  <2>3. \A n : Given(d, Run(d)[k - 1], k, n) = Given(c, Run(c)[k - 1], k, n)
    <3>1. d.inputs[k] = c.inputs[k]
      OBVIOUS
    <3> HIDE DEF S, rank, f, g
    <3> QED BY <3>1, <2>2, GivenSame
  <2>4. CycleOf(d, Run(d)[k - 1], k) = CycleOf(c, Run(c)[k - 1], k)
    BY <2>3 DEF CycleOf
  <2>5. Run(c)[k] = CycleOf(c, Run(c)[k - 1], k)
    BY <1>2 DEF CyclesFrom
  <2>6. Run(d)[k] = CycleOf(d, Run(d)[k - 1], k)
    BY <1>1, <1>2 DEF CyclesFrom
  <2> QED BY <2>4, <2>5, <2>6
<1>5. f = g
  <2>1. rank \in [S -> Nat]
    BY <1>1
  <2>2. f = [k \in S |-> f[k]]
    OBVIOUS
  <2> HIDE DEF S, rank, f, g
  <2>3. AgreeUpwards(f, g, S, rank)
    BY <1>3, <1>4, <2>1, <2>2 DEF AgreeUpwards
  <2> QED BY <2>3, RecursionUnique
<1> QED BY <1>5

-----------------------------------------------------------------------------
(* The inductive invariant.                                                *)

MachineTypes ==
  /\ val \in [Node -> Three]
  /\ prevVal \in [Node -> Three]
  /\ cycles \in History

MachineInv == MachineTypes /\ MatchesMachine

\* calc_wsa() gives the right value to one primary input.
LEMMA FirstIsOnly ==
  ASSUME Len(Input) <= 1, NEW v, NEW iv \in InputVectors
  PROVE  SetInputsFrozen(v, iv) = SetInputs(v, iv)
<1>1. \A i \in DOMAIN Input : i = 1
  BY WsaAssumption
<1>2. ASSUME NEW n \in Node, \E i \in DOMAIN Input : Input[i] = n
      PROVE  (CHOOSE i \in DOMAIN Input : Input[i] = n) = 1
  BY <1>1, <1>2
<1> QED BY <1>2 DEF SetInputsFrozen, SetInputs

\* What the nodes of the inputs and the flip-flops hold before a pass.
LEMMA SetInputsValues ==
  ASSUME NEW v \in [Node -> Three], NEW iv \in InputVectors
  PROVE  /\ SetInputs(v, iv) \in [Node -> Three]
         /\ \A n \in Node : (\E i \in DOMAIN Input : Input[i] = n) =>
              SetInputs(v, iv)[n] = iv[CHOOSE i \in DOMAIN Input : Input[i] = n]
         /\ \A n \in Node : (~ \E i \in DOMAIN Input : Input[i] = n) =>
              SetInputs(v, iv)[n] = v[n]
<1>1. Vals \subseteq Three
  BY LaneAssumption DEF Three
<1> QED BY <1>1 DEF SetInputs, InputVectors

LEMMA SetFlipFlopsValues ==
  ASSUME NEW v \in [Node -> Three], NEW fv \in [DOMAIN Dff -> Three]
  PROVE  /\ SetFlipFlops(v, fv) \in [Node -> Three]
         /\ \A i \in DOMAIN Dff : SetFlipFlops(v, fv)[Dff[i][1]] = fv[i]
         /\ \A n \in Node : (\E i \in DOMAIN Dff : Dff[i][1] = n) =>
              SetFlipFlops(v, fv)[n] = fv[CHOOSE i \in DOMAIN Dff : Dff[i][1] = n]
         /\ \A n \in Node : (~ \E i \in DOMAIN Dff : Dff[i][1] = n) =>
              SetFlipFlops(v, fv)[n] = v[n]
<1>1. SetFlipFlops(v, fv) \in [Node -> Three]
  BY DEF SetFlipFlops
<1>2. ASSUME NEW i \in DOMAIN Dff
      PROVE  SetFlipFlops(v, fv)[Dff[i][1]] = fv[i]
  <2>1. Dff[i][1] \in Node
    BY WsaAssumption
  <2>2. (CHOOSE j \in DOMAIN Dff : Dff[j][1] = Dff[i][1]) = i
    BY TerminalAssumption
  <2> QED BY <2>1, <2>2 DEF SetFlipFlops
<1> QED BY <1>1, <1>2 DEF SetFlipFlops

LEMMA ShiftValues ==
  ASSUME NEW v \in [Node -> Three]
  PROVE  /\ Shift(v) \in [Node -> Three]
         /\ \A i \in DOMAIN Dff : Shift(v)[Dff[i][1]] = v[Dff[i][2]]
<1> DEFINE fv == [i \in DOMAIN Dff |-> v[Dff[i][2]]]
<1>1. fv \in [DOMAIN Dff -> Three]
  BY WsaAssumption
<1>2. \A i \in DOMAIN Dff : fv[i] = v[Dff[i][2]]
  OBVIOUS
<1>3. Shift(v) = SetFlipFlops(v, fv)
  BY DEF Shift
<1> HIDE DEF fv
<1> QED BY <1>1, <1>2, <1>3, SetFlipFlopsValues

LEMMA InitIInv == WsaInit => MachineInv
<1> SUFFICES ASSUME WsaInit PROVE MachineInv
  OBVIOUS
<1>1. [i \in DOMAIN Dff |-> "0"] \in DffVectors
  BY LaneAssumption DEF DffVectors
<1>2. cycles \in History /\ Len(cycles.inputs) = 0
  BY <1>1 DEF WsaInit, History
<1>3. val \in [Node -> Three] /\ prevVal \in [Node -> Three]
  BY DEF WsaInit, Three
<1> QED BY <1>2, <1>3 DEF MachineInv, MachineTypes, MatchesMachine

\* set_state() starts a machine.
LEMMA SetStateKeeps ==
  ASSUME MachineTypes, NEW iv \in InputVectors, NEW fv \in DffVectors, SetState(iv, fv)
  PROVE  MachineInv'
<1> DEFINE start == SetFlipFlops(SetInputs(val, iv), fv)
           v == CalcAll(start)
           c == cycles'
           first == [n \in PpiNodes |-> Given(c, Run(c)[0], 1, n)]
<1>1. Vals \subseteq Three /\ fv \in [DOMAIN Dff -> Three]
  BY LaneAssumption DEF Three, DffVectors
<1>2. prevVal' = v /\ val' = Shift(v) /\ c = [state |-> fv, inputs |-> <<iv>>]
  BY DEF SetState
<1>3. c \in History /\ Len(c.inputs) = 1 /\ c.inputs[1] = iv /\ c.state = fv /\ 1 \in Period(c)
  BY <1>2 DEF History, Period
<1>4. SetInputs(val, iv) \in [Node -> Three]
  BY SetInputsValues DEF MachineTypes
<1>5. start \in [Node -> Three]
  BY <1>1, <1>4, SetFlipFlopsValues
<1>6. \A n \in PpiNodes : first[n] = start[n]
  <2> SUFFICES ASSUME NEW n \in PpiNodes PROVE Given(c, Run(c)[0], 1, n) = start[n]
    OBVIOUS
  <2>1. CASE \E i \in DOMAIN Input : Input[i] = n
    <3>1. ~ \E i \in DOMAIN Dff : Dff[i][1] = n
      BY <2>1, TerminalAssumption
    <3>2. start[n] = SetInputs(val, iv)[n]
      BY <1>1, <1>4, <3>1, SetFlipFlopsValues DEF PpiNodes
    <3>3. start[n] = iv[CHOOSE i \in DOMAIN Input : Input[i] = n]
      BY <2>1, <3>2, SetInputsValues DEF PpiNodes, MachineTypes
    <3> QED BY <1>3, <2>1, <3>3 DEF Given
  <2>2. CASE ~ \E i \in DOMAIN Input : Input[i] = n
    <3>1. \E i \in DOMAIN Dff : Dff[i][1] = n
      BY <2>2, TerminalAssumption DEF PpiNodes
    <3>2. start[n] = fv[CHOOSE i \in DOMAIN Dff : Dff[i][1] = n]
      BY <1>1, <1>4, <3>1, SetFlipFlopsValues DEF PpiNodes
    <3> QED BY <1>3, <2>2, <3>2 DEF Given
  <2> QED BY <2>1, <2>2
<1>7. CalcAll(first) = v
  <2>1. \A n \in PpiNodes : start[n] \in Three /\ first[n] = start[n]
    BY <1>5, <1>6 DEF PpiNodes
  <2> HIDE DEF first, start
  <2> QED BY <2>1, CalcAllDepends
<1>8. Run(c)[1] = v
  <2>1. Run(c) = CyclesFrom(c, Run(c))
    BY <1>3, RunSolves
  <2>2. Run(c)[1] = CycleOf(c, Run(c)[0], 1)
    BY <1>3, <2>1 DEF CyclesFrom
  <2> QED BY <1>7, <2>2 DEF CycleOf
<1>9. v \in [Node -> Three]
  <2>1. \A n \in PpiNodes : start[n] \in Three
    BY <1>5 DEF PpiNodes
  <2> HIDE DEF start
  <2> QED BY <2>1, CalcAllSolves
<1>10. (Cycle = Run(cycles))'
  BY CycleIsRun, PTL
<1>11. Cycle' = Run(c)
  BY <1>10
<1> HIDE DEF v, c, start, first
<1>12. MachineTypes'
  BY <1>2, <1>3, <1>9, ShiftValues DEF MachineTypes, c
<1>13. MatchesMachine'
  BY <1>2, <1>3, <1>8, <1>9, <1>11, ShiftValues DEF MatchesMachine, c
<1> QED BY <1>12, <1>13 DEF MachineInv

\* calc_wsa() takes the machine one cycle further.
LEMMA CalcWsaKeeps ==
  ASSUME Len(Input) <= 1, MachineInv, NEW iv \in InputVectors, NEW w \in BOOLEAN, CalcWsa(iv, w)
  PROVE  MachineInv'
<1> DEFINE start == SetInputs(val, iv)
           v == CalcAll(start)
           c == cycles
           d == cycles'
           k == Len(cycles.inputs)
           last == [n \in PpiNodes |-> Given(d, Run(d)[k], k + 1, n)]
<1>1. /\ c \in History /\ k \in Nat \ {0} /\ k \in Period(c)
      /\ d = OneMore(c, iv)
  BY DEF CalcWsa, MachineInv, MachineTypes, History, Period, OneMore
<1>2. /\ wsa' = Count(prevVal, v, w) /\ prevVal' = v /\ val' = Shift(v) /\ weighted' = w
  BY FirstIsOnly DEF CalcWsa
<1>3. /\ d \in History /\ d.state = c.state
      /\ Len(d.inputs) = k + 1 /\ d.inputs[k + 1] = iv
      /\ \A j \in Period(c) : d.inputs[j] = c.inputs[j]
  <2> HIDE DEF c, d
  <2>1. /\ d \in History /\ d.state = c.state
        /\ Len(d.inputs) = Len(c.inputs) + 1 /\ d.inputs[Len(c.inputs) + 1] = iv
        /\ \A j \in Period(c) : d.inputs[j] = c.inputs[j]
    BY <1>1, OneMoreCycle
  <2> QED BY <2>1 DEF c
<1>4. k + 1 \in Period(d) /\ k \in Period(d) /\ k + 1 # 1 /\ Run(d)[k] = Run(c)[k]
  <2>1. k + 1 \in 1 .. k + 1 /\ k \in 1 .. k + 1 /\ k + 1 # 1 /\ k <= k + 1
    BY <1>1
  <2> HIDE DEF d, k
  <2>2. Period(d) = 1 .. k + 1
    BY <1>3 DEF Period
  <2>3. Len(c.inputs) <= Len(d.inputs)
    BY <1>3, <2>1 DEF k
  <2>4. Run(d)[k] = Run(c)[k]
    <3> HIDE DEF c
    <3> QED BY <1>1, <1>3, <2>3, LongerRun
  <2> QED BY <2>1, <2>2, <2>4
<1>5. Cycle = Run(c)
  BY CycleIsRun
<1>6. prevVal = Run(c)[k] /\ \A i \in DOMAIN Dff : val[Dff[i][1]] = Run(c)[k][Dff[i][2]]
  BY <1>1, <1>5 DEF MachineInv, MatchesMachine
<1>7. start \in [Node -> Three]
  BY SetInputsValues DEF MachineInv, MachineTypes
<1>8. \A n \in PpiNodes : last[n] = start[n]
  <2> SUFFICES ASSUME NEW n \in PpiNodes PROVE Given(d, Run(d)[k], k + 1, n) = start[n]
    OBVIOUS
  <2> HIDE DEF d, c, k
  <2>1. CASE \E i \in DOMAIN Input : Input[i] = n
    <3>1. start[n] = iv[CHOOSE i \in DOMAIN Input : Input[i] = n]
      BY <2>1, SetInputsValues DEF PpiNodes, MachineTypes, MachineInv
    <3> QED BY <1>3, <2>1, <3>1 DEF Given
  <2>2. CASE ~ \E i \in DOMAIN Input : Input[i] = n
    <3> DEFINE j == CHOOSE i \in DOMAIN Dff : Dff[i][1] = n
    <3>1. j \in DOMAIN Dff /\ Dff[j][1] = n
      BY <2>2, TerminalAssumption DEF PpiNodes
    <3>2. start[n] = val[n]
      BY <2>2, SetInputsValues DEF PpiNodes, MachineTypes, MachineInv
    <3>3. start[n] = Run(d)[k][Dff[j][2]]
      <4> HIDE DEF j, start
      <4> QED BY <1>4, <1>6, <3>1, <3>2
    <3>4. Given(d, Run(d)[k], k + 1, n) = [i \in DOMAIN Dff |-> Run(d)[k][Dff[i][2]]][j]
      BY <1>4, <2>2 DEF Given
    <3> HIDE DEF j, start
    <3> QED BY <3>1, <3>3, <3>4
  <2> QED BY <2>1, <2>2
<1>9. CalcAll(last) = v
  <2>1. \A n \in PpiNodes : start[n] \in Three /\ last[n] = start[n]
    BY <1>7, <1>8 DEF PpiNodes
  <2> HIDE DEF last, start
  <2> QED BY <2>1, CalcAllDepends
<1>10. Run(d)[k + 1] = v
  <2>1. Run(d) = CyclesFrom(d, Run(d))
    BY <1>3, RunSolves
  <2>2. Run(d)[k + 1] = CycleOf(d, Run(d)[(k + 1) - 1], k + 1)
    <3> HIDE DEF d, k
    <3> QED BY <1>4, <2>1 DEF CyclesFrom
  <2>3. (k + 1) - 1 = k
    BY <1>1
  <2> QED BY <1>9, <2>2, <2>3 DEF CycleOf
<1>11. v \in [Node -> Three]
  <2>1. \A n \in PpiNodes : start[n] \in Three
    BY <1>7 DEF PpiNodes
  <2> HIDE DEF start
  <2> QED BY <2>1, CalcAllSolves
<1>12. (Cycle = Run(cycles))'
  BY CycleIsRun, PTL
<1>13. Cycle' = Run(d)
  BY <1>12
<1> HIDE DEF v, start, last
<1>14. MachineTypes'
  BY <1>2, <1>3, <1>11, ShiftValues DEF MachineTypes
<1>15. MatchesMachine'
  <2>1. prevVal' = Cycle'[k + 1]
    BY <1>2, <1>10, <1>13
  <2>2. \A i \in DOMAIN Dff : val'[Dff[i][1]] = Cycle'[k + 1][Dff[i][2]]
    BY <1>2, <1>10, <1>11, <1>13, ShiftValues
  <2>3. wsa' = Count(Cycle'[k], Cycle'[k + 1], weighted')
    BY <1>2, <1>4, <1>6, <1>10, <1>13
  <2>4. Len(cycles'.inputs) = k + 1 /\ (k + 1) - 1 = k
    BY <1>1, <1>3
  <2> HIDE DEF k, d
  <2> QED BY <2>1, <2>2, <2>3, <2>4 DEF MatchesMachine
<1> QED BY <1>14, <1>15 DEF MachineInv

LEMMA NextIInv ==
  ASSUME Len(Input) <= 1
  PROVE  MachineInv /\ [WsaNext]_wsaVars => MachineInv'
<1> SUFFICES ASSUME MachineInv, [WsaNext]_wsaVars PROVE MachineInv'
  OBVIOUS
<1>1. ASSUME NEW iv \in InputVectors, NEW fv \in DffVectors, SetState(iv, fv)
      PROVE  MachineInv'
  BY <1>1, SetStateKeeps DEF MachineInv
<1>2. ASSUME NEW iv \in InputVectors, NEW w \in BOOLEAN, CalcWsa(iv, w)
      PROVE  MachineInv'
  BY <1>2, CalcWsaKeeps
<1>3. CASE UNCHANGED wsaVars
  <2>1. UNCHANGED Cycle
    BY <1>3 DEF wsaVars, Cycle
  <2> QED BY <1>3, <2>1 DEF wsaVars, MachineInv, MachineTypes, MatchesMachine
<1> QED BY <1>1, <1>2, <1>3 DEF WsaNext

-----------------------------------------------------------------------------
(* The theorem.                                                            *)

\* In a circuit with one primary input at most, what calc_wsa() has returned
\* after any sequence of cycles are the transitions of the synchronous machine
\* that was given the same input vectors, and get_state() returns its state.
THEOREM MachineIsSimulated == Len(Input) <= 1 => (WsaSpec => []MatchesMachine)
<1> DEFINE J == Len(Input) <= 1 /\ MachineInv
<1>1. Len(Input) <= 1 /\ WsaInit => J
  BY InitIInv
<1>2. J /\ [WsaNext]_wsaVars => J'
  BY NextIInv
<1>3. J => MatchesMachine
  BY DEF MachineInv
<1> HIDE DEF J
<1> QED BY <1>1, <1>2, <1>3, PTL DEF WsaSpec
=============================================================================
