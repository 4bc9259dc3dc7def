---------------------------- MODULE NetworkLemmas ----------------------------
(***************************************************************************)
(* The lemmas that the proof modules share.                                *)
(*                                                                         *)
(* The values of a network, the runs of a machine and the schedules are    *)
(* functions f[n \in S] == ... f[m] ..., which TLA+ defines as a CHOOSE of *)
(* a solution of an equation.  The first lemmas say, of functions and sets *)
(* only, that such an equation has a solution, and no second one, when the *)
(* argument decreases in a rank.  Then: sequences, the values of gates,    *)
(* and the direct evaluation of a network.                                 *)
(***************************************************************************)
EXTENDS FaultReference, FiniteSetTheorems, WellFoundedInduction, TLAPS

-----------------------------------------------------------------------------
(* Recursion.                                                              *)

(* A set of natural numbers has a least element. *)
LEMMA NatLeast ==
  ASSUME NEW T, T \subseteq Nat, T # {}
  PROVE  \E x \in T : \A y \in T : x <= y
<1> DEFINE R == {r \in Nat \X Nat : r[1] < r[2]}
<1>1. IsWellFoundedOn(OpToRel(<, Nat), Nat)
  BY NatLessThanWellFounded
<1>2. OpToRel(<, Nat) = R
  BY DEF OpToRel
<1>3. IsWellFoundedOn(R, Nat)
  BY <1>1, <1>2
<1>4. PICK x \in T : \A y \in T : <<y, x>> \notin R
  <2> HIDE DEF R
  <2> QED BY <1>3, WFMin
<1>5. \A y \in T : ~ (y < x)
  BY <1>4
<1> QED BY <1>5

(* What holds of an element whenever it holds of all of lower rank holds of *)
(* every element.                                                           *)
LEMMA RankInduction ==
  ASSUME NEW S, NEW rank \in [S -> Nat], NEW T,
         \A n \in S : (\A m \in S : rank[m] < rank[n] => m \in T) => n \in T
  PROVE  S \subseteq T
<1> SUFFICES ASSUME NEW n0 \in S, n0 \notin T PROVE FALSE
  OBVIOUS
<1> DEFINE Bad == {rank[n] : n \in S \ T}
<1>1. Bad \subseteq Nat /\ Bad # {}
  OBVIOUS
<1>2. PICK x \in Bad : \A y \in Bad : x <= y
  <2> HIDE DEF Bad
  <2> QED BY <1>1, NatLeast
<1>3. PICK n \in S \ T : rank[n] = x
  BY <1>2
<1>4. ASSUME NEW m \in S, rank[m] < rank[n], m \notin T
      PROVE  FALSE
  <2>1. rank[m] \in Bad
    BY <1>4
  <2>2. x <= rank[m]
    <3> HIDE DEF Bad
    <3> QED BY <1>2, <2>1
  <2>3. rank[m] \in Nat /\ rank[n] \in Nat
    BY <1>3
  <2> QED BY <2>2, <2>3, <1>3, <1>4
<1> QED BY <1>3, <1>4

(* Two functions that agree on an element whenever they agree on all of     *)
(* lower rank are equal: a recursive definition has one solution at most.    *)
AgreeUpwards(f, g, S, rank) ==
  /\ rank \in [S -> Nat]
  /\ f = [n \in S |-> f[n]]
  /\ g = [n \in S |-> g[n]]
  /\ \A n \in S : (\A m \in S : rank[m] < rank[n] => f[m] = g[m]) => f[n] = g[n]

LEMMA RecursionUnique ==
  ASSUME NEW S, NEW rank, NEW f, NEW g, AgreeUpwards(f, g, S, rank)
  PROVE  f = g
<1> USE DEF AgreeUpwards
<1> DEFINE T == {n \in S : f[n] = g[n]}
<1>1. \A n \in S : (\A m \in S : rank[m] < rank[n] => m \in T) => n \in T
  OBVIOUS
<1>2. S \subseteq T
  <2> HIDE DEF T
  <2> QED BY <1>1, RankInduction
<1> QED BY <1>2

(* A function that maps approximations to better ones - its value at an     *)
(* element depends on lower elements only - has a fixed point.              *)
IsRecursion(G, S, V, rank) ==
  /\ rank \in [S -> Nat]
  /\ [S -> V] # {}
  /\ G \in [[S -> V] -> [S -> V]]
  /\ \A f, g \in [S -> V] : \A n \in S :
       (\A m \in S : rank[m] < rank[n] => f[m] = g[m]) => G[f][n] = G[g][n]

LEMMA RecursionExists ==
  ASSUME NEW S, NEW V, NEW rank, NEW G, IsRecursion(G, S, V, rank)
  PROVE  \E f \in [S -> V] : f = G[f]
<1> USE DEF IsRecursion
<1> DEFINE Good(k) == {f \in [S -> V] : \A n \in S : rank[n] < k => f[n] = G[f][n]}
<1>1. ASSUME NEW k \in Nat, Good(k) # {}
      PROVE  Good(k + 1) # {}
  <2>1. PICK f \in [S -> V] : \A n \in S : rank[n] < k => f[n] = G[f][n]
    BY <1>1
  <2>2. ASSUME NEW n \in S, rank[n] < k + 1
        PROVE  G[f][n] = G[G[f]][n]
    <3>1. \A m \in S : rank[m] < rank[n] => f[m] = G[f][m]
      BY <2>1, <2>2
    <3> QED BY <3>1
  <2>3. G[f] \in Good(k + 1)
    BY <2>2
  <2> QED BY <2>3
<1>2. \A k \in Nat : Good(k) # {}
  <2> DEFINE Empty == {k \in Nat : Good(k) = {}}
  <2>1. SUFFICES ASSUME Empty # {} PROVE FALSE
    <3> HIDE DEF Good
    <3> QED OBVIOUS
  <2>2. PICK k \in Empty : \A j \in Empty : k <= j
    <3>1. Empty \subseteq Nat
      OBVIOUS
    <3> HIDE DEF Empty
    <3> QED BY <2>1, <3>1, NatLeast
  <2>3. Good(0) # {}
    <3>1. PICK start \in [S -> V] : TRUE
      OBVIOUS
    <3>2. start \in Good(0)
      OBVIOUS
    <3> QED BY <3>2
  <2>4. k \in Nat /\ k # 0 /\ Good(k) = {}
    <3> HIDE DEF Good
    <3> QED BY <2>2, <2>3
  <2>5. k - 1 \in Nat /\ ~ (k <= k - 1)
    BY <2>4
  <2>6. Good(k - 1) # {}
    <3> HIDE DEF Good
    <3> QED BY <2>2, <2>5
  <2>7. Good((k - 1) + 1) # {}
    <3> HIDE DEF Good
    <3> QED BY <1>1, <2>5, <2>6
  <2>8. (k - 1) + 1 = k
    BY <2>4
  <2> HIDE DEF Good
  <2> QED BY <2>4, <2>7, <2>8
<1>3. ASSUME NEW k \in Nat, NEW j \in Nat, NEW f \in Good(k), NEW g \in Good(j)
      PROVE  \A n \in S : rank[n] < k /\ rank[n] < j => f[n] = g[n]
  <2> DEFINE T == {n \in S : rank[n] < k /\ rank[n] < j => f[n] = g[n]}
  <2>1. ASSUME NEW n \in S, \A m \in S : rank[m] < rank[n] => m \in T
        PROVE  n \in T
    <3>1. SUFFICES ASSUME rank[n] < k, rank[n] < j PROVE f[n] = g[n]
      OBVIOUS
    <3>2. \A m \in S : rank[m] < rank[n] => f[m] = g[m]
      BY <2>1, <3>1
    <3>3. f \in [S -> V] /\ g \in [S -> V]
      OBVIOUS
    <3>4. G[f][n] = G[g][n]
      BY <3>2, <3>3
    <3> QED BY <3>1, <3>4
  <2>2. S \subseteq T
    <3> HIDE DEF T
    <3> QED BY <2>1, RankInduction
  <2> QED BY <2>2
<1> DEFINE best(n) == CHOOSE f : f \in Good(rank[n] + 1)
           F == [n \in S |-> best(n)[n]]
<1>4. \A n \in S : best(n) \in Good(rank[n] + 1)
  <2> HIDE DEF Good
  <2> QED BY <1>2
<1>5. \A n \in S : best(n) \in [S -> V] /\ best(n)[n] = G[best(n)][n]
  <2> HIDE DEF best
  <2> QED BY <1>4
<1>6. F \in [S -> V]
  <2> HIDE DEF best
  <2> QED BY <1>5
<1>7. ASSUME NEW n \in S
      PROVE  F[n] = G[F][n]
  <2>1. ASSUME NEW m \in S, rank[m] < rank[n] PROVE F[m] = best(n)[m]
    <3>1. best(m)[m] = best(n)[m]
      <4>1. rank[m] < rank[m] + 1 /\ rank[m] < rank[n] + 1
        BY <2>1
      <4>2. rank[m] + 1 \in Nat /\ rank[n] + 1 \in Nat
        OBVIOUS
      <4> HIDE DEF Good, best
      <4> QED BY <1>3, <1>4, <4>1, <4>2
    <3> QED BY <3>1
  <2>2. G[F][n] = G[best(n)][n]
    <3> HIDE DEF F, best, Good
    <3> QED BY <2>1, <1>5, <1>6
  <2>3. F[n] = best(n)[n]
    OBVIOUS
  <2> HIDE DEF F, best, Good
  <2> QED BY <2>2, <2>3, <1>5
<1>8. F = G[F]
  <2>1. G[F] \in [S -> V]
    <3> HIDE DEF F, best, Good
    <3> QED BY <1>6
  <2> HIDE DEF F, best, Good
  <2> QED BY <1>6, <1>7, <2>1
<1> HIDE DEF F, best, Good
<1> QED BY <1>6, <1>8

-----------------------------------------------------------------------------
(* Sequences.                                                              *)

\* A node put in front of a list: the old entries move up by one.
LEMMA ConsProperties ==
  ASSUME NEW S, NEW s \in Seq(S), NEW e \in S
  PROVE  /\ <<e>> \o s \in Seq(S)
         /\ Len(<<e>> \o s) = Len(s) + 1
         /\ (<<e>> \o s)[1] = e
         /\ \A i \in 1 .. Len(s) : (<<e>> \o s)[i + 1] = s[i]
  OBVIOUS

\* The first node of a list taken away: the others move down by one.
LEMMA TailProperties ==
  ASSUME NEW S, NEW s \in Seq(S), s # << >>
  PROVE  /\ Tail(s) \in Seq(S)
         /\ Len(Tail(s)) = Len(s) - 1
         /\ Len(s) \in Nat \ {0}
         /\ Head(s) = s[1]
         /\ \A i \in 1 .. Len(s) - 1 : Tail(s)[i] = s[i + 1]
  OBVIOUS

LEMMA AppendProperties ==
  ASSUME NEW S, NEW s \in Seq(S), NEW e \in S
  PROVE  /\ Append(s, e) \in Seq(S)
         /\ Len(Append(s, e)) = Len(s) + 1
         /\ \A i \in 1 .. Len(s) : Append(s, e)[i] = s[i]
         /\ Append(s, e)[Len(s) + 1] = e
  OBVIOUS

-----------------------------------------------------------------------------
(* The values that a gate computes.                                        *)

LEMMA GateFunctionType ==
  ASSUME NEW V, V \in {{"0", "1"}, {"0", "1", "X"}},
         NEW type \in GateTypes, type # "Input", NEW ins \in Seq(V), ins # << >>
  PROVE  GateFunction(type, ins) \in V
<1>1. \A v \in V : Complement(v) \in V
  BY DEF Complement
<1>2. ins[1] \in V
  OBVIOUS
<1>3. {"0", "1"} \subseteq V /\ (Some(ins, "X") => "X" \in V)
  BY DEF Some
<1>4. AndOf(ins) \in V
  BY <1>3 DEF AndOf
<1>5. OrOf(ins) \in V
  BY <1>3 DEF OrOf
<1>6. XorOf(ins) \in V
  BY <1>3 DEF XorOf
<1>7. QED
  BY <1>1, <1>2, <1>4, <1>5, <1>6 DEF GateFunction, GateTypes

ValueSets == {{"0", "1"}, {"0", "1", "X"}}

LEMMA FlipWordType ==
  ASSUME NEW V, V \in ValueSets, NEW w \in [Lane -> V], NEW mask
  PROVE  Flip(w, mask) \in [Lane -> V]
  BY DEF Flip, Complement, ValueSets

LEMMA CalcWordType ==
  ASSUME NEW V, V \in ValueSets, NEW v \in [Node -> [Lane -> V]], NEW n \in Node,
         GateType[n] # "Input"
  PROVE  CalcVal(n, v) \in [Lane -> V]
<1>1. GateType[n] \in GateTypes /\ Fanin[n] \in Seq(Node) /\ Fanin[n] # << >>
  BY NetAssumption
<1>2. ASSUME NEW b \in Lane
      PROVE  FaninVals(n, v, b) \in Seq(V) /\ FaninVals(n, v, b) # << >>
  <2>1. DOMAIN Fanin[n] = 1 .. Len(Fanin[n]) /\ Len(Fanin[n]) \in Nat \ {0}
    BY <1>1
  <2>2. \A i \in DOMAIN Fanin[n] : v[Fanin[n][i]][b] \in V
    BY <1>1 
  <2>3. FaninVals(n, v, b) \in [1 .. Len(Fanin[n]) -> V]
    BY <2>1, <2>2 DEF FaninVals
  <2>4. FaninVals(n, v, b) \in Seq(V) /\ Len(FaninVals(n, v, b)) = Len(Fanin[n])
    BY <2>1, <2>3
  <2>5. QED
    BY <2>1, <2>4
<1>3. QED
  BY <1>1, <1>2, GateFunctionType DEF CalcVal, ValueSets

-----------------------------------------------------------------------------
(* The levels of a network.                                                *)

LEMMA HighestNode ==
  ASSUME NEW S, S \subseteq Node, S # {}
  PROVE  \E n \in S : \A m \in S : Level[m] <= Level[n]
<1> DEFINE HasHighest(T) == \E n \in T : \A m \in T : Level[m] <= Level[n]
           Size == {k \in Nat : \E T \in SUBSET S :
                      T # {} /\ Cardinality(T) = k /\ ~ HasHighest(T)}
<1>1. \A T \in SUBSET S : IsFiniteSet(T) /\ Cardinality(T) \in Nat
  BY NetAssumption, FS_Subset, FS_CardinalityType
<1>2. CASE Size = {}
  BY <1>1, <1>2
<1>3. CASE Size # {}
  <2>1. PICK k \in Size : \A l \in Size : k <= l
    <3> HIDE DEF Size
    <3>1. Size \subseteq Nat
      BY DEF Size
    <3>2. QED
      BY <1>3, <3>1, NatLeast
  <2>2. PICK T \in SUBSET S : T # {} /\ Cardinality(T) = k /\ ~ HasHighest(T)
    BY <2>1
  <2>3. PICK x \in T : TRUE
    BY <2>2
  <2>4. Cardinality(T \ {x}) = k - 1 /\ k \in Nat /\ T \ {x} \in SUBSET S
    BY <1>1, <2>1, <2>2, <2>3, FS_RemoveElement
  <2>5. Cardinality(T \ {x}) \in Nat
    BY <1>1, <2>4
  <2>6. k - 1 \notin Size
    BY <2>1, <2>4, <2>5
  <2>7. CASE T \ {x} = {}
    <3>1. T = {x}
      BY <2>3, <2>7
    <3>2. Level[x] \in Nat
      BY <2>3, LevelAssumption
    <3>3. QED
      BY <2>2, <3>1, <3>2
  <2>8. CASE T \ {x} # {}
    <3>1. HasHighest(T \ {x})
      BY <2>4, <2>5, <2>6, <2>8
    <3>2. PICK y \in T \ {x} : \A m \in T \ {x} : Level[m] <= Level[y]
      BY <3>1
    <3>3. \A m \in T : Level[m] \in Nat
      BY LevelAssumption
    <3>4. CASE Level[x] <= Level[y]
      BY <2>2, <3>2, <3>3, <3>4
    <3>5. CASE Level[y] < Level[x]
      <4>1. \A m \in T : Level[m] <= Level[x]
        BY <2>3, <3>2, <3>3, <3>5
      <4>2. QED
        BY <2>2, <2>3, <4>1
    <3>6. QED
      BY <2>3, <3>2, <3>3, <3>4, <3>5
  <2>9. QED
    BY <2>7, <2>8
<1>4. QED
  BY <1>2, <1>3

-----------------------------------------------------------------------------
(* Direct evaluation: the values of a network, with some nodes complemented, *)
(* solve the equation they are defined by.                                  *)

Evaluated(g, t, f) ==
  [n \in Node |-> Flip(IF IsInput(n) THEN g[n] ELSE CalcVal(n, f), t[n])]

LEMMA FlipLane ==
  ASSUME NEW b \in Lane, NEW u, NEW w, u[b] = w[b], NEW m
  PROVE  Flip(u, m)[b] = Flip(w, m)[b]
  BY DEF Flip

(* A lane of a gate depends on that lane of its fanins only.                *)
LEMMA CalcLane ==
  ASSUME NEW b \in Lane, NEW n \in Node, NEW u, NEW w,
         \A m \in Node : Level[m] < Level[n] => u[m][b] = w[m][b]
  PROVE  CalcVal(n, u)[b] = CalcVal(n, w)[b]
<1>1. \A i \in DOMAIN Fanin[n] : Fanin[n][i] \in Node /\ Level[Fanin[n][i]] < Level[n]
  BY NetAssumption, LevelAssumption
<1>2. FaninVals(n, u, b) = FaninVals(n, w, b)
  BY <1>1 DEF FaninVals
<1> QED BY <1>2 DEF CalcVal

AgreeBelow(f, h, n) == \A m \in Node : Level[m] < Level[n] => f[m] = h[m]

LEMMA EvaluatedDepends ==
  ASSUME NEW g, NEW t, NEW f, NEW h, NEW n \in Node, AgreeBelow(f, h, n)
  PROVE  Evaluated(g, t, f)[n] = Evaluated(g, t, h)[n]
<1> USE DEF AgreeBelow
<1>1. \A i \in DOMAIN Fanin[n] : Fanin[n][i] \in Node /\ Level[Fanin[n][i]] < Level[n]
  BY NetAssumption, LevelAssumption
<1>2. \A b : FaninVals(n, f, b) = FaninVals(n, h, b)
  BY <1>1 DEF FaninVals
<1>3. CalcVal(n, f) = CalcVal(n, h)
  BY <1>2 DEF CalcVal
<1> QED BY <1>3 DEF Evaluated

LEMMA EvaluatedType ==
  ASSUME NEW V, V \in ValueSets, NEW g, NEW t, NEW f \in [Node -> [Lane -> V]],
         \A n \in Node : IsInput(n) => g[n] \in [Lane -> V]
  PROVE  Evaluated(g, t, f) \in [Node -> [Lane -> V]]
<1>1. \A n \in Node : ~ IsInput(n) => CalcVal(n, f) \in [Lane -> V]
  BY CalcWordType DEF IsInput
<1>2. \A w \in [Lane -> V] : \A m : Flip(w, m) \in [Lane -> V]
  BY FlipWordType
<1> QED BY <1>1, <1>2 DEF Evaluated

LEMMA DirectIs ==
  ASSUME NEW g, NEW t
  PROVE  ValuesWith(g, t) = [n \in Node |-> (CHOOSE f : f = Evaluated(g, t, f))[n]]
  BY Zenon DEF ValuesWith, Evaluated

LEMMA DirectSolves ==
  ASSUME NEW V, V \in ValueSets, NEW g, NEW t,
         \A n \in Node : IsInput(n) => g[n] \in [Lane -> V]
  PROVE  /\ ValuesWith(g, t) \in [Node -> [Lane -> V]]
         /\ ValuesWith(g, t) = Evaluated(g, t, ValuesWith(g, t))
<1> DEFINE Word0 == [Lane -> V]
<1> DEFINE G == [f \in [Node -> Word0] |-> Evaluated(g, t, f)]
           solution == CHOOSE f : f = Evaluated(g, t, f)
<1>1. IsRecursion(G, Node, Word0, Level)
  <2>1. [Node -> Word0] # {}
    <3>1. [n \in Node |-> [b \in Lane |-> "0"]] \in [Node -> Word0]
      BY DEF ValueSets
    <3> QED BY <3>1
  <2>2. G \in [[Node -> Word0] -> [Node -> Word0]]
    <3>1. \A f \in [Node -> Word0] : Evaluated(g, t, f) \in [Node -> Word0]
      BY EvaluatedType
    <3> QED BY <3>1
  <2>3. ASSUME NEW f \in [Node -> Word0], NEW h \in [Node -> Word0], NEW n \in Node,
               \A m \in Node : Level[m] < Level[n] => f[m] = h[m]
        PROVE  G[f][n] = G[h][n]
    <3>1. AgreeBelow(f, h, n)
      BY <2>3 DEF AgreeBelow
    <3>2. Evaluated(g, t, f)[n] = Evaluated(g, t, h)[n]
      BY <3>1, EvaluatedDepends
    <3> QED BY <3>2
  <2> HIDE DEF G
  <2> QED BY <2>1, <2>2, <2>3, LevelAssumption DEF IsRecursion
<1>2. PICK f \in [Node -> Word0] : f = G[f]
  <2> HIDE DEF G
  <2> QED BY <1>1, RecursionExists
<1>3. f = Evaluated(g, t, f)
  BY <1>2
<1>4. solution = Evaluated(g, t, solution)
  BY <1>3
<1>5. solution = f
  <2>1. \A n \in Node : (\A m \in Node : Level[m] < Level[n] => solution[m] = f[m])
                          => solution[n] = f[n]
    <3> HIDE DEF solution
    <3>1. \A n \in Node : AgreeBelow(solution, f, n) => solution[n] = f[n]
      BY <1>3, <1>4, EvaluatedDepends
    <3> QED BY <3>1 DEF AgreeBelow
  <2>2. solution = [n \in Node |-> solution[n]] /\ f = [n \in Node |-> f[n]]
    <3>1. \A h : Evaluated(g, t, h) = [n \in Node |-> Evaluated(g, t, h)[n]]
      BY DEF Evaluated
    <3> HIDE DEF solution
    <3> QED BY <1>3, <1>4, <3>1
  <2>3. AgreeUpwards(solution, f, Node, Level)
    <3> HIDE DEF solution
    <3> QED BY <2>1, <2>2, LevelAssumption DEF AgreeUpwards
  <2> QED BY <2>3, RecursionUnique
<1>6. ValuesWith(g, t) = f
  BY <1>5, DirectIs
<1> QED BY <1>3, <1>6

-----------------------------------------------------------------------------
(* Lists without repetition, and recursion along a list.                   *)

Distinct(s) == \A i, j \in DOMAIN s : s[i] = s[j] => i = j
Elements(s) == {s[i] : i \in DOMAIN s}

LEMMA AppendFacts ==
  ASSUME NEW A, NEW s \in Seq(A), NEW x \in A
  PROVE  /\ Append(s, x) \in Seq(A)
         /\ Elements(Append(s, x)) = Elements(s) \cup {x}
         /\ Distinct(s) /\ x \notin Elements(s) => Distinct(Append(s, x))
<1> DEFINE t == Append(s, x)
<1>1. /\ t \in Seq(A) /\ Len(s) \in Nat /\ DOMAIN s = 1 .. Len(s)
      /\ DOMAIN t = 1 .. Len(s) + 1
      /\ \A i \in 1 .. Len(s) : t[i] = s[i]
      /\ t[Len(s) + 1] = x
  OBVIOUS
<1> HIDE DEF t
<1> DEFINE n == Len(s)
<1>2. n \in Nat /\ \A i \in 1 .. n + 1 : i \in 1 .. n \/ i = n + 1
  BY <1>1
<1>3. Elements(t) = Elements(s) \cup {x}
  <2>1. ASSUME NEW y \in Elements(t) PROVE y \in Elements(s) \cup {x}
    BY <1>1, <1>2 DEF Elements
  <2>2. ASSUME NEW y \in Elements(s) \cup {x} PROVE y \in Elements(t)
    <3>1. \A i \in 1 .. n : i \in 1 .. n + 1
      BY <1>2
    <3>2. n + 1 \in 1 .. n + 1
      BY <1>2
    <3> QED BY <1>1, <3>1, <3>2 DEF Elements
  <2> QED BY <2>1, <2>2
<1>4. ASSUME Distinct(s), x \notin Elements(s) PROVE Distinct(t)
  BY <1>1, <1>2, <1>4 DEF Distinct, Elements
<1> QED BY <1>1, <1>3, <1>4 DEF t

LEMMA ConcatFacts ==
  ASSUME NEW A, NEW s \in Seq(A), NEW t \in Seq(A)
  PROVE  /\ s \o t \in Seq(A)
         /\ DOMAIN (s \o t) = 1 .. Len(s) + Len(t)
         /\ \A i \in DOMAIN s : i \in DOMAIN (s \o t) /\ (s \o t)[i] = s[i]
         /\ \A i \in DOMAIN t : Len(s) + i \in DOMAIN (s \o t) /\ (s \o t)[Len(s) + i] = t[i]
         /\ \A i \in DOMAIN (s \o t) :
              i \in DOMAIN s \/ (i - Len(s) \in DOMAIN t /\ (s \o t)[i] = t[i - Len(s)])
         /\ Elements(s \o t) = Elements(s) \cup Elements(t)
         /\ Distinct(s) /\ Distinct(t) /\ Elements(s) \cap Elements(t) = {} => Distinct(s \o t)
<1> DEFINE u == s \o t
           m == Len(s)
           n == Len(t)
<1>1. /\ u \in Seq(A) /\ m \in Nat /\ n \in Nat
      /\ DOMAIN s = 1 .. m /\ DOMAIN t = 1 .. n /\ DOMAIN u = 1 .. m + n
      /\ \A i \in 1 .. m + n : u[i] = IF i <= m THEN s[i] ELSE t[i - m]
  OBVIOUS
<1> HIDE DEF u, m, n
<1>2. /\ \A i \in DOMAIN s : i \in DOMAIN u /\ u[i] = s[i]
      /\ \A i \in DOMAIN t : m + i \in DOMAIN u /\ u[m + i] = t[i]
      /\ \A i \in DOMAIN u : i \in DOMAIN s \/ (i - m \in DOMAIN t /\ u[i] = t[i - m])
  BY <1>1
<1>3. Elements(u) = Elements(s) \cup Elements(t)
  BY <1>2 DEF Elements
<1>4. ASSUME Distinct(s), Distinct(t), Elements(s) \cap Elements(t) = {} PROVE Distinct(u)
  <2> SUFFICES ASSUME NEW i \in DOMAIN u, NEW j \in DOMAIN u, u[i] = u[j] PROVE i = j
    BY DEF Distinct
  <2>1. CASE i \in DOMAIN s /\ j \in DOMAIN s
    BY <1>2, <1>4, <2>1 DEF Distinct
  <2>2. CASE i \notin DOMAIN s /\ j \notin DOMAIN s
    <3>1. i - m = j - m
      BY <1>2, <1>4, <2>2 DEF Distinct
    <3> QED BY <1>1, <3>1
  <2>3. CASE (i \in DOMAIN s) # (j \in DOMAIN s)
    <3>1. u[i] \in Elements(s) \cap Elements(t)
      BY <1>2, <2>3 DEF Elements
    <3> QED BY <1>4, <3>1
  <2> QED BY <2>1, <2>2, <2>3
<1> QED BY <1>1, <1>2, <1>3, <1>4 DEF u, m, n

\* Induction and recursion over 0 .. n.
LEMMA InductionTo ==
  ASSUME NEW n \in Nat, NEW T, 0 \in T, \A i \in 1 .. n : i - 1 \in T => i \in T
  PROVE  0 .. n \subseteq T
<1> DEFINE rank == [i \in 0 .. n |-> i]
<1>1. ASSUME NEW i \in 0 .. n, \A j \in 0 .. n : rank[j] < rank[i] => j \in T
      PROVE  i \in T
  <2>1. CASE i = 0
    BY <2>1
  <2>2. CASE i # 0
    <3>1. i \in 1 .. n /\ i - 1 \in 0 .. n /\ rank[i - 1] < rank[i]
      BY <2>2
    <3> QED BY <1>1, <3>1
  <2> QED BY <2>1, <2>2
<1>2. rank \in [0 .. n -> Nat]
  OBVIOUS
<1> DEFINE D == 0 .. n
<1>3. \A i \in D : (\A j \in D : rank[j] < rank[i] => j \in T) => i \in T
  BY <1>1
<1>4. rank \in [D -> Nat]
  BY <1>2
<1> HIDE DEF rank, D
<1>5. D \subseteq T
  BY <1>3, <1>4, RankInduction
<1> QED BY <1>5 DEF D

StepsIn(n, A, start, step) ==
  n \in Nat /\ start \in A /\ \A i \in 1 .. n, a \in A : step[i][a] \in A
Steps(n, start, step, g) == [i \in 0 .. n |-> IF i = 0 THEN start ELSE step[i][g[i - 1]]]

LEMMA RecursionTo ==
  ASSUME NEW n, NEW A, NEW start, NEW step, StepsIn(n, A, start, step)
  PROVE  \E g \in [0 .. n -> A] : g = Steps(n, start, step, g)
<1> USE DEF StepsIn, Steps
<1> DEFINE E(g) == [i \in 0 .. n |-> IF i = 0 THEN start ELSE step[i][g[i - 1]]]
           G == [g \in [0 .. n -> A] |-> E(g)]
           rank == [i \in 0 .. n |-> i]
<1>1. IsRecursion(G, 0 .. n, A, rank)
  <2>1. rank \in [0 .. n -> Nat] /\ [0 .. n -> A] # {}
    <3>1. rank \in [0 .. n -> Nat]
      OBVIOUS
    <3>2. [i \in 0 .. n |-> start] \in [0 .. n -> A]
      OBVIOUS
    <3> HIDE DEF rank
    <3> QED BY <3>1, <3>2
  <2>2. \A g \in [0 .. n -> A] : E(g) \in [0 .. n -> A]
    <3> SUFFICES ASSUME NEW g \in [0 .. n -> A], NEW i \in 1 .. n PROVE step[i][g[i - 1]] \in A
      OBVIOUS
    <3>1. g[i - 1] \in A
      <4>1. i - 1 \in 0 .. n
        OBVIOUS
      <4> QED BY <4>1
    <3> QED BY <3>1
  <2>3. ASSUME NEW g \in [0 .. n -> A], NEW h \in [0 .. n -> A], NEW i \in 0 .. n,
               \A j \in 0 .. n : rank[j] < rank[i] => g[j] = h[j]
        PROVE  G[g][i] = G[h][i]
    <3>1. i # 0 => i - 1 \in 0 .. n /\ rank[i - 1] < rank[i]
      OBVIOUS
    <3> QED BY <2>3, <3>1
  <2>4. G \in [[0 .. n -> A] -> [0 .. n -> A]]
    BY <2>2
  <2> HIDE DEF G, rank
  <2> QED BY <2>1, <2>3, <2>4 DEF IsRecursion
<1>2. PICK g \in [0 .. n -> A] : g = G[g]
  <2> HIDE DEF G
  <2> QED BY <1>1, RecursionExists
<1> QED BY <1>2

-----------------------------------------------------------------------------
(* Gates, on one pattern.                                                  *)

Val3 == {"0", "1", "X"}
Opposite(u, v) == {u, v} = {"0", "1"}

\* u is v, or tells what v leaves open.
Refines(u, v) == v = "X" \/ u = v

LEMMA NotOpposite ==
  ASSUME NEW u, NEW v, Refines(u, v) \/ Refines(v, u)
  PROVE  ~ Opposite(u, v)
  BY DEF Refines, Opposite

\* A fanin list, its length taken apart.
FaninList(n, s) == DOMAIN s = DOMAIN Fanin[n] /\ \A i \in DOMAIN s : s[i] \in Val3

LEMMA FaninFacts ==
  ASSUME NEW n \in Node
  PROVE  /\ GateType[n] \in GateTypes
         /\ Fanin[n] \in Seq(Node)
         /\ DOMAIN Fanin[n] = 1 .. Len(Fanin[n]) /\ Len(Fanin[n]) \in Nat
         /\ \A i \in DOMAIN Fanin[n] : Fanin[n][i] \in Node /\ Level[Fanin[n][i]] < Level[n]
         /\ ~ IsInput(n) => 1 \in DOMAIN Fanin[n]
<1>1. Fanin[n] \in Seq(Node) /\ GateType[n] \in GateTypes
  BY NetAssumption
<1>2. ~ IsInput(n) => Fanin[n] # << >>
  BY NetAssumption DEF IsInput
<1>3. \A i \in DOMAIN Fanin[n] : Fanin[n][i] \in Node
  BY <1>1
<1> QED BY <1>1, <1>2, <1>3, LevelAssumption

LEMMA GateType3 ==
  ASSUME NEW n \in Node, ~ IsInput(n), NEW s, FaninList(n, s)
  PROVE  GateFunction(GateType[n], s) \in Val3
<1>1. \A v \in Val3 : Complement(v) \in Val3
  BY DEF Complement, Val3
<1>2. s[1] \in Val3
  BY FaninFacts DEF FaninList
<1>3. AndOf(s) \in Val3 /\ OrOf(s) \in Val3 /\ XorOf(s) \in Val3
  BY DEF AndOf, OrOf, XorOf, Val3
<1> HIDE DEF Val3
<1> QED BY <1>1, <1>2, <1>3 DEF GateFunction

\* More definite fanins give a more definite output.
LEMMA GateMonotone ==
  ASSUME NEW n \in Node, ~ IsInput(n), NEW r, NEW s, FaninList(n, r), FaninList(n, s),
         \A i \in DOMAIN Fanin[n] : Refines(r[i], s[i])
  PROVE  Refines(GateFunction(GateType[n], r), GateFunction(GateType[n], s))
<1>1. \A u, v \in Val3 : Refines(u, v) => Refines(Complement(u), Complement(v))
  BY DEF Complement, Val3, Refines
<1>2. s[1] \in Val3 /\ r[1] \in Val3 /\ Refines(r[1], s[1])
  BY FaninFacts DEF FaninList
<1>3. Refines(AndOf(r), AndOf(s))
  BY DEF AndOf, Some, Val3, Refines, FaninList
<1>4. Refines(OrOf(r), OrOf(s))
  BY DEF OrOf, Some, Val3, Refines, FaninList
<1>5. Refines(XorOf(r), XorOf(s))
  <2>1. CASE Some(s, "X")
    BY <2>1 DEF XorOf, Refines
  <2>2. CASE ~ Some(s, "X")
    <3>1. \A i \in DOMAIN Fanin[n] : r[i] = s[i]
      BY <2>2 DEF Some, Refines, FaninList
    <3>2. Some(r, "X") <=> Some(s, "X")
      BY <3>1 DEF Some, FaninList
    <3>3. {i \in DOMAIN r : r[i] = "1"} = {i \in DOMAIN s : s[i] = "1"}
      BY <3>1 DEF FaninList
    <3> QED BY <3>2, <3>3 DEF XorOf, Refines
  <2> QED BY <2>1, <2>2
<1>6. AndOf(s) \in Val3 /\ OrOf(s) \in Val3 /\ XorOf(s) \in Val3
      /\ AndOf(r) \in Val3 /\ OrOf(r) \in Val3 /\ XorOf(r) \in Val3
  BY DEF AndOf, OrOf, XorOf, Val3
<1> DEFINE base(t) == IF GateType[n] \in {"And", "Nand"} THEN AndOf(t)
              ELSE IF GateType[n] \in {"Or", "Nor"} THEN OrOf(t)
              ELSE IF GateType[n] \in {"Xor", "Xnor"} THEN XorOf(t)
              ELSE t[1]
<1>7. Refines(base(r), base(s)) /\ base(r) \in Val3 /\ base(s) \in Val3
  BY <1>2, <1>3, <1>4, <1>5, <1>6, Zenon
<1>8. \A t : GateFunction(GateType[n], t) =
               IF GateType[n] \in {"Not", "Nand", "Nor", "Xnor"} THEN Complement(base(t)) ELSE base(t)
  BY DEF GateFunction
<1> HIDE DEF base
<1> QED BY <1>1, <1>7, <1>8

-----------------------------------------------------------------------------
(* One pattern on the network, and what a change of one node does to it.   *)

Pattern == [Node -> Val3]
Feeds(n, m) == \E i \in DOMAIN Fanin[m] : Fanin[m][i] = n
FaninsOf(n, u) == [i \in DOMAIN Fanin[n] |-> u[Fanin[n][i]]]
GateIn(n, u) == GateFunction(GateType[n], FaninsOf(n, u))

\* v is a pattern that the network computes from its inputs.
Sound(v) == v \in Pattern /\ \A n \in Node : ~ IsInput(n) => v[n] = GateIn(n, v)

\* u is what becomes of v when node n takes a value of its own.
Driven(u, v, n) ==
  /\ u \in Pattern
  /\ \A m \in Node \ {n} : u[m] = IF IsInput(m) THEN v[m] ELSE GateIn(m, u)

LEMMA FeedsAbove ==
  ASSUME NEW n \in Node, NEW m \in Node, Feeds(n, m)
  PROVE  Level[n] < Level[m] /\ ~ IsInput(m)
  BY FaninFacts, NetAssumption DEF Feeds, IsInput

LEMMA FaninsOfType ==
  ASSUME NEW u \in Pattern, NEW n \in Node
  PROVE  FaninList(n, FaninsOf(n, u))
  BY FaninFacts DEF FaninsOf, FaninList, Pattern

LEMMA SameFanins ==
  ASSUME NEW u, NEW v, NEW n \in Node, \A m \in Node : Feeds(m, n) => u[m] = v[m]
  PROVE  GateIn(n, u) = GateIn(n, v)
<1>1. FaninsOf(n, u) = FaninsOf(n, v)
  BY FaninFacts DEF FaninsOf, Feeds
<1> QED BY <1>1 DEF GateIn

\* Below the nodes that node n feeds, nothing changes.
LEMMA UnchangedBelow ==
  ASSUME NEW v, Sound(v), NEW n \in Node, NEW u, Driven(u, v, n), NEW l \in Nat,
         \A k \in Node : Feeds(n, k) => Level[k] >= l
  PROVE  \A k \in Node : k # n /\ Level[k] < l => u[k] = v[k]
<1> DEFINE T == {k \in Node : k # n /\ Level[k] < l => u[k] = v[k]}
<1>1. ASSUME NEW k \in Node, \A m \in Node : Level[m] < Level[k] => m \in T
      PROVE  k \in T
  <2> SUFFICES ASSUME k # n, Level[k] < l PROVE u[k] = v[k]
    OBVIOUS
  <2>1. CASE IsInput(k)
    BY <2>1 DEF Driven
  <2>2. CASE ~ IsInput(k)
    <3>1. \A j \in Node : Level[j] \in Nat
      BY LevelAssumption
    <3>2. \A m \in Node : Feeds(m, k) => u[m] = v[m]
      <4> SUFFICES ASSUME NEW m \in Node, Feeds(m, k) PROVE u[m] = v[m]
        OBVIOUS
      <4>1. Level[m] < Level[k]
        BY FeedsAbove
      <4>2. m # n /\ Level[m] < l
        BY <3>1, <4>1
      <4> QED BY <1>1, <4>1, <4>2
    <3>3. GateIn(k, u) = GateIn(k, v)
      BY <3>2, SameFanins
    <3> QED BY <2>2, <3>3 DEF Driven, Sound
  <2> QED BY <2>1, <2>2
<1>2. Node \subseteq T
  <2> HIDE DEF T
  <2> QED BY <1>1, RankInduction, LevelAssumption
<1> QED BY <1>2

\* A node that only becomes more definite, or less, makes no output opposite.
LEMMA RefinedAbove ==
  ASSUME NEW v, Sound(v), NEW n \in Node, NEW u, Driven(u, v, n),
         Refines(u[n], v[n]) \/ Refines(v[n], u[n])
  PROVE  \A k \in Node : ~ Opposite(u[k], v[k])
<1> DEFINE up == Refines(u[n], v[n])
           Better(x, y) == IF up THEN Refines(x, y) ELSE Refines(y, x)
           T == {k \in Node : Better(u[k], v[k])}
<1>1. ASSUME NEW k \in Node, \A m \in Node : Level[m] < Level[k] => m \in T
      PROVE  k \in T
  <2>1. CASE k = n
    BY <2>1
  <2>2. CASE k # n /\ IsInput(k)
    <3>1. u[k] = v[k]
      BY <2>2 DEF Driven
    <3> QED BY <3>1 DEF Refines
  <2>3. CASE k # n /\ ~ IsInput(k)
    <3>1. FaninList(k, FaninsOf(k, u)) /\ FaninList(k, FaninsOf(k, v))
      BY FaninsOfType DEF Driven, Sound
    <3>2. \A i \in DOMAIN Fanin[k] : Better(FaninsOf(k, u)[i], FaninsOf(k, v)[i])
      <4> HIDE DEF Better
      <4> QED BY <1>1, FaninFacts DEF FaninsOf
    <3>3. Better(GateIn(k, u), GateIn(k, v))
      BY <2>3, <3>1, <3>2, GateMonotone DEF GateIn
    <3>4. u[k] = GateIn(k, u) /\ v[k] = GateIn(k, v)
      BY <2>3 DEF Driven, Sound
    <3> HIDE DEF Better
    <3> QED BY <3>3, <3>4
  <2> QED BY <2>1, <2>2, <2>3
<1>2. Node \subseteq T
  <2> HIDE DEF T
  <2> QED BY <1>1, RankInduction, LevelAssumption
<1> QED BY <1>2, NotOpposite

LEMMA DrivenUnique ==
  ASSUME NEW v, NEW n \in Node, NEW u, NEW w, Driven(u, v, n), Driven(w, v, n), u[n] = w[n]
  PROVE  u = w
<1>1. ASSUME NEW k \in Node, \A m \in Node : Level[m] < Level[k] => u[m] = w[m]
      PROVE  u[k] = w[k]
  <2>1. GateIn(k, u) = GateIn(k, w)
    BY <1>1, FeedsAbove, SameFanins
  <2> QED BY <2>1 DEF Driven
<1>2. AgreeUpwards(u, w, Node, Level)
  BY <1>1, LevelAssumption DEF AgreeUpwards, Driven, Pattern
<1> QED BY <1>2, RecursionUnique
=============================================================================
